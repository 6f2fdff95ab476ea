---------------------------- MODULE PipelineProofs ----------------------------
(***************************************************************************)
(* Theorems about the client, FieldReader, and about Pipeline, the client  *)
(* with the exporter, for any fields, groups, intervals and bound. What is *)
(* shown of the client first holds of it in Pipeline too, as every step of *)
(* Pipeline is a step of FieldReader or leaves its variables alone; what   *)
(* IntegralsProofs shows of the exporter is carried over at the end.       *)
(***************************************************************************)
EXTENDS Pipeline, TLAPS, WellFoundedInduction

(***************************************************************************)
(* The inductive invariant. What was read of a field lies before the start *)
(* of its group's next read, and what is in the sample lies after all that *)
(* has left it, counted or lost.                                           *)
(***************************************************************************)
Types ==
    /\ now \in Nat /\ 1 <= now /\ now <= MaxTime
    /\ log \subseteq [field : Field, ts : Nat, ok : BOOLEAN]
    /\ pc \in {"idle", "read"}
    /\ todo \subseteq Group
    /\ since \in [Group -> Nat]
    /\ obs \in [Field -> SUBSET Nat]
    /\ counted \in [Field -> SUBSET Nat]
    /\ lost \in [Field -> SUBSET Nat]

PastInv == \A v \in log : 1 <= v.ts /\ v.ts < now

SinceInv == \A g \in Group : since[g] <= now

ReadInv ==
    \A f \in Field : \A t \in obs[f] \cup counted[f] \cup lost[f] : t < since[GroupOf[f]]

SampleInv ==
    \A f \in Field : obs[f] # {} => pc = "read" /\ GroupOf[f] \notin todo

OrderInv == \A f \in Field : \A t \in obs[f], u \in counted[f] \cup lost[f] : u < t

ApartInv == \A f \in Field : counted[f] \cap lost[f] = {}

LogInv ==
    \A v \in log : v.ok /\ v.ts < since[GroupOf[v.field]] =>
        v.ts \in obs[v.field] \cup counted[v.field] \cup lost[v.field]

IInv == Types /\ PastInv /\ SinceInv /\ ReadInv /\ SampleInv /\ OrderInv /\ ApartInv /\ LogInv

LEMMA InitInv == Init => IInv
<1> SUFFICES ASSUME Init PROVE IInv
  OBVIOUS
<1> USE GroupsAssumption, TimeAssumption DEF Init, NoObservation
<1>1. Types
  BY DEF Types
<1>2. PastInv /\ SinceInv /\ ReadInv /\ SampleInv /\ OrderInv /\ ApartInv /\ LogInv
  BY DEF PastInv, SinceInv, ReadInv, SampleInv, OrderInv, ApartInv, LogInv
<1> QED
  BY <1>1, <1>2 DEF IInv

(* A read adds to the sample of a field values that no earlier read had.   *)
LEMMA ReadGroupInv ==
    ASSUME IInv, NEW g \in Group, ReadGroup(g)
    PROVE  IInv'
<1> USE GroupsAssumption
<1> DEFINE new(f) == ValidTimes(Read(f))
           old(f) == ValidTimes(Forgotten(f))
<1>1. /\ pc = "read" /\ g \in todo /\ todo' = todo \ {g}
      /\ since' = [since EXCEPT ![g] = now]
      /\ obs' = [f \in Field |-> IF GroupOf[f] = g THEN new(f) ELSE obs[f]]
      /\ log' = {v \in log : GroupOf[v.field] = g => v \notin Forgotten(v.field)}
      /\ lost' = [f \in Field |-> IF GroupOf[f] = g THEN lost[f] \cup old(f) ELSE lost[f]]
      /\ UNCHANGED <<now, pc, counted>>
  BY DEF ReadGroup, NextSince, Turn
<1>2. /\ \A f \in Field : \A t \in new(f) : t \in Nat /\ since[GroupOf[f]] <= t /\ t < now
      /\ \A f \in Field : \A t \in old(f) : t \in Nat /\ since[GroupOf[f]] <= t /\ t < now
      /\ \A f \in Field : \A t \in new(f), u \in old(f) : u < t
  BY KeepAssumption DEF IInv, Types, ValidTimes, Read, Forgotten, Unread
<1>3. \A v \in log' : v.ok /\ GroupOf[v.field] = g /\ since[GroupOf[v.field]] <= v.ts
                        /\ v.ts < now => v.ts \in new(v.field)
  BY <1>1, KeepAssumption DEF IInv, Types, ValidTimes, Read, Forgotten, Unread
<1>4. \A f \in Field : GroupOf[f] = g => obs[f] = {}
  BY <1>1 DEF IInv, SampleInv
<1>5. Types'
  BY <1>1, <1>2 DEF IInv, Types
<1>6. PastInv' /\ SinceInv'
  BY <1>1 DEF IInv, Types, PastInv, SinceInv
<1>7. ReadInv'
  <2> SUFFICES ASSUME NEW f \in Field,
                      NEW t \in obs'[f] \cup counted'[f] \cup lost'[f]
               PROVE  t < since'[GroupOf[f]]
    BY DEF ReadInv
  <2>1. CASE GroupOf[f] = g
    <3>1. t \in new(f) \cup old(f) \cup counted[f] \cup lost[f]
      BY <1>1, <2>1
    <3>2. since'[GroupOf[f]] = now /\ since[GroupOf[f]] <= now
      BY <1>1, <2>1 DEF IInv, Types, SinceInv
    <3>3. CASE t \in new(f) \cup old(f)
      BY <1>2, <3>2, <3>3
    <3>4. CASE t \in counted[f] \cup lost[f]
      <4>1. t < since[GroupOf[f]] /\ t \in Nat
        BY <3>4 DEF IInv, Types, ReadInv
      <4> QED
        BY <3>2, <4>1 DEF IInv, Types
    <3> QED
      BY <3>1, <3>3, <3>4
  <2>2. CASE GroupOf[f] # g
    BY <1>1, <2>2 DEF IInv, Types, ReadInv
  <2> QED
    BY <2>1, <2>2
<1>8. SampleInv'
  BY <1>1 DEF IInv, Types, SampleInv
<1>9. OrderInv'
  <2> SUFFICES ASSUME NEW f \in Field, NEW t \in obs'[f],
                      NEW u \in counted'[f] \cup lost'[f]
               PROVE  u < t
    BY DEF OrderInv
  <2>1. CASE GroupOf[f] = g
    <3>1. t \in Nat /\ since[GroupOf[f]] <= t
      BY <1>1, <1>2, <2>1
    <3>2. CASE u \in old(f)
      BY <1>1, <1>2, <2>1, <3>2
    <3>3. CASE u \in counted[f] \cup lost[f]
      <4>1. u < since[GroupOf[f]] /\ u \in Nat
        BY <3>3 DEF IInv, Types, ReadInv
      <4> QED
        BY <3>1, <4>1 DEF IInv, Types
    <3> QED
      BY <1>1, <2>1, <3>2, <3>3
  <2>2. CASE GroupOf[f] # g
    BY <1>1, <2>2 DEF IInv, OrderInv
  <2> QED
    BY <2>1, <2>2
<1>10. ApartInv'
  <2> SUFFICES ASSUME NEW f \in Field, NEW t \in counted[f], t \in old(f), GroupOf[f] = g
               PROVE  FALSE
    BY <1>1 DEF IInv, ApartInv
  <2>1. t < since[g] /\ since[g] <= t
    BY <1>2 DEF IInv, ReadInv
  <2> QED
    BY <1>2, <2>1 DEF IInv, Types
<1>11. LogInv'
  <2> SUFFICES ASSUME NEW v \in log', v.ok, v.ts < since'[GroupOf[v.field]]
               PROVE  v.ts \in obs'[v.field] \cup counted[v.field] \cup lost[v.field]
    <3>1. log' \subseteq log /\ \A f \in Field : lost[f] \subseteq lost'[f]
      BY <1>1 DEF IInv, Types
    <3>2. \A v \in log' : v.field \in Field
      BY <3>1 DEF IInv, Types
    <3> QED
      BY <1>1, <3>1, <3>2 DEF LogInv
  <2>1. v \in log /\ v.field \in Field /\ v.ts \in Nat
    BY <1>1 DEF IInv, Types
  <2>2. CASE GroupOf[v.field] = g
    <3>1. v.ts < now /\ obs'[v.field] = new(v.field) /\ obs[v.field] = {}
      BY <1>1, <1>4, <2>1, <2>2 DEF IInv, Types
    <3>2. CASE since[GroupOf[v.field]] <= v.ts
      BY <1>3, <2>2, <3>1, <3>2
    <3>3. CASE v.ts < since[GroupOf[v.field]]
      BY <2>1, <3>1, <3>3 DEF IInv, LogInv
    <3> QED
      BY <2>1, <3>2, <3>3 DEF IInv, Types
  <2>3. CASE GroupOf[v.field] # g
    BY <1>1, <2>1, <2>3 DEF IInv, Types, LogInv
  <2> QED
    BY <2>2, <2>3
<1> QED
  BY <1>5, <1>6, <1>7, <1>8, <1>9, <1>10, <1>11 DEF IInv

(* The sample leaves, as a whole, into the counted or the lost values.     *)
LEMMA SampleDoneInv ==
    ASSUME IInv, DropSample \/ CollectSample
    PROVE  IInv'
<1> USE GroupsAssumption
<1>1. /\ UNCHANGED <<now, log, todo, since>>
      /\ pc' = "idle"
      /\ obs' = [f \in Field |-> {}]
      /\ \/ /\ lost' = [f \in Field |-> lost[f] \cup obs[f]]
            /\ counted' = counted
         \/ /\ counted' = [f \in Field |-> counted[f] \cup obs[f]]
            /\ lost' = lost
  BY DEF DropSample, CollectSample, NoObservation, reader
<1>2. \A f \in Field : obs'[f] = {}
                    /\ counted'[f] \cup lost'[f] = obs[f] \cup counted[f] \cup lost[f]
  BY <1>1 DEF IInv, Types
<1>3. Types'
  BY <1>1 DEF IInv, Types
<1>4. PastInv' /\ SinceInv' /\ SampleInv' /\ OrderInv'
  BY <1>1, <1>2 DEF IInv, Types, PastInv, SinceInv, SampleInv, OrderInv
<1>5. ReadInv'
  BY <1>1, <1>2 DEF IInv, ReadInv
<1>6. ApartInv'
  <2>1. \A f \in Field : obs[f] \cap (counted[f] \cup lost[f]) = {}
    <3> SUFFICES ASSUME NEW f \in Field, NEW t \in obs[f], t \in counted[f] \cup lost[f]
                 PROVE  FALSE
      OBVIOUS
    <3>1. t \in Nat
      BY DEF IInv, Types
    <3>2. t < t
      BY DEF IInv, OrderInv
    <3> QED
      BY <3>1, <3>2
  <2>2. CASE counted' = counted
    BY <1>1, <2>1, <2>2 DEF IInv, Types, ApartInv
  <2>3. CASE lost' = lost
    BY <1>1, <2>1, <2>3 DEF IInv, Types, ApartInv
  <2> QED
    BY <1>1, <2>2, <2>3
<1>7. LogInv'
  BY <1>1, <1>2 DEF IInv, Types, LogInv
<1> QED
  BY <1>3, <1>4, <1>5, <1>6, <1>7 DEF IInv

LEMMA NextInv == IInv /\ [Next]_vars => IInv'
<1> SUFFICES ASSUME IInv, [Next]_vars PROVE IInv'
  OBVIOUS
<1> USE GroupsAssumption
<1>1. CASE Advance
  <2>1. /\ now < MaxTime /\ now' = now + 1
        /\ UNCHANGED <<pc, todo, since, obs, counted, lost>>
    BY <1>1 DEF Advance, reader, sample, ghosts
  <2>0. \E valid \in SUBSET Field, blank \in SUBSET Blank :
          log' = log \cup Recorded(valid, TRUE) \cup Recorded(blank, FALSE)
    BY <1>1 DEF Advance
  <2>2. Types'
    <3>1. \A chosen \in SUBSET Field, ok \in BOOLEAN :
            Recorded(chosen, ok) \subseteq [field : Field, ts : Nat, ok : BOOLEAN]
      BY DEF IInv, Types, Recorded
    <3>2. log' \subseteq [field : Field, ts : Nat, ok : BOOLEAN]
      <4>1. SUBSET Blank \subseteq SUBSET Field
        BY FailuresAssumption
      <4>2. log \subseteq [field : Field, ts : Nat, ok : BOOLEAN]
        BY DEF IInv, Types
      <4> QED
        BY <2>0, <3>1, <4>1, <4>2
    <3> QED
      BY <2>1, <3>2, TimeAssumption DEF IInv, Types
  <2>3. SinceInv' /\ ReadInv' /\ SampleInv' /\ OrderInv' /\ ApartInv'
    BY <2>1 DEF IInv, Types, SinceInv, ReadInv, SampleInv, OrderInv, ApartInv
  <2>5. PastInv'
    <3>1. \A v \in log' : v \in log \/ v.ts = now
      BY <2>0 DEF Recorded
    <3> QED
      BY <2>1, <3>1 DEF IInv, Types, PastInv
  <2>4. LogInv'
    <3>1. \A v \in log' : v \in log \/ (v.ts = now /\ v.field \in Field)
      BY <2>0, FailuresAssumption DEF Recorded
    <3>2. \A f \in Field : ~(now < since[GroupOf[f]])
      BY DEF IInv, Types, SinceInv
    <3>3. \A v \in log' : v.ts < since[GroupOf[v.field]] => v \in log
      BY <3>1, <3>2
    <3>4. UNCHANGED <<since, obs, counted, lost>>
      BY <2>1
    <3> SUFFICES ASSUME NEW v \in log', v.ok, v.ts < since[GroupOf[v.field]]
                 PROVE  v.ts \in obs[v.field] \cup counted[v.field] \cup lost[v.field]
      BY <3>4 DEF LogInv
    <3> QED
      BY <3>3 DEF IInv, LogInv
  <2> QED
    BY <2>2, <2>3, <2>4, <2>5 DEF IInv
<1>3. CASE StartPass
  <2>1. /\ pc = "idle" /\ pc' = "read" /\ todo' = Group
        /\ UNCHANGED <<now, log, since, obs, counted, lost>>
    BY <1>3 DEF StartPass, reader, ghosts
  <2> QED
    BY <2>1 DEF IInv, Types, PastInv, SinceInv, ReadInv, SampleInv, OrderInv, ApartInv, LogInv
<1>4. ASSUME NEW g \in Group, SkipGroup(g) \/ ReadFails(g) PROVE IInv'
  <2>1. /\ todo' = todo \ {g}
        /\ UNCHANGED <<now, log, pc, since, obs, counted, lost>>
    BY <1>4 DEF SkipGroup, ReadFails, Turn, reader, sample, ghosts
  <2> QED
    BY <2>1 DEF IInv, Types, PastInv, SinceInv, ReadInv, SampleInv, OrderInv, ApartInv, LogInv
<1>5. ASSUME NEW g \in Group, ReadGroup(g) PROVE IInv'
  BY <1>5, ReadGroupInv
<1>6. CASE DropSample \/ CollectSample
  BY <1>6, SampleDoneInv
<1>7. CASE UNCHANGED vars
  BY <1>7 DEF vars, IInv, Types, PastInv, SinceInv, ReadInv, SampleInv, OrderInv, ApartInv, LogInv
<1> QED
  BY <1>1, <1>3, <1>4, <1>5, <1>6, <1>7 DEF Next

LEMMA Invariant == Spec => []IInv
<1> QED
  BY InitInv, NextInv, PTL DEF Spec

(* readWatcher never counts a value twice or out of order.                 *)
THEOREM OrderCorrect == Spec => []CountedOnceInOrder
<1>1. IInv => CountedOnceInOrder
  BY DEF IInv, OrderInv, CountedOnceInOrder
<1> QED
  BY <1>1, Invariant, PTL

(* readWatcher, Samples and collectSample: what a read returned is counted *)
(* or lost with its sample, and never both.                                *)
THEOREM CountedCorrect == Spec => []CountedOrDropped
<1>1. IInv => CountedOrDropped
  <2> SUFFICES ASSUME IInv PROVE CountedOrDropped
    OBVIOUS
  <2>1. ASSUME pc = "idle", NEW v \in log, v.ok, v.ts < since[GroupOf[v.field]]
        PROVE  v.ts \in counted[v.field] \cup lost[v.field]
    <3>1. v.field \in Field /\ obs[v.field] = {}
      BY <2>1 DEF IInv, Types, SampleInv
    <3> QED
      BY <2>1, <3>1 DEF IInv, LogInv
  <2> QED
    BY <2>1 DEF IInv, ApartInv, CountedOrDropped
<1> QED
  BY <1>1, Invariant, PTL

(* Without a failed fast read no sample is dropped, and what is lost is    *)
(* what DCGM had forgotten, which no read returned.                        *)
KeptInv ==
    /\ ~fastFailed
    /\ \A v \in log : v.ok /\ v.ts < since[GroupOf[v.field]] =>
          v.ts \in obs[v.field] \cup counted[v.field]

LEMMA KeptRead ==
    ASSUME IInv, KeptInv, NEW g \in Group, ReadGroup(g)
    PROVE  KeptInv'
<1> USE GroupsAssumption
<1>1. /\ pc = "read" /\ g \in todo
      /\ since' = [since EXCEPT ![g] = now]
      /\ obs' = [f \in Field |-> IF GroupOf[f] = g THEN ValidTimes(Read(f)) ELSE obs[f]]
      /\ log' = {v \in log : GroupOf[v.field] = g => v \notin Forgotten(v.field)}
      /\ UNCHANGED <<now, fastFailed, counted>>
  BY DEF ReadGroup, NextSince, Turn
<1>2. ASSUME NEW v \in log', v.ok, v.ts < since'[GroupOf[v.field]]
      PROVE  v.ts \in obs'[v.field] \cup counted[v.field]
  <2>1. v \in log /\ v.field \in Field /\ v.ts \in Nat
    BY <1>1, <1>2 DEF IInv, Types
  <2>2. CASE GroupOf[v.field] = g
    <3>1. obs[v.field] = {} /\ obs'[v.field] = ValidTimes(Read(v.field))
      BY <1>1, <2>1, <2>2 DEF IInv, SampleInv
    <3>2. CASE v.ts < since[GroupOf[v.field]]
      BY <1>2, <2>1, <3>1, <3>2 DEF KeptInv
    <3>3. CASE since[GroupOf[v.field]] <= v.ts
      <4>1. v.ts < now /\ v \notin Forgotten(v.field)
        BY <1>1, <1>2, <2>1, <2>2 DEF IInv, PastInv
      <4>2. v \in Read(v.field)
        BY <2>1, <3>3, <4>1, KeepAssumption DEF Read, Forgotten, Unread, IInv, Types
      <4> QED
        BY <1>2, <3>1, <4>2 DEF ValidTimes
    <3> QED
      BY <2>1, <3>2, <3>3 DEF IInv, Types
  <2>3. CASE GroupOf[v.field] # g
    BY <1>1, <1>2, <2>1, <2>3 DEF IInv, Types, KeptInv
  <2> QED
    BY <2>2, <2>3
<1> QED
  BY <1>1, <1>2 DEF KeptInv

LEMMA KeptNext == Fast \notin Failing /\ IInv /\ KeptInv /\ [Next]_vars => KeptInv'
<1> SUFFICES ASSUME Fast \notin Failing, IInv, KeptInv, [Next]_vars PROVE KeptInv'
  OBVIOUS
<1> USE GroupsAssumption
<1>1. CASE Advance
  <2>1. /\ UNCHANGED <<since, obs, counted, fastFailed>>
        /\ \A v \in log' : v \in log \/ (v.ts = now /\ v.field \in Field)
    BY <1>1, FailuresAssumption DEF Advance, Recorded, reader, sample
  <2>2. \A f \in Field : ~(now < since[GroupOf[f]])
    BY DEF IInv, Types, SinceInv
  <2>3. \A v \in log' : v.ts < since[GroupOf[v.field]] => v \in log
    BY <2>1, <2>2
  <2> QED
    BY <2>1, <2>3 DEF KeptInv
<1>2. CASE StartPass
  BY <1>2 DEF StartPass, KeptInv, reader
<1>3. ASSUME NEW g \in Group, SkipGroup(g) \/ ReadFails(g) PROVE KeptInv'
  <2>1. UNCHANGED <<log, since, obs, counted>>
    BY <1>3 DEF SkipGroup, ReadFails, reader, sample
  <2>2. ~fastFailed'
    <3>1. CASE SkipGroup(g)
      BY <3>1 DEF SkipGroup, sample, KeptInv
    <3>2. CASE ReadFails(g)
      <4>1. g # Fast /\ fastFailed' = (fastFailed \/ g = Fast)
        BY <3>2 DEF ReadFails
      <4> QED
        BY <4>1 DEF KeptInv
    <3> QED
      BY <1>3, <3>1, <3>2
  <2> QED
    BY <2>1, <2>2 DEF KeptInv
<1>4. ASSUME NEW g \in Group, ReadGroup(g) PROVE KeptInv'
  BY <1>4, KeptRead
<1>5. ~DropSample
  BY DEF DropSample, KeptInv
<1>6. CASE CollectSample
  <2>1. /\ UNCHANGED <<log, since, fastFailed>>
        /\ \A f \in Field : counted'[f] = counted[f] \cup obs[f]
        /\ \A v \in log : v.field \in Field
    BY <1>6 DEF CollectSample, reader, IInv, Types
  <2> QED
    BY <2>1 DEF KeptInv
<1>7. CASE UNCHANGED vars
  BY <1>7 DEF vars, KeptInv
<1> QED
  BY <1>1, <1>2, <1>3, <1>4, <1>5, <1>6, <1>7 DEF Next

(* readWatcher with collectSample: as long as the fast group can be read,  *)
(* every value that a read returned is counted, whatever other reads fail. *)
THEOREM ReturnedCorrect == ASSUME Fast \notin Failing PROVE Spec => []ReturnedIsCounted
<1>1. Init => KeptInv
  BY DEF Init, KeptInv
<1>2. IInv /\ KeptInv /\ [Next]_vars => KeptInv'
  BY KeptNext
<1>3. IInv /\ KeptInv => ReturnedIsCounted
  <2> SUFFICES ASSUME IInv, KeptInv, pc = "idle",
                      NEW v \in log, v.ok, v.ts < since[GroupOf[v.field]]
               PROVE  v.ts \in counted[v.field]
    BY DEF ReturnedIsCounted
  <2>1. v.field \in Field /\ obs[v.field] = {}
    BY DEF IInv, Types, SampleInv
  <2> QED
    BY <2>1 DEF KeptInv
<1> QED
  BY <1>1, <1>2, <1>3, Invariant, PTL DEF Spec

(***************************************************************************)
(* Types and the availability of fields                                    *)
(***************************************************************************)
(* A set of natural numbers with a bound has a greatest element.           *)
LEMMA Greatest ==
    ASSUME NEW S \in SUBSET Nat, S # {}, NEW b \in Nat, \A x \in S : x <= b
    PROVE  \E t \in S : \A u \in S : u <= t
<1> DEFINE T == {b - x : x \in S}
<1>1. T \subseteq Nat /\ T # {}
  <2>1. \A x \in S : b - x \in Nat
    OBVIOUS
  <2>2. PICK s \in S : TRUE
    OBVIOUS
  <2>3. b - s \in T
    OBVIOUS
  <2> QED
    BY <2>1, <2>3
<1> DEFINE R == OpToRel(<, Nat)
<1>2. IsWellFoundedOn(R, Nat)
  BY NatLessThanWellFounded
<1>3. \A x, y \in Nat : y < x => <<y, x>> \in R
  BY DEF OpToRel
<1> HIDE DEF R, T
<1>4. PICK m \in T : \A y \in T : ~(<<y, m>> \in R)
  BY <1>1, <1>2, WFMin
<1>5. \A y \in T : ~(y < m)
  BY <1>1, <1>3, <1>4
<1>6. PICK t \in S : m = b - t
  BY <1>4 DEF T
<1>7. \A u \in S : b - u \in T
  BY DEF T
<1> QED
  BY <1>5, <1>6, <1>7

LEMMA LatestIs ==
    ASSUME NEW S \in SUBSET Time, S # {}, NEW d
    PROVE  Latest(S, d) \in S /\ \A u \in S : u <= Latest(S, d)
<1>1. S \in SUBSET Nat /\ MaxTime \in Nat /\ \A x \in S : x <= MaxTime
  BY TimeAssumption DEF Time
<1>2. \E t \in S : \A u \in S : u <= t
  BY <1>1, Greatest
<1> QED
  BY <1>2 DEF Latest

LEMMA NewestIs ==
    ASSUME NEW values \in SUBSET Value, values # {}
    PROVE  Newest(values) \in values /\ \A w \in values : w.ts <= Newest(values).ts
<1> DEFINE S == {v.ts : v \in values}
<1>1. S \in SUBSET Nat /\ S # {} /\ MaxTime \in Nat /\ \A x \in S : x <= MaxTime
  <2>1. S \in SUBSET Time
    BY DEF Value
  <2>2. S # {}
    OBVIOUS
  <2> QED
    BY <2>1, <2>2, TimeAssumption DEF Time
<1> HIDE DEF S
<1>2. PICK t \in S : \A u \in S : u <= t
  BY <1>1, Greatest
<1>3. \E v \in values : \A w \in values : w.ts <= v.ts
  BY <1>2 DEF S
<1> QED
  BY <1>3 DEF Newest

LEMMA ReadTyped ==
    ASSUME TypeOK, NEW f \in Field
    PROVE  /\ Read(f) \in SUBSET Value /\ Forgotten(f) \in SUBSET Value
           /\ ValidTimes(Read(f)) \in SUBSET Time /\ ValidTimes(Forgotten(f)) \in SUBSET Time
<1> QED
  BY DEF TypeOK, Read, Forgotten, Unread, ValidTimes, Value

LEMMA StatusTyped ==
    ASSUME TypeOK, NEW f \in Field
    PROVE  StatusAfter(f, Read(f)) \in [available : BOOLEAN, last : 0..MaxTime]
<1>1. status[f] \in [available : BOOLEAN, last : 0..MaxTime]
  BY DEF TypeOK
<1>2. CASE Read(f) = {}
  <2>1. StatusAfter(f, Read(f)) = [status[f] EXCEPT !.available = @ /\ StillFresh(f)]
    BY <1>2 DEF StatusAfter
  <2>2. (status[f].available /\ StillFresh(f)) \in BOOLEAN
    BY ZenonT(30)
  <2> QED
    BY <1>1, <2>1, <2>2
<1>3. CASE Read(f) # {}
  <2>1. Newest(Read(f)).ok \in BOOLEAN
    BY <1>3, ReadTyped, NewestIs DEF Value
  <2>2. Latest(ValidTimes(Read(f)), status[f].last) \in 0..MaxTime
    <3>1. CASE ValidTimes(Read(f)) = {}
      BY <1>1, <3>1 DEF Latest
    <3>2. CASE ValidTimes(Read(f)) # {}
      BY <3>2, ReadTyped, LatestIs, TimeAssumption DEF Time
    <3> QED
      BY <3>1, <3>2
  <2> QED
    BY <1>3, <2>1, <2>2 DEF StatusAfter
<1> QED
  BY <1>2, <1>3

LEMMA TypeNext == TypeOK /\ [Next]_vars => TypeOK'
<1> SUFFICES ASSUME TypeOK, [Next]_vars PROVE TypeOK'
  OBVIOUS
<1> USE GroupsAssumption, TimeAssumption
<1>1. CASE Advance
  <2>1. \A chosen \in SUBSET Field, ok \in BOOLEAN : Recorded(chosen, ok) \subseteq Value
    BY DEF TypeOK, Recorded, Value
  <2>2. SUBSET Blank \subseteq SUBSET Field
    BY FailuresAssumption
  <2>3. PICK valid \in SUBSET Field, blank \in SUBSET Blank :
          log' = log \cup Recorded(valid, TRUE) \cup Recorded(blank, FALSE)
    BY <1>1 DEF Advance
  <2>4. log' \subseteq Value
    BY <2>1, <2>2, <2>3 DEF TypeOK
  <2>5. /\ now < MaxTime /\ now' = now + 1
        /\ UNCHANGED <<pc, pollTime, todo, since, lastPoll, from, status, obs, fastFailed,
                       shown, counted, lost, dropped>>
    BY <1>1 DEF Advance, reader, sample, ghosts
  <2> QED
    BY <2>4, <2>5 DEF TypeOK, Time
<1>2. CASE StartPass
  BY <1>2 DEF StartPass, TypeOK, Time, reader, ghosts
<1>3. ASSUME NEW g \in Group, SkipGroup(g) PROVE TypeOK'
  BY <1>3 DEF SkipGroup, TypeOK, reader, sample, ghosts
<1>4. ASSUME NEW g \in Group, ReadFails(g) PROVE TypeOK'
  <2>1. status' \in [Field -> [available : BOOLEAN, last : 0..MaxTime]]
    <3>1. status \in [Field -> [available : BOOLEAN, last : 0..MaxTime]]
      BY DEF TypeOK
    <3>2. ASSUME NEW f \in Field
          PROVE  [status[f] EXCEPT !.available = FALSE] \in [available : BOOLEAN, last : 0..MaxTime]
      BY <3>1
    <3>3. status' = [f \in Field |-> IF GroupOf[f] = g THEN [status[f] EXCEPT !.available = FALSE]
                                                      ELSE status[f]]
      BY <1>4 DEF ReadFails
    <3> QED
      BY <3>1, <3>2, <3>3
  <2>2. lastPoll' \in [Group -> 0..MaxTime]
    BY <1>4 DEF ReadFails, TypeOK, Time
  <2>3. fastFailed' \in BOOLEAN
    BY <1>4 DEF ReadFails, TypeOK
  <2> QED
    BY <1>4, <2>1, <2>2, <2>3 DEF ReadFails, TypeOK, ghosts
<1>5. ASSUME NEW g \in Group, ReadGroup(g) PROVE TypeOK'
  <2>1. status' \in [Field -> [available : BOOLEAN, last : 0..MaxTime]]
    BY <1>5, StatusTyped DEF ReadGroup, TypeOK
  <2>2. lastPoll' \in [Group -> 0..MaxTime]
    BY <1>5 DEF ReadGroup, TypeOK, Time
  <2>3. obs' \in [Field -> SUBSET Time] /\ lost' \in [Field -> SUBSET Time]
    BY <1>5, ReadTyped DEF ReadGroup, TypeOK
  <2>4. since' \in [Group -> Time] /\ from' \in [Group -> Time]
    BY <1>5 DEF ReadGroup, NextSince, TypeOK
  <2>5. log' \subseteq Value /\ todo' \subseteq Group
    BY <1>5 DEF ReadGroup, TypeOK
  <2> QED
    BY <1>5, <2>1, <2>2, <2>3, <2>4, <2>5 DEF ReadGroup, TypeOK
<1>6. CASE DropSample
  <2>1. lost' \in [Field -> SUBSET Time] /\ obs' \in [Field -> SUBSET Time]
    BY <1>6 DEF DropSample, TypeOK, NoObservation
  <2>2. pollTime' \in 0..now'
    BY <1>6 DEF DropSample, TypeOK, Time
  <2>3. /\ pc' = "idle" /\ fastFailed' = FALSE /\ dropped' = TRUE
        /\ UNCHANGED <<now, log, todo, since, lastPoll, from, status, shown, counted>>
    BY <1>6 DEF DropSample, reader
  <2> QED
    BY <2>1, <2>2, <2>3 DEF TypeOK
<1>7. CASE CollectSample
  <2>1. counted' \in [Field -> SUBSET Time] /\ obs' \in [Field -> SUBSET Time]
    BY <1>7 DEF CollectSample, TypeOK, NoObservation
  <2>2. pollTime' \in 0..now'
    BY <1>7 DEF CollectSample, TypeOK, Time
  <2>3. shown' \in [Field -> {0, 1}]
    BY <1>7 DEF CollectSample, ShownStatus
  <2>4. /\ pc' = "idle" /\ dropped' = FALSE
        /\ UNCHANGED <<now, log, todo, since, lastPoll, from, status, fastFailed, lost>>
    BY <1>7 DEF CollectSample, reader
  <2> QED
    BY <2>1, <2>2, <2>3, <2>4 DEF TypeOK
<1>8. CASE UNCHANGED vars
  BY <1>8 DEF vars, TypeOK
<1> QED
  BY <1>1, <1>2, <1>3, <1>4, <1>5, <1>6, <1>7, <1>8 DEF Next

LEMMA TypeInit == Init => TypeOK
<1> SUFFICES ASSUME Init PROVE TypeOK
  OBVIOUS
<1> USE GroupsAssumption, TimeAssumption DEF Init
<1>1. 1 \in Time /\ 0 \in 0..MaxTime /\ 0 \in 0..1
  BY DEF Time
<1>2. NoObservation \in [Field -> SUBSET Time]
  BY DEF NoObservation
<1>3. /\ since \in [Group -> Time] /\ from \in [Group -> Time]
      /\ lastPoll \in [Group -> 0..MaxTime]
      /\ status \in [Field -> [available : BOOLEAN, last : 0..MaxTime]]
      /\ shown \in [Field -> {0, 1}]
  BY <1>1
<1> QED
  BY <1>1, <1>2, <1>3 DEF TypeOK

(* All variables keep their types.                                         *)
THEOREM TypeCorrect == Spec => []TypeOK
<1> QED
  BY TypeInit, TypeNext, PTL DEF Spec

(* publishFieldStatus: the registry shows the statuses of the watcher,     *)
(* unless the latest pass dropped its sample.                              *)
THEOREM ShownCorrect == Spec => []ShownUnlessDropped
<1>1. Init => ShownUnlessDropped
  <2> SUFFICES ASSUME Init, NEW f \in Field PROVE shown[f] = 1 <=> status[f].available
    BY DEF ShownUnlessDropped
  <2>1. shown[f] = 0 /\ status[f].available = FALSE
    BY DEF Init
  <2> QED
    BY <2>1
<1>2. ShownUnlessDropped /\ [Next]_vars => ShownUnlessDropped'
  <2> SUFFICES ASSUME ShownUnlessDropped, [Next]_vars PROVE ShownUnlessDropped'
    OBVIOUS
  <2>1. CASE Advance
    BY <2>1 DEF Advance, ShownUnlessDropped, reader, sample, ghosts
  <2>2. CASE StartPass \/ \E g \in Group : SkipGroup(g) \/ ReadFails(g) \/ ReadGroup(g)
    BY <2>2 DEF StartPass, SkipGroup, ReadFails, ReadGroup, Turn, ShownUnlessDropped, sample
  <2>3. CASE DropSample
    BY <2>3 DEF DropSample, ShownUnlessDropped
  <2>4. CASE CollectSample
    BY <2>4 DEF CollectSample, ShownUnlessDropped, ShownStatus, reader
  <2>5. CASE UNCHANGED vars
    BY <2>5 DEF vars, ShownUnlessDropped
  <2> QED
    BY <2>1, <2>2, <2>3, <2>4, <2>5 DEF Next
<1> QED
  BY <1>1, <1>2, PTL DEF Spec

(***************************************************************************)
(* What makes a field available: Recent is one field's part of             *)
(* AvailableIsRecent; the last success of a field lies before the start of *)
(* its next read, so that nothing forgotten later is that value.           *)
(***************************************************************************)
Recent(f) ==
    status[f].available =>
        /\ [field |-> f, ts |-> status[f].last, ok |-> TRUE] \in log
        /\ \A v \in log : v.field = f /\ v.ts < since[GroupOf[f]] => v.ts <= status[f].last
        /\ \/ status[f].last >= from[GroupOf[f]]
           \/ lastPoll[GroupOf[f]] - status[f].last <= 2 * Interval[GroupOf[f]]

LastInv == \A f \in Field : status[f].last < since[GroupOf[f]]

RecentInv == LastInv /\ \A f \in Field : Recent(f)

LEMMA RecentIs == AvailableIsRecent <=> \A f \in Field : Recent(f)
<1> QED
  BY DEF AvailableIsRecent, Recent

LEMMA FieldReadRecent ==
    ASSUME TypeOK, IInv, RecentInv, NEW g \in Group, ReadGroup(g),
           NEW f \in Field, GroupOf[f] = g
    PROVE  Recent(f)' /\ status'[f].last < since'[GroupOf[f]]
<1> USE GroupsAssumption
<1>1. /\ since'[g] = now /\ from'[g] = since[g] /\ lastPoll'[g] = pollTime
      /\ status'[f] = StatusAfter(f, Read(f))
  BY DEF ReadGroup, NextSince, TypeOK
<1>2. \A v : v \in log' /\ v.field = f <=> v \in log /\ v.field = f /\ v \notin Forgotten(f)
  BY DEF ReadGroup
<1>3. \A v \in log : v.ts \in Nat /\ v.ts < now
  BY DEF IInv, Types, PastInv
<1>4. \A v \in log' : v.field = f => v.ts < since[g] \/ v \in Read(f)
  BY <1>2, <1>3, KeepAssumption DEF Read, Forgotten, Unread, IInv, Types
<1>5. now \in Nat /\ since[g] \in Nat /\ since[g] <= now /\ status[f].last \in Nat
      /\ status[f].last < since[g] /\ pollTime \in Nat
  BY TimeAssumption DEF IInv, Types, SinceInv, RecentInv, LastInv, TypeOK, Time
<1>6. CASE Read(f) = {}
  <2>1. status'[f] = [status[f] EXCEPT !.available = @ /\ StillFresh(f)]
    BY <1>1, <1>6 DEF StatusAfter
  <2>2. status'[f].last = status[f].last
    BY <2>1 DEF TypeOK
  <2>3. ASSUME status'[f].available
        PROVE  status[f].available /\ pollTime - status[f].last <= 2 * Interval[g]
    <3>1. status'[f].available = (status[f].available /\ StillFresh(f))
      BY <2>1 DEF TypeOK
    <3>2. status[f].available /\ StillFresh(f)
      BY <2>3, <3>1
    <3> QED
      BY <3>2 DEF StillFresh
  <2>4. ASSUME status'[f].available
        PROVE  /\ [field |-> f, ts |-> status[f].last, ok |-> TRUE] \in log'
               /\ \A v \in log' : v.field = f /\ v.ts < now => v.ts <= status[f].last
    <3>1. /\ [field |-> f, ts |-> status[f].last, ok |-> TRUE] \in log
          /\ \A v \in log : v.field = f /\ v.ts < since[g] => v.ts <= status[f].last
      BY <2>3, <2>4 DEF RecentInv, Recent
    <3>2. [field |-> f, ts |-> status[f].last, ok |-> TRUE] \notin Forgotten(f)
      BY <1>5 DEF Forgotten, Unread
    <3>3. [field |-> f, ts |-> status[f].last, ok |-> TRUE] \in log'
      BY <1>2, <3>1, <3>2
    <3>4. \A v \in log' : v.field = f => v.ts < since[g] /\ v \in log
      BY <1>2, <1>4, <1>6
    <3> QED
      BY <3>1, <3>3, <3>4
  <2>5. Recent(f)'
    BY <1>1, <2>2, <2>3, <2>4 DEF Recent
  <2> QED
    BY <1>1, <1>5, <2>2, <2>5
<1>7. CASE Read(f) # {}
  <2> DEFINE new == Newest(Read(f))
             last == Latest(ValidTimes(Read(f)), status[f].last)
  <2>1. status'[f].available = new.ok /\ status'[f].last = last
    BY <1>1, <1>7 DEF StatusAfter
  <2>2. new \in Read(f) /\ \A w \in Read(f) : w.ts <= new.ts
    BY <1>7, ReadTyped, NewestIs
  <2>3. \A w \in Read(f) : w \in log /\ w \in log' /\ w.field = f
                          /\ since[g] <= w.ts /\ w.ts < now /\ w.ts \in Nat
    BY <1>2, <1>3, KeepAssumption DEF Read, Forgotten, Unread, IInv, Types
  <2>4. CASE ValidTimes(Read(f)) = {}
    <3>1. last = status[f].last /\ ~new.ok
      BY <2>2, <2>4 DEF Latest, ValidTimes
    <3> QED
      BY <1>1, <1>5, <2>1, <3>1 DEF Recent
  <2>5. CASE ValidTimes(Read(f)) # {}
    <3>1. last \in ValidTimes(Read(f)) /\ \A u \in ValidTimes(Read(f)) : u <= last
      BY <2>5, ReadTyped, LatestIs
    <3>2. PICK w \in Read(f) : w.ok /\ w.ts = last
      BY <3>1 DEF ValidTimes
    <3> HIDE DEF last, new
    <3>3. w = [field |-> f, ts |-> last, ok |-> TRUE]
      <4>1. w \in Value
        BY <2>3 DEF TypeOK
      <4> QED
        BY <2>3, <3>2, <4>1 DEF Value
    <3>4. last \in Nat /\ since[g] <= last /\ last < now
      BY <2>3, <3>2
    <3>5. ASSUME new.ok PROVE \A u \in Read(f) : u.ts <= last
      <4>1. new.ts \in ValidTimes(Read(f))
        BY <2>2, <3>5 DEF ValidTimes
      <4>2. new.ts <= last /\ new.ts \in Nat
        BY <2>2, <2>3, <3>1, <4>1
      <4> QED
        BY <2>2, <2>3, <3>4, <4>2
    <3>6. ASSUME new.ok PROVE \A v \in log' : v.field = f => v.ts <= last
      <4>1. \A v \in log' : v.field = f => v.ts \in Nat
        BY <1>2, <1>3
      <4> QED
        BY <1>4, <1>5, <3>4, <3>5, <3>6, <4>1
    <3>7. [field |-> f, ts |-> last, ok |-> TRUE] \in log'
      BY <2>3, <3>2, <3>3
    <3>8. Recent(f)'
      BY <1>1, <2>1, <3>4, <3>6, <3>7 DEF Recent
    <3> QED
      BY <1>1, <2>1, <3>4, <3>8
  <2> QED
    BY <2>4, <2>5
<1> QED
  BY <1>6, <1>7

LEMMA RecentNext == TypeOK /\ IInv /\ RecentInv /\ [Next]_vars => RecentInv'
<1> SUFFICES ASSUME TypeOK, IInv, RecentInv, [Next]_vars, NEW f \in Field
             PROVE  Recent(f)' /\ status'[f].last < since'[GroupOf[f]]
  BY DEF RecentInv, LastInv
<1> USE GroupsAssumption
<1>1. Recent(f) /\ status[f].last < since[GroupOf[f]]
  BY DEF RecentInv, LastInv
<1>2. CASE Advance
  <2>1. UNCHANGED <<since, lastPoll, from, status>>
    BY <1>2 DEF Advance, reader
  <2>2. /\ log \subseteq log'
        /\ \A v \in log' : v \in log \/ v.ts = now
    BY <1>2 DEF Advance, Recorded
  <2>3. ~(now < since[GroupOf[f]])
    BY DEF IInv, Types, SinceInv
  <2> QED
    BY <1>1, <2>1, <2>2, <2>3 DEF Recent
<1>3. CASE StartPass \/ DropSample \/ CollectSample \/ \E g \in Group : SkipGroup(g)
  <2>1. UNCHANGED <<log, since, lastPoll, from, status>>
    BY <1>3 DEF StartPass, DropSample, CollectSample, SkipGroup, reader
  <2> QED
    BY <1>1, <2>1 DEF Recent
<1>4. ASSUME NEW g \in Group, ReadFails(g)
      PROVE  Recent(f)' /\ status'[f].last < since'[GroupOf[f]]
  <2>1. UNCHANGED <<log, since, from>>
    BY <1>4 DEF ReadFails
  <2>2. CASE GroupOf[f] = g
    <3>1. ~status'[f].available /\ status'[f].last = status[f].last
      BY <1>4, <2>2 DEF ReadFails, TypeOK
    <3> QED
      BY <1>1, <2>1, <3>1 DEF Recent
  <2>3. CASE GroupOf[f] # g
    <3>1. status'[f] = status[f] /\ lastPoll'[GroupOf[f]] = lastPoll[GroupOf[f]]
      BY <1>4, <2>3 DEF ReadFails, TypeOK
    <3> QED
      BY <1>1, <2>1, <3>1 DEF Recent
  <2> QED
    BY <2>2, <2>3
<1>5. ASSUME NEW g \in Group, ReadGroup(g)
      PROVE  Recent(f)' /\ status'[f].last < since'[GroupOf[f]]
  <2>1. CASE GroupOf[f] = g
    BY <1>5, <2>1, FieldReadRecent
  <2>2. CASE GroupOf[f] # g
    <3>1. /\ status'[f] = status[f] /\ lastPoll'[GroupOf[f]] = lastPoll[GroupOf[f]]
          /\ since'[GroupOf[f]] = since[GroupOf[f]] /\ from'[GroupOf[f]] = from[GroupOf[f]]
      BY <1>5, <2>2 DEF ReadGroup, TypeOK
    <3>2. \A v : v.field = f => (v \in log <=> v \in log')
      BY <1>5, <2>2 DEF ReadGroup
    <3>3. LET v == [field |-> f, ts |-> status[f].last, ok |-> TRUE]
          IN  v \in log <=> v \in log'
      BY <3>2
    <3> QED
      BY <1>1, <3>1, <3>2, <3>3 DEF Recent
  <2> QED
    BY <2>1, <2>2
<1>6. CASE UNCHANGED vars
  BY <1>1, <1>6 DEF vars, Recent
<1> QED
  BY <1>2, <1>3, <1>4, <1>5, <1>6 DEF Next

(* readWatcher: an available field has a valid newest value, and one that  *)
(* the latest read returned or that is at most two intervals older.        *)
THEOREM AvailableCorrect == Spec => []AvailableIsRecent
<1>1. Init => RecentInv
  BY GroupsAssumption DEF Init, RecentInv, LastInv, Recent
<1>2. Spec => []RecentInv
  BY <1>1, TypeCorrect, Invariant, RecentNext, PTL DEF Spec
<1>3. RecentInv => AvailableIsRecent
  BY RecentIs DEF RecentInv
<1> QED
  BY <1>2, <1>3, PTL

(***************************************************************************)
(* FieldReader implements Delivery.                                        *)
(***************************************************************************)
LEMMA WaitingIs ==
    \A f \in Field : \A t : t \in Waiting(f) <=>
        \E v \in log : v.field = f /\ v.ok /\ v.ts >= since[GroupOf[f]] /\ v.ts = t
<1> QED
  BY DEF Waiting, ValidTimes

LEMMA WaitingStays ==
    ASSUME UNCHANGED <<log, since>>
    PROVE  \A f \in Field : Waiting(f)' = Waiting(f)
<1> QED
  BY DEF Waiting, ValidTimes

LEMMA WaitingTimes ==
    ASSUME IInv
    PROVE  \A f \in Field : Waiting(f) \subseteq Nat
<1> QED
  BY DEF IInv, Types, Waiting, ValidTimes

LEMMA DeliveryInit == Init => Delivered!Init
<1> QED
  BY DEF Init, NoObservation, Delivered!Init, Delivered!Nothing, Waiting, ValidTimes

(* The valid values of a tick start to wait.                               *)
LEMMA AdvanceWaits ==
    ASSUME IInv, Advance
    PROVE  \E valid \in SUBSET Field : \A f \in Field :
               Waiting(f)' = IF f \in valid THEN Waiting(f) \cup {now} ELSE Waiting(f)
<1> USE GroupsAssumption, FailuresAssumption
<1>1. UNCHANGED <<since, obs, counted, lost>>
  BY DEF Advance, reader, sample, ghosts
<1>2. PICK valid \in SUBSET Field, blank \in SUBSET Blank :
        log' = log \cup Recorded(valid, TRUE) \cup Recorded(blank, FALSE)
  BY DEF Advance
<1>3. \A f \in Field : Waiting(f)' = IF f \in valid THEN Waiting(f) \cup {now} ELSE Waiting(f)
  <2>1. \A f \in Field : since[GroupOf[f]] <= now
    BY DEF IInv, Types, SinceInv
  <2>2. \A f \in Field : \A t : t \in Waiting(f)' <=>
          \E v \in log' : v.field = f /\ v.ok /\ v.ts >= since[GroupOf[f]] /\ v.ts = t
    BY <1>1 DEF Waiting, ValidTimes
  <2>3. \A f \in Field : \A t : t \in Waiting(f)' <=> t \in Waiting(f) \/ (f \in valid /\ t = now)
    <3> SUFFICES ASSUME NEW f \in Field, NEW t
                 PROVE  t \in Waiting(f)' <=> t \in Waiting(f) \/ (f \in valid /\ t = now)
      OBVIOUS
    <3>1. \A v \in log' : v \in log \/ (v.ts = now /\ (v.ok => v.field \in valid))
      BY <1>2 DEF Recorded
    <3>2. log \subseteq log'
      BY <1>2
    <3>3. ASSUME f \in valid PROVE \E v \in log' : v.field = f /\ v.ok /\ v.ts = now
      <4>1. [field |-> f, ts |-> now, ok |-> TRUE] \in log'
        BY <1>2, <3>3 DEF Recorded
      <4> QED
        BY <4>1
    <3>4. now >= since[GroupOf[f]]
      BY <2>1 DEF IInv, Types
    <3>5. ASSUME t \in Waiting(f)' PROVE t \in Waiting(f) \/ (f \in valid /\ t = now)
      BY <2>2, <3>1, <3>5, WaitingIs
    <3>6. ASSUME t \in Waiting(f) PROVE t \in Waiting(f)'
      BY <2>2, <3>2, <3>6, WaitingIs
    <3>7. ASSUME f \in valid, t = now PROVE t \in Waiting(f)'
      BY <2>2, <3>3, <3>4, <3>7
    <3> QED
      BY <3>5, <3>6, <3>7
  <2> QED
    BY <2>3
<1> QED
  BY <1>3

LEMMA AdvanceDelivers ==
    ASSUME IInv, Advance
    PROVE  Delivered!Next
<1> USE GroupsAssumption, FailuresAssumption
<1>1. UNCHANGED <<since, obs, counted, lost>>
  BY DEF Advance, reader, sample, ghosts
<1>2. PICK valid \in SUBSET Field : \A f \in Field :
        Waiting(f)' = IF f \in valid THEN Waiting(f) \cup {now} ELSE Waiting(f)
  BY AdvanceWaits
<1>3. now \in Time
  BY TimeAssumption DEF IInv, Types, Time
<1>4. \A f \in Field : \A u \in Waiting(f) \cup obs[f] \cup counted[f] \cup lost[f] : u < now
  <2>1. \A v \in log : v.ts < now
    BY DEF IInv, PastInv
  <2>2. \A f \in Field : \A u \in Waiting(f) : u < now
    BY <2>1, WaitingIs
  <2>3. \A f \in Field : \A u \in obs[f] \cup counted[f] \cup lost[f] :
          u \in Nat /\ u < since[GroupOf[f]] /\ since[GroupOf[f]] \in Nat
          /\ since[GroupOf[f]] <= now
    BY DEF IInv, Types, ReadInv, SinceInv
  <2> QED
    BY <2>2, <2>3 DEF IInv, Types
<1>5. Delivered!Record(valid, now)
  BY <1>1, <1>2, <1>4 DEF Delivered!Record
<1> QED
  BY <1>3, <1>5 DEF Delivered!Next

(* A read fetches what is waiting, less what DCGM has forgotten.           *)
Oldest == IF now - KeepAge < 1 THEN 1 ELSE now - KeepAge

LEMMA ReadWaits ==
    ASSUME IInv, NEW g \in Group, ReadGroup(g)
    PROVE  /\ Oldest \in Time /\ now \in Time /\ Oldest <= now
           /\ \A f \in {h \in Field : GroupOf[h] = g} :
                /\ obs[f] = {}
                /\ ValidTimes(Read(f)) = {t \in Waiting(f) : t >= Oldest /\ t < now}
                /\ ValidTimes(Forgotten(f)) = {t \in Waiting(f) : t < Oldest}
                /\ Waiting(f)' = {t \in Waiting(f) : t >= now}
           /\ \A f \in {h \in Field : GroupOf[h] # g} : Waiting(f)' = Waiting(f)
<1> USE GroupsAssumption DEF Oldest
<1> DEFINE F == {f \in Field : GroupOf[f] = g}
           low == Oldest
<1>1. /\ g \in todo
      /\ since' = [since EXCEPT ![g] = now]
      /\ obs' = [f \in Field |-> IF GroupOf[f] = g THEN ValidTimes(Read(f)) ELSE obs[f]]
      /\ log' = {v \in log : GroupOf[v.field] = g => v \notin Forgotten(v.field)}
      /\ lost' = [f \in Field |-> IF GroupOf[f] = g THEN lost[f] \cup ValidTimes(Forgotten(f))
                                                     ELSE lost[f]]
      /\ UNCHANGED <<now, counted>>
  BY DEF ReadGroup, NextSince, Turn
<1>2. low \in Time /\ now \in Time /\ low <= now
  BY KeepAssumption, TimeAssumption DEF IInv, Types, Time
<1>3. \A t \in Nat : t >= 1 => (t >= low <=> t >= now - KeepAge)
  BY KeepAssumption DEF IInv, Types
<1>4. \A v \in log : v.ts \in Nat /\ v.ts >= 1 /\ v.field \in Field
  BY DEF IInv, Types, PastInv
<1>5. \A f \in F : ValidTimes(Read(f)) = {t \in Waiting(f) : t >= low /\ t < now}
  BY <1>3, <1>4 DEF Read, Unread, Waiting, ValidTimes
<1>6. \A f \in F : ValidTimes(Forgotten(f)) = {t \in Waiting(f) : t < low}
  <2>1. \A v \in log : v.ts < low <=> v.ts < now - KeepAge
    BY <1>3, <1>4, KeepAssumption DEF IInv, Types
  <2>2. \A v \in log : v.ts < low => v.ts < now
    BY <1>2, <1>4 DEF IInv, Types, Time
  <2> QED
    BY <2>1, <2>2 DEF Forgotten, Unread, Waiting, ValidTimes
<1>7. \A f \in Field : \A t : t \in Waiting(f)' <=>
        \E v \in log' : v.field = f /\ v.ok /\ v.ts >= since'[GroupOf[f]] /\ v.ts = t
  BY DEF Waiting, ValidTimes
<1>8. \A f \in F : Waiting(f)' = {t \in Waiting(f) : t >= now}
  <2> SUFFICES ASSUME NEW f \in F, NEW t
               PROVE  t \in Waiting(f)' <=> t \in Waiting(f) /\ t >= now
    OBVIOUS
  <2>1. since'[GroupOf[f]] = now /\ since[GroupOf[f]] <= now
    BY <1>1 DEF IInv, Types, SinceInv
  <2>2. \A v \in log : v.field = f /\ v.ts >= now => v \in log'
    BY <1>1, <1>4 DEF Forgotten, Unread, IInv, Types
  <2>3. log' \subseteq log
    BY <1>1
  <2>4. t \in Waiting(f)' <=> \E v \in log : v.field = f /\ v.ok /\ v.ts >= now /\ v.ts = t
    BY <1>7, <2>1, <2>2, <2>3
  <2> QED
    BY <1>4, <2>1, <2>4, WaitingIs DEF IInv, Types
<1>9. \A f \in Field \ F : Waiting(f)' = Waiting(f)
  <2> SUFFICES ASSUME NEW f \in Field \ F, NEW t
               PROVE  t \in Waiting(f)' <=> t \in Waiting(f)
    OBVIOUS
  <2>1. since'[GroupOf[f]] = since[GroupOf[f]]
    BY <1>1 DEF IInv, Types
  <2>2. \A v : v.field = f => (v \in log <=> v \in log')
    BY <1>1
  <2> QED
    BY <1>7, <2>1, <2>2, WaitingIs
<1>10. \A f \in F : obs[f] = {}
  BY <1>1 DEF IInv, SampleInv
<1> QED
  BY <1>2, <1>5, <1>6, <1>8, <1>9, <1>10

LEMMA ReadDelivers ==
    ASSUME IInv, NEW g \in Group, ReadGroup(g)
    PROVE  Delivered!Next
<1> DEFINE F == {f \in Field : GroupOf[f] = g}
           low == Oldest
<1>1. /\ obs' = [f \in Field |-> IF GroupOf[f] = g THEN ValidTimes(Read(f)) ELSE obs[f]]
      /\ lost' = [f \in Field |-> IF GroupOf[f] = g THEN lost[f] \cup ValidTimes(Forgotten(f))
                                                     ELSE lost[f]]
      /\ UNCHANGED <<now, counted>>
  BY DEF ReadGroup
<1>2. low \in Time /\ now \in Time /\ low <= now
  BY ReadWaits
<1>3. \A f \in F : ValidTimes(Read(f)) = {t \in Waiting(f) : t >= low /\ t < now}
  BY ReadWaits
<1>4. \A f \in F : ValidTimes(Forgotten(f)) = {t \in Waiting(f) : t < low}
  BY ReadWaits
<1>5. \A f \in F : Waiting(f)' = {t \in Waiting(f) : t >= now}
  BY ReadWaits
<1>6. \A f \in Field \ F : Waiting(f)' = Waiting(f)
  BY ReadWaits
<1>7. \A f \in F : obs[f] = {}
  BY ReadWaits
<1>8. Delivered!Fetch(F, low, now)
  <2>1. [f \in Field |-> Waiting(f)]' =
          [f \in Field |-> IF f \in F THEN {t \in [h \in Field |-> Waiting(h)][f] : t >= now}
                                      ELSE [h \in Field |-> Waiting(h)][f]]
    BY <1>5, <1>6
  <2>2. obs' = [f \in Field |->
                  IF f \in F THEN {t \in [h \in Field |-> Waiting(h)][f] : t >= low /\ t < now}
                             ELSE obs[f]]
    BY <1>1, <1>3
  <2>3. lost' = [f \in Field |->
                  IF f \in F THEN lost[f] \cup {t \in [h \in Field |-> Waiting(h)][f] : t < low}
                             ELSE lost[f]]
    BY <1>1, <1>4
  <2> HIDE DEF F, low
  <2> QED
    BY <1>1, <1>7, <2>1, <2>2, <2>3 DEF Delivered!Fetch
<1>9. F \in SUBSET Field
  OBVIOUS
<1> HIDE DEF F, low
<1> QED
  BY <1>2, <1>8, <1>9 DEF Delivered!Next

LEMMA DeliveryStep == IInv /\ [Next]_vars => [Delivered!Next]_(Delivered!vars)
<1> SUFFICES ASSUME IInv, [Next]_vars PROVE [Delivered!Next]_(Delivered!vars)
  OBVIOUS
<1>1. CASE Advance
  BY <1>1, AdvanceDelivers
<1>2. CASE StartPass \/ \E g \in Group : SkipGroup(g) \/ ReadFails(g)
  <2>1. UNCHANGED <<log, since, obs, counted, lost>>
    BY <1>2 DEF StartPass, SkipGroup, ReadFails, reader, sample, ghosts
  <2> QED
    BY <2>1, WaitingStays DEF Delivered!vars
<1>3. ASSUME NEW g \in Group, ReadGroup(g) PROVE Delivered!Next
  BY <1>3, ReadDelivers
<1>4. CASE DropSample
  <2>1. /\ UNCHANGED <<log, since, counted>>
        /\ obs' = [f \in Field |-> {}]
        /\ lost' = [f \in Field |-> lost[f] \cup obs[f]]
    BY <1>4 DEF DropSample, NoObservation, reader
  <2>2. Delivered!Drop
    BY <2>1, WaitingStays DEF Delivered!Drop, Delivered!Nothing, Delivered!With
  <2> QED
    BY <2>2 DEF Delivered!Next
<1>5. CASE CollectSample
  <2>1. /\ UNCHANGED <<log, since, lost>>
        /\ obs' = [f \in Field |-> {}]
        /\ counted' = [f \in Field |-> counted[f] \cup obs[f]]
    BY <1>5 DEF CollectSample, NoObservation, reader
  <2>2. Delivered!Deliver
    BY <2>1, WaitingStays DEF Delivered!Deliver, Delivered!Nothing, Delivered!With
  <2> QED
    BY <2>2 DEF Delivered!Next
<1>6. CASE UNCHANGED vars
  BY <1>6, WaitingStays DEF vars, Delivered!vars
<1> QED
  BY <1>1, <1>2, <1>3, <1>4, <1>5, <1>6 DEF Next

(* readWatcher, Samples and collectSample: every valid value DCGM records  *)
(* is accounted for as Delivery says, however long reads fail.             *)
THEOREM Delivers == Spec => ValuesDelivered
<1> QED
  BY DeliveryInit, Invariant, DeliveryStep, PTL DEF Spec, ValuesDelivered, Delivered!Spec

-----------------------------------------------------------------------------
(***************************************************************************)
(* The client with the exporter. Every step of Pipeline is a step of       *)
(* FieldReader or leaves its variables alone.                              *)
(***************************************************************************)
LEMMA ReaderStep == PipelineNext => [Next]_vars
<1> QED
  BY DEF PipelineNext, Reading, Failure, Dropped, Handed, Observing, Next

LEMMA ReaderInvariant == PipelineSpec => [](IInv /\ TypeOK)
<1>1. PipelineInit => IInv /\ TypeOK
  BY InitInv, TypeInit DEF PipelineInit
<1>2. IInv /\ TypeOK /\ [PipelineNext]_whole => (IInv /\ TypeOK)'
  <2>1. [PipelineNext]_whole => [Next]_vars
    BY ReaderStep DEF whole
  <2> QED
    BY <2>1, NextInv, TypeNext
<1> QED
  BY <1>1, <1>2, PTL DEF PipelineSpec

(***************************************************************************)
(* The statuses. A field that is available is available in the sample of   *)
(* the pass before, or a valid value of it has been read since; Integrals  *)
(* asks no more of the client.                                             *)
(***************************************************************************)
FieldsInv ==
    /\ fields \subseteq Field
    /\ \A f \in Field : status[f].available => f \in fields \/ obs[f] # {}

LEMMA ReadFields ==
    ASSUME IInv, TypeOK, FieldsInv, NEW g \in Group, ReadGroup(g), UNCHANGED fields
    PROVE  FieldsInv'
<1> SUFFICES ASSUME NEW f \in Field, status'[f].available
             PROVE  f \in fields \/ obs'[f] # {}
  BY DEF FieldsInv
<1>1. /\ status' = [h \in Field |-> IF GroupOf[h] = g THEN StatusAfter(h, Read(h))
                                                       ELSE status[h]]
      /\ obs' = [h \in Field |-> IF GroupOf[h] = g THEN ValidTimes(Read(h)) ELSE obs[h]]
  BY DEF ReadGroup
<1>2. CASE GroupOf[f] # g
  BY <1>1, <1>2 DEF FieldsInv
<1>3. CASE GroupOf[f] = g /\ Read(f) = {}
  <2>1. status'[f] = [status[f] EXCEPT !.available = @ /\ StillFresh(f)]
    BY <1>1, <1>3 DEF StatusAfter
  <2>2. status[f].available
    BY <2>1 DEF TypeOK
  <2>3. obs[f] = {}
    BY <1>3, ReadWaits
  <2> QED
    BY <2>2, <2>3 DEF FieldsInv
<1>4. CASE GroupOf[f] = g /\ Read(f) # {}
  <2>1. Newest(Read(f)).ok /\ Newest(Read(f)) \in Read(f)
    BY <1>1, <1>4, NewestIs, ReadTyped DEF StatusAfter
  <2>2. Newest(Read(f)).ts \in obs'[f]
    BY <1>1, <1>4, <2>1 DEF ValidTimes
  <2> QED
    BY <2>2
<1> QED
  BY <1>2, <1>3, <1>4

LEMMA FieldsNext == IInv /\ TypeOK /\ FieldsInv /\ [PipelineNext]_whole => FieldsInv'
<1> SUFFICES ASSUME IInv, TypeOK, FieldsInv, [PipelineNext]_whole PROVE FieldsInv'
  OBVIOUS
<1>1. CASE Reading
  <2>1. UNCHANGED fields
    BY <1>1 DEF Reading
  <2>2. CASE Advance \/ StartPass \/ \E g \in Group : SkipGroup(g)
    BY <2>1, <2>2 DEF Advance, StartPass, SkipGroup, reader, sample, FieldsInv
  <2>3. ASSUME NEW g \in Group, ReadGroup(g) PROVE FieldsInv'
    BY <2>1, <2>3, ReadFields
  <2> QED
    BY <1>1, <2>2, <2>3 DEF Reading
<1>2. CASE Failure
  <2>1. PICK g \in Group : ReadFails(g)
    BY <1>2 DEF Failure
  <2>2. \A f \in Field : status'[f].available => status[f].available
    BY <2>1 DEF ReadFails, TypeOK
  <2> QED
    BY <1>2, <2>1, <2>2 DEF Failure, ReadFails, FieldsInv
<1>3. CASE Dropped \/ Handed
  BY <1>3 DEF Dropped, Handed, DropSample, CollectSample, reader, Available, FieldsInv
<1>4. CASE Observing \/ UNCHANGED whole
  BY <1>4 DEF Observing, whole, vars, FieldsInv
<1> QED
  BY <1>1, <1>2, <1>3, <1>4 DEF PipelineNext

LEMMA PipelineInvariant == PipelineSpec => [](IInv /\ TypeOK /\ FieldsInv)
<1>1. PipelineInit => FieldsInv
  BY DEF PipelineInit, Init, FieldsInv
<1> QED
  BY <1>1, ReaderInvariant, FieldsNext, PTL DEF PipelineSpec

(***************************************************************************)
(* Pipeline implements Integrals. What a read forgets, a drop loses and a  *)
(* sample hands over are, of each field, the values waiting for the        *)
(* exporter that come before some time.                                    *)
(***************************************************************************)
Outstanding == [f \in Field |-> Waiting(f) \cup obs[f]]

(* The time before which the values of S lie and the later ones do not.    *)
After(S) == IF S = {} THEN 0 ELSE Latest(S, 0) + 1

LEMMA Cut ==
    ASSUME NEW P \in SUBSET Nat, NEW S \in SUBSET P, S \subseteq Time,
           \A t \in S, u \in P \ S : t < u
    PROVE  /\ After(S) \in {0} \cup {t + 1 : t \in P}
           /\ {t \in P : t < After(S)} = S
<1>1. CASE S = {}
  <2>1. After(S) = 0
    BY <1>1 DEF After
  <2>2. \A t \in P : ~(t < 0)
    OBVIOUS
  <2> QED
    BY <1>1, <2>1, <2>2
<1>2. CASE S # {}
  <2> DEFINE m == Latest(S, 0)
  <2>1. m \in S /\ \A u \in S : u <= m
    BY <1>2, LatestIs
  <2>2. After(S) = m + 1
    BY <1>2 DEF After
  <2> HIDE DEF m
  <2>3. \A t \in P : t < m + 1 <=> t <= m
    BY <2>1
  <2>4. \A t \in P : t <= m <=> t \in S
    BY <2>1
  <2> QED
    BY <2>1, <2>2, <2>3, <2>4
<1> QED
  BY <1>1, <1>2

LEMMA OutstandingIs ==
    ASSUME IInv, NEW f \in Field
    PROVE  /\ Outstanding[f] = Waiting(f) \cup obs[f]
           /\ Outstanding[f] \in SUBSET Nat
           /\ \A t \in Outstanding[f] : t < now
           /\ \A t \in obs[f], u \in Waiting(f) : t < u
<1> USE GroupsAssumption
<1>1. Outstanding[f] = Waiting(f) \cup obs[f]
  BY DEF Outstanding
<1>2. /\ obs[f] \subseteq Nat /\ Waiting(f) \subseteq Nat
      /\ since[GroupOf[f]] \in Nat /\ now \in Nat /\ since[GroupOf[f]] <= now
  BY WaitingTimes DEF IInv, Types, SinceInv
<1>3. \A t \in Waiting(f) : t < now /\ since[GroupOf[f]] <= t
  <2>1. \A v \in log : v.ts < now /\ v.ts \in Nat
    BY DEF IInv, Types, PastInv
  <2> QED
    BY <1>2, <2>1, WaitingIs
<1>4. \A t \in obs[f] : t < since[GroupOf[f]]
  BY DEF IInv, ReadInv
<1>5. \A t \in Outstanding[f] : t < now
  BY <1>1, <1>2, <1>3, <1>4
<1> QED
  BY <1>1, <1>2, <1>3, <1>4, <1>5

(* Of each field the values S, none of which comes after one that stays,   *)
(* are taken from those outstanding.                                       *)
LEMMA Takes ==
    ASSUME IInv, NEW S \in [Field -> SUBSET Time],
           \A f \in Field : /\ S[f] \subseteq Outstanding[f]
                            /\ \A t \in S[f], u \in Outstanding[f] \ S[f] : t < u
                            /\ (Waiting(f) \cup obs[f])' = Outstanding[f] \ S[f]
                            /\ f \in fields' => f \in fields \/ S[f] # {}
    PROVE  \E upto \in Exporter!Reads :
               /\ Exporter!ClientPass(upto)
               /\ \A f \in Field : Exporter!Fetched(f, upto) = S[f]
<1> DEFINE upto == [f \in Field |-> After(S[f])]
<1>1. ASSUME NEW f \in Field
      PROVE  /\ upto[f] \in {0} \cup {t + 1 : t \in Outstanding[f]}
             /\ {t \in Outstanding[f] : t < upto[f]} = S[f]
  <2>1. Outstanding[f] \in SUBSET Nat /\ S[f] \in SUBSET Outstanding[f] /\ S[f] \subseteq Time
    BY OutstandingIs
  <2>2. upto[f] = After(S[f])
    OBVIOUS
  <2> QED
    BY <2>1, <2>2, Cut
<1>2. upto \in [Field -> 0..((now - 1) + 1)]
  <2> SUFFICES ASSUME NEW f \in Field PROVE After(S[f]) \in 0..((now - 1) + 1)
    OBVIOUS
  <2>1. Outstanding[f] \subseteq Nat /\ \A t \in Outstanding[f] : t < now
    BY OutstandingIs
  <2>2. upto[f] = After(S[f]) /\ now \in Nat
    BY DEF IInv, Types
  <2> QED
    BY <1>1, <2>1, <2>2
<1> HIDE DEF upto
<1>3. upto \in Exporter!Reads
  BY <1>1, <1>2 DEF Exporter!Reads, Outstanding
<1>4. \A f \in Field : Exporter!Fetched(f, upto) = S[f]
  BY <1>1 DEF Exporter!Fetched, Outstanding
<1>5. Exporter!ClientPass(upto)
  <2>1. [f \in Field |-> f \in fields]' = [f \in Field |-> f \in fields']
    OBVIOUS
  <2>2. \E up \in SUBSET {f \in Field : [h \in Field |-> h \in fields][f]
                                       \/ Exporter!Fetched(f, upto) # {}} :
          [f \in Field |-> f \in fields]' = [f \in Field |-> f \in up]
    <3>1. {f \in Field : f \in fields'} \in
            SUBSET {f \in Field : [h \in Field |-> h \in fields][f]
                                  \/ Exporter!Fetched(f, upto) # {}}
      BY <1>4
    <3>2. [f \in Field |-> f \in fields]' =
            [f \in Field |-> f \in {h \in Field : h \in fields'}]
      OBVIOUS
    <3> QED
      BY <3>1, <3>2
  <2>3. [f \in Field |-> Waiting(f) \cup obs[f]]' =
          [f \in Field |-> [h \in Field |-> Waiting(h) \cup obs[h]][f]
                             \ Exporter!Fetched(f, upto)]
    BY <1>4 DEF Outstanding
  <2> QED
    BY <2>2, <2>3 DEF Exporter!ClientPass
<1> QED
  BY <1>3, <1>4, <1>5

LEMMA IntegralsInit == PipelineInit => Exporter!Init
<1> SUFFICES ASSUME PipelineInit PROVE Exporter!Init
  OBVIOUS
<1>1. now - 1 = 0
  BY DEF PipelineInit, Init
<1>2. [f \in Field |-> Waiting(f) \cup obs[f]] = [f \in Field |-> {}]
  BY DEF PipelineInit, Init, NoObservation, Waiting, ValidTimes
<1>3. [f \in Field |-> f \in fields] = [f \in Field |-> FALSE]
  <2>1. \A f \in Field : (f \in fields) = FALSE
    <3> SUFFICES ASSUME NEW f \in Field PROVE (f \in fields) = FALSE
      OBVIOUS
    <3>1. f \notin fields
      BY DEF PipelineInit
    <3>2. (f \in fields) \in BOOLEAN
      OBVIOUS
    <3> QED
      BY <3>1, <3>2
  <2> QED
    BY <2>1, Zenon
<1> QED
  BY <1>1, <1>2, <1>3 DEF PipelineInit, Exporter!Init

(* DCGM's clock ticks.                                                     *)
LEMMA AdvanceIntegrates ==
    ASSUME IInv, Advance, stage = "idle", UNCHANGED <<stage, fields, exporter>>
    PROVE  Exporter!Advance
<1>1. PICK valid \in SUBSET Field : \A f \in Field :
        Waiting(f)' = IF f \in valid THEN Waiting(f) \cup {now} ELSE Waiting(f)
  BY AdvanceWaits
<1>2. now - 1 < MaxTime /\ (now - 1)' = (now - 1) + 1 /\ (now - 1)' = now /\ obs' = obs
  BY TimeAssumption DEF Advance, sample, IInv, Types
<1>3. [f \in Field |-> Waiting(f) \cup obs[f]]' =
        [f \in Field |-> [h \in Field |-> Waiting(h) \cup obs[h]][f]
                          \cup {t \in {(now - 1)'} : f \in valid}]
  <2>1. \A f \in Field : Waiting(f)' \cup obs'[f] =
          (Waiting(f) \cup obs[f]) \cup {t \in {(now - 1)'} : f \in valid}
    BY <1>1, <1>2
  <2> QED
    BY <2>1
<1>4. UNCHANGED <<queue, times, observed, taken, ends, spans>>
  BY DEF exporter
<1> QED
  BY <1>2, <1>3, <1>4 DEF Exporter!Advance, Exporter!history

(* A read fetches what it does not find forgotten.                         *)
LEMMA ReadIntegrates ==
    ASSUME IInv, NEW g \in Group, ReadGroup(g), stage = "idle",
           UNCHANGED <<stage, fields, exporter>>
    PROVE  Exporter!LoseSample
<1> DEFINE S == [f \in Field |-> IF GroupOf[f] = g THEN {t \in Waiting(f) : t < Oldest} ELSE {}]
<1>1. /\ UNCHANGED now
      /\ obs' = [f \in Field |-> IF GroupOf[f] = g THEN ValidTimes(Read(f)) ELSE obs[f]]
  BY DEF ReadGroup
<1>2. Oldest \in Time /\ now \in Time /\ Oldest <= now
  BY ReadWaits
<1>3. S \in [Field -> SUBSET Time]
  <2>1. \A f \in Field : Waiting(f) \subseteq Nat /\ \A t \in Waiting(f) : 1 <= t
    BY WaitingIs, WaitingTimes DEF IInv, PastInv
  <2>2. \A f \in Field : {t \in Waiting(f) : t < Oldest} \subseteq Time
    BY <1>2, <2>1, TimeAssumption DEF Time
  <2> QED
    BY <2>2
<1>4. ASSUME NEW f \in Field
      PROVE  /\ S[f] \subseteq Outstanding[f]
             /\ \A t \in S[f], u \in Outstanding[f] \ S[f] : t < u
             /\ (Waiting(f) \cup obs[f])' = Outstanding[f] \ S[f]
             /\ f \in fields' => f \in fields \/ S[f] # {}
  <2>1. Outstanding[f] = Waiting(f) \cup obs[f] /\ \A t \in Outstanding[f] : t < now
    BY OutstandingIs
  <2>2. CASE GroupOf[f] = g
    <3>1. /\ obs[f] = {}
          /\ ValidTimes(Read(f)) = {t \in Waiting(f) : t >= Oldest /\ t < now}
          /\ Waiting(f)' = {t \in Waiting(f) : t >= now}
      BY <2>2, ReadWaits
    <3>2. Waiting(f) \subseteq Nat
      BY WaitingTimes
    <3>3. S[f] = {t \in Waiting(f) : t < Oldest} /\ obs'[f] = ValidTimes(Read(f))
      BY <1>1, <2>2
    <3> QED
      BY <1>2, <2>1, <3>1, <3>2, <3>3 DEF Time
  <2>3. CASE GroupOf[f] # g
    <3>1. Waiting(f)' = Waiting(f) /\ obs'[f] = obs[f] /\ S[f] = {}
      BY <1>1, <2>3, ReadWaits
    <3> QED
      BY <2>1, <3>1
  <2> QED
    BY <2>2, <2>3
<1> HIDE DEF S
<1>5. \E upto \in Exporter!Reads : Exporter!ClientPass(upto)
  BY <1>3, <1>4, Takes
<1> QED
  BY <1>1, <1>5 DEF Exporter!LoseSample, Exporter!history, exporter

(* A sample leaves, dropped or handed over, as a whole.                    *)
LEMMA SampleLeaves ==
    ASSUME IInv, TypeOK, FieldsInv, DropSample \/ CollectSample, fields' = Available
    PROVE  \E upto \in Exporter!Reads :
               /\ Exporter!ClientPass(upto)
               /\ \A f \in Field : Exporter!Fetched(f, upto) = obs[f]
<1>1. UNCHANGED <<log, since>> /\ obs' = [f \in Field |-> {}]
  BY DEF DropSample, CollectSample, reader, NoObservation
<1>2. ASSUME NEW f \in Field
      PROVE  /\ obs[f] \subseteq Outstanding[f]
             /\ \A t \in obs[f], u \in Outstanding[f] \ obs[f] : t < u
             /\ (Waiting(f) \cup obs[f])' = Outstanding[f] \ obs[f]
             /\ f \in fields' => f \in fields \/ obs[f] # {}
  <2>1. /\ Outstanding[f] = Waiting(f) \cup obs[f] /\ Outstanding[f] \in SUBSET Nat
        /\ \A t \in obs[f], u \in Waiting(f) : t < u
    BY OutstandingIs
  <2>2. Waiting(f)' = Waiting(f) /\ obs'[f] = {}
    BY <1>1, WaitingStays
  <2>3. Waiting(f) \cap obs[f] = {}
    <3>1. \A t \in Nat : ~(t < t)
      OBVIOUS
    <3> QED
      BY <2>1, <3>1
  <2>4. f \in fields' => f \in fields \/ obs[f] # {}
    BY DEF FieldsInv, Available
  <2> QED
    BY <2>1, <2>2, <2>3, <2>4
<1>3. obs \in [Field -> SUBSET Time]
  BY DEF TypeOK
<1> QED
  BY <1>2, <1>3, Takes

LEMMA IntegralsStep ==
    IInv /\ TypeOK /\ FieldsInv /\ [PipelineNext]_whole
        => [Exporter!Next]_(Exporter!vars)
<1> SUFFICES ASSUME IInv, TypeOK, FieldsInv, [PipelineNext]_whole
             PROVE  [Exporter!Next]_(Exporter!vars)
  OBVIOUS
<1>1. ASSUME UNCHANGED <<now, log, since, obs, stage, fields, exporter>>
      PROVE  UNCHANGED Exporter!vars
  <2>1. \A f \in Field : Waiting(f)' = Waiting(f)
    BY <1>1, WaitingStays
  <2>2. UNCHANGED [f \in Field |-> Waiting(f) \cup obs[f]]
    BY <1>1, <2>1
  <2> QED
    BY <1>1, <2>2 DEF Exporter!vars, exporter
<1>2. CASE Reading
  <2>1. stage = "idle" /\ UNCHANGED <<stage, fields, exporter>>
    BY <1>2 DEF Reading
  <2>2. CASE Advance
    BY <2>1, <2>2, AdvanceIntegrates DEF Exporter!Next
  <2>3. CASE StartPass \/ \E g \in Group : SkipGroup(g)
    <3>1. UNCHANGED <<now, log, since, obs>>
      BY <2>3 DEF StartPass, SkipGroup, reader, sample
    <3> QED
      BY <1>1, <2>1, <3>1
  <2>4. ASSUME NEW g \in Group, ReadGroup(g) PROVE Exporter!Next
    BY <2>1, <2>4, ReadIntegrates DEF Exporter!Next
  <2> QED
    BY <1>2, <2>2, <2>3, <2>4 DEF Reading
<1>3. CASE Failure
  <2>1. UNCHANGED <<now, log, since, obs, stage, fields, exporter>>
    BY <1>3 DEF Failure, ReadFails
  <2> QED
    BY <1>1, <2>1
<1>4. CASE Dropped
  <2>1. \E upto \in Exporter!Reads : Exporter!ClientPass(upto)
    BY <1>4, SampleLeaves DEF Dropped
  <2> QED
    BY <1>4, <2>1 DEF Dropped, DropSample, exporter, Exporter!LoseSample,
                      Exporter!history, Exporter!Next
<1>5. CASE Handed
  <2>1. PICK upto \in Exporter!Reads :
          /\ Exporter!ClientPass(upto)
          /\ \A f \in Field : Exporter!Fetched(f, upto) = obs[f]
    BY <1>5, SampleLeaves DEF Handed
  <2>2. queue' = [f \in Field |-> Exporter!Fetched(f, upto)]
    BY <1>5, <2>1 DEF Handed, TypeOK
  <2> QED
    BY <1>5, <2>1, <2>2 DEF Handed, CollectSample, Exporter!StartSample,
                            Exporter!history, Exporter!Next
<1>6. CASE Observing
  BY <1>6 DEF Observing, Exporter!Next
<1>7. CASE UNCHANGED whole
  BY <1>1, <1>7 DEF whole, vars
<1> QED
  BY <1>2, <1>3, <1>4, <1>5, <1>6, <1>7 DEF PipelineNext

(* readWatcher, Samples and collectSample give processObservations what    *)
(* Integrals takes for granted, however long reads fail.                   *)
THEOREM Integrates == PipelineSpec => IntegralsKept
<1> QED
  BY IntegralsInit, PipelineInvariant, IntegralsStep, PTL
     DEF PipelineSpec, IntegralsKept, Exporter!Spec

(***************************************************************************)
(* Which time is integrated. When the latest value x of a field before the *)
(* exporter took it to be unavailable is not the first of a stretch that   *)
(* is integrated, something excuses that: between x and a time e that no   *)
(* value counted after x precedes, the field was silent for too long or    *)
(* reported a blank or lost a value, or a read failed that began at e.     *)
(***************************************************************************)
Break(f, x, e) ==
    \/ e - x > 2 * Interval[GroupOf[f]]
    \/ e \in broken[GroupOf[f]]
    \/ \E v \in log : v.field = f /\ ~v.ok /\ x < v.ts /\ v.ts < e
    \/ \E t \in lost[f] : x < t /\ t < e

Excused(f, x) ==
    \E e \in Nat : /\ x < e /\ e <= since[GroupOf[f]]
                   /\ \A u \in counted[f] \cup obs[f] : u <= x \/ e <= u
                   /\ Break(f, x, e)

(* What was read of a field stays, and what is read next comes after it.   *)
Onward(f) ==
    /\ since[GroupOf[f]] <= since'[GroupOf[f]]
    /\ \A u \in counted'[f] \cup obs'[f] :
          u \in counted[f] \cup obs[f] \/ since[GroupOf[f]] <= u
    /\ \A v \in log : v.field = f /\ v.ts < since[GroupOf[f]] => v \in log'
    /\ lost[f] \subseteq lost'[f]
    /\ broken[GroupOf[f]] \subseteq broken'[GroupOf[f]]

LEMMA StepOnward ==
    ASSUME IInv, broken \in [Group -> SUBSET Nat], [PipelineNext]_whole, NEW f \in Field
    PROVE  Onward(f)
<1> USE GroupsAssumption
<1>1. CASE Reading
  <2>1. UNCHANGED broken
    BY <1>1 DEF Reading
  <2>2. CASE Advance
    <3>1. UNCHANGED <<since, obs, counted, lost>> /\ log \subseteq log'
      BY <2>2 DEF Advance, reader, sample, ghosts
    <3> QED
      BY <2>1, <3>1 DEF Onward, IInv, Types
  <2>3. CASE StartPass \/ \E g \in Group : SkipGroup(g)
    <3>1. UNCHANGED <<log, since, obs, counted, lost>>
      BY <2>3 DEF StartPass, SkipGroup, reader, sample, ghosts
    <3> QED
      BY <2>1, <3>1 DEF Onward, IInv, Types
  <2>4. ASSUME NEW g \in Group, ReadGroup(g) PROVE Onward(f)
    <3>1. /\ UNCHANGED counted
          /\ since' = [since EXCEPT ![g] = now]
          /\ obs' = [h \in Field |-> IF GroupOf[h] = g THEN ValidTimes(Read(h)) ELSE obs[h]]
          /\ log' = {v \in log : GroupOf[v.field] = g => v \notin Forgotten(v.field)}
          /\ lost' = [h \in Field |-> IF GroupOf[h] = g
                                      THEN lost[h] \cup ValidTimes(Forgotten(h)) ELSE lost[h]]
      BY <2>4 DEF ReadGroup, NextSince
    <3>2. since[GroupOf[f]] <= since'[GroupOf[f]]
      BY <3>1 DEF IInv, Types, SinceInv
    <3>3. \A u \in ValidTimes(Read(f)) : since[GroupOf[f]] <= u
      BY DEF ValidTimes, Read, Unread, IInv, Types
    <3>4. \A v \in log : v.field = f /\ v.ts < since[GroupOf[f]] => v \in log'
      BY <3>1 DEF Forgotten, Unread, IInv, Types
    <3>5. obs'[f] \in {obs[f], ValidTimes(Read(f))} /\ lost[f] \subseteq lost'[f]
      BY <3>1
    <3> QED
      BY <2>1, <3>1, <3>2, <3>3, <3>4, <3>5 DEF Onward
  <2> QED
    BY <1>1, <2>2, <2>3, <2>4 DEF Reading
<1>2. CASE Failure
  <2>1. UNCHANGED <<log, since, obs, counted, lost>>
    BY <1>2 DEF Failure, ReadFails, ghosts
  <2>2. broken[GroupOf[f]] \subseteq broken'[GroupOf[f]]
    BY <1>2 DEF Failure
  <2> QED
    BY <2>1, <2>2 DEF Onward, IInv, Types
<1>3. CASE Dropped \/ Handed
  <2>1. /\ UNCHANGED <<log, since, broken>>
        /\ obs' = [h \in Field |-> {}]
        /\ \/ /\ lost' = [h \in Field |-> lost[h] \cup obs[h]]
              /\ counted' = counted
           \/ /\ counted' = [h \in Field |-> counted[h] \cup obs[h]]
              /\ lost' = lost
    BY <1>3 DEF Dropped, Handed, DropSample, CollectSample, NoObservation, reader
  <2> QED
    BY <2>1 DEF Onward, IInv, Types
<1>4. CASE Observing \/ UNCHANGED whole
  BY <1>4 DEF Observing, whole, vars, Onward, IInv, Types
<1> QED
  BY <1>1, <1>2, <1>3, <1>4 DEF PipelineNext

LEMMA ExcusedStays ==
    ASSUME IInv, IInv', NEW f \in Field, Onward(f), NEW x \in Nat, Excused(f, x)
    PROVE  Excused(f, x)'
<1>1. PICK e \in Nat : /\ x < e /\ e <= since[GroupOf[f]]
                       /\ \A u \in counted[f] \cup obs[f] : u <= x \/ e <= u
                       /\ Break(f, x, e)
  BY DEF Excused
<1>2. since[GroupOf[f]] \in Nat /\ since'[GroupOf[f]] \in Nat /\ obs'[f] \cup counted'[f] \subseteq Nat
  BY GroupsAssumption DEF IInv, Types
<1>3. Break(f, x, e)'
  <2>1. \A v \in log : v.field = f /\ v.ts < e => v \in log'
    BY <1>1, <1>2 DEF Onward, IInv, Types
  <2>2. CASE \E v \in log : v.field = f /\ ~v.ok /\ x < v.ts /\ v.ts < e
    BY <2>1, <2>2 DEF Break
  <2>3. CASE e \in broken[GroupOf[f]]
    BY <2>3 DEF Break, Onward
  <2>4. CASE \E t \in lost[f] : x < t /\ t < e
    BY <2>4 DEF Break, Onward
  <2>5. CASE e - x > 2 * Interval[GroupOf[f]]
    BY <2>5 DEF Break
  <2>6. \/ e - x > 2 * Interval[GroupOf[f]]
        \/ e \in broken[GroupOf[f]]
        \/ \E v \in log : v.field = f /\ ~v.ok /\ x < v.ts /\ v.ts < e
        \/ \E t \in lost[f] : x < t /\ t < e
    BY <1>1 DEF Break
  <2> QED
    BY <2>2, <2>3, <2>4, <2>5, <2>6
<1>4. e <= since'[GroupOf[f]]
  BY <1>1, <1>2 DEF Onward
<1>5. \A u \in counted'[f] \cup obs'[f] : u <= x \/ e <= u
  BY <1>1, <1>2 DEF Onward
<1> QED
  BY <1>1, <1>3, <1>4, <1>5 DEF Excused

(* DCGM records a field once a tick at most.                               *)
UniqueInv ==
    \A v, w \in log : v.field = w.field /\ v.ts = w.ts => v.ok = w.ok

(* last is the newest valid value that was read, and an unavailable field  *)
(* is excused from it on.                                                  *)
LastRead(f) ==
    /\ \A u \in counted[f] \cup obs[f] : u <= status[f].last
    /\ status[f].last # 0 => status[f].last \in counted[f] \cup obs[f] \cup lost[f]

DownExcused(f) ==
    \A x \in Nat : x = status[f].last /\ x # 0 /\ ~status[f].available => Excused(f, x)

StatusInv ==
    /\ broken \in [Group -> SUBSET Nat]
    /\ UniqueInv
    /\ \A f \in Field : LastRead(f) /\ DownExcused(f)

LEMMA UniqueNext == IInv /\ UniqueInv /\ [Next]_vars => UniqueInv'
<1> SUFFICES ASSUME IInv, UniqueInv, [Next]_vars PROVE UniqueInv'
  OBVIOUS
<1>1. CASE Advance
  <2>1. PICK valid \in SUBSET Field, blank \in SUBSET Blank :
          /\ valid \cap blank = {}
          /\ log' = log \cup Recorded(valid, TRUE) \cup Recorded(blank, FALSE)
    BY <1>1 DEF Advance
  <2>2. \A v \in log' : \/ v \in log /\ v.ts < now
                        \/ v.ts = now /\ v.field \in valid /\ v.ok = TRUE
                        \/ v.ts = now /\ v.field \in blank /\ v.ok = FALSE
    BY <2>1 DEF Recorded, IInv, PastInv
  <2>3. now \in Nat
    BY DEF IInv, Types
  <2> SUFFICES ASSUME NEW v \in log', NEW w \in log', v.field = w.field, v.ts = w.ts
               PROVE  v.ok = w.ok
    BY DEF UniqueInv
  <2>4. CASE v \in log /\ w \in log
    BY <2>4 DEF UniqueInv
  <2>5. CASE v.ts = now
    <3>1. ~(now < now)
      BY <2>3
    <3>2. \/ v.field \in valid /\ v.ok = TRUE
          \/ v.field \in blank /\ v.ok = FALSE
      BY <2>2, <2>5, <3>1
    <3>3. \/ w.field \in valid /\ w.ok = TRUE
          \/ w.field \in blank /\ w.ok = FALSE
      BY <2>2, <2>5, <3>1
    <3> QED
      BY <2>1, <3>2, <3>3
  <2> QED
    BY <2>2, <2>4, <2>5
<1>2. CASE log' \subseteq log
  BY <1>2 DEF UniqueInv
<1> QED
  BY <1>1, <1>2 DEF Next, StartPass, SkipGroup, ReadFails, ReadGroup, DropSample,
                    CollectSample, vars

(* What a read makes of a field of its group.                              *)
LEMMA ReadExcuses ==
    ASSUME IInv, IInv', TypeOK, RecentInv, StatusInv, NEW g \in Group, ReadGroup(g),
           NEW f \in Field, GroupOf[f] = g, Onward(f)
    PROVE  LastRead(f)' /\ DownExcused(f)'
<1> USE GroupsAssumption
<1> DEFINE R == Read(f)
           last == Latest(ValidTimes(R), status[f].last)
           new == Newest(R)
<1>1. /\ since'[g] = now /\ since[g] <= now /\ now \in Nat /\ since[g] \in Nat
      /\ status'[f] = StatusAfter(f, R)
      /\ obs'[f] = ValidTimes(R) /\ counted'[f] = counted[f]
  BY DEF ReadGroup, NextSince, TypeOK, IInv, Types, SinceInv
<1>2. obs[f] = {} /\ lost[f] \subseteq lost'[f]
  BY ReadWaits DEF Onward
<1>3. /\ status[f].last \in Nat /\ status[f].last < since[g]
      /\ \A u \in counted[f] : u \in Nat /\ u < since[g] /\ u <= status[f].last
  BY DEF TypeOK, RecentInv, LastInv, StatusInv, LastRead, IInv, Types, ReadInv
<1>4. \A v \in R : /\ v \in log' /\ v.field = f /\ v.ts \in Nat
                   /\ since[g] <= v.ts /\ v.ts < now /\ v \in log
  BY KeepAssumption DEF ReadGroup, Read, Forgotten, Unread, IInv, Types
<1>5. ASSUME NEW x \in Nat, \A u \in counted[f] \cup obs'[f] : u <= x, x < now,
             \/ now - x > 2 * Interval[g]
             \/ \E v \in R : ~v.ok /\ x < v.ts
      PROVE  Excused(f, x)'
  <2>1. Break(f, x, now)'
    BY <1>4, <1>5 DEF Break, ReadGroup
  <2> QED
    BY <1>1, <1>5, <2>1 DEF Excused, ReadGroup
<1>6. CASE R = {}
  <2>1. /\ status'[f] = [status[f] EXCEPT !.available = @ /\ StillFresh(f)]
        /\ ValidTimes(R) = {}
    BY <1>1, <1>6 DEF StatusAfter, ValidTimes
  <2>2. status'[f].last = status[f].last
    BY <2>1 DEF TypeOK
  <2>3. LastRead(f)'
    BY <1>1, <1>2, <2>1, <2>2 DEF StatusInv, LastRead
  <2>4. DownExcused(f)'
    <3> SUFFICES ASSUME NEW x \in Nat, x = status[f].last, x # 0, ~status'[f].available
                 PROVE  Excused(f, x)'
      BY <2>2 DEF DownExcused
    <3>1. CASE ~status[f].available
      BY <3>1, ExcusedStays DEF StatusInv, DownExcused
    <3>2. CASE status[f].available
      <4>1. ~StillFresh(f)
        BY <2>1, <3>2 DEF TypeOK
      <4>2. pollTime - x > 2 * Interval[g] /\ pollTime \in Nat /\ pollTime <= now
        BY <1>1, <4>1 DEF StillFresh, TypeOK
      <4> QED
        BY <1>1, <1>3, <1>5, <2>1, <4>2
    <3> QED
      BY <3>1, <3>2
  <2> QED
    BY <2>3, <2>4
<1>7. CASE R # {}
  <2>1. /\ status'[f].last = last /\ status'[f].available = new.ok
        /\ new \in R /\ \A w \in R : w.ts <= new.ts
    BY <1>1, <1>7, ReadTyped, NewestIs DEF StatusAfter
  <2>2. CASE ValidTimes(R) = {}
    <3>1. last = status[f].last /\ ~new.ok
      BY <2>1, <2>2 DEF Latest, ValidTimes
    <3>2. LastRead(f)'
      BY <1>1, <1>2, <2>1, <2>2, <3>1 DEF StatusInv, LastRead
    <3>3. \A x \in Nat : x = status[f].last => Excused(f, x)'
      BY <1>1, <1>3, <1>4, <1>5, <2>1, <2>2, <3>1
    <3> QED
      BY <2>1, <3>1, <3>2, <3>3 DEF DownExcused
  <2>3. CASE ValidTimes(R) # {}
    <3>1. last \in ValidTimes(R) /\ \A u \in ValidTimes(R) : u <= last
      BY <2>3, ReadTyped, LatestIs
    <3>2. PICK w \in R : w.ok /\ w.ts = last
      BY <3>1 DEF ValidTimes
    <3> HIDE DEF last, new
    <3>3. last \in Nat /\ since[g] <= last /\ last < now
      BY <1>4, <3>2
    <3>4. \A u \in counted[f] \cup obs'[f] : u <= last
      <4>1. \A u \in counted[f] : u <= last
        BY <1>1, <1>3, <3>3
      <4> QED
        BY <1>1, <3>1, <4>1
    <3>5. LastRead(f)'
      BY <1>1, <2>1, <3>1, <3>4 DEF LastRead
    <3>6. ASSUME ~new.ok PROVE last < new.ts
      <4>1. last <= new.ts /\ new.ts \in Nat
        BY <1>4, <2>1, <3>2
      <4>2. last # new.ts
        BY <1>4, <2>1, <3>2, <3>6 DEF StatusInv, UniqueInv
      <4> QED
        BY <3>3, <4>1, <4>2
    <3>7. ASSUME ~new.ok, NEW x \in Nat, x = last PROVE Excused(f, x)'
      BY <1>5, <2>1, <3>3, <3>4, <3>6, <3>7
    <3> QED
      BY <2>1, <3>5, <3>7 DEF DownExcused
  <2> QED
    BY <2>2, <2>3
<1> QED
  BY <1>6, <1>7

LEMMA StatusNext ==
    IInv /\ IInv' /\ TypeOK /\ RecentInv /\ StatusInv /\ [PipelineNext]_whole => StatusInv'
<1> SUFFICES ASSUME IInv, IInv', TypeOK, RecentInv, StatusInv, [PipelineNext]_whole
             PROVE  StatusInv'
  OBVIOUS
<1> USE GroupsAssumption
<1>1. \A f \in Field : Onward(f)
  BY StepOnward DEF StatusInv
<1>2. UniqueInv'
  <2>1. [Next]_vars
    BY ReaderStep DEF whole
  <2> QED
    BY <2>1, UniqueNext DEF StatusInv
<1>3. broken' \in [Group -> SUBSET Nat]
  <2>1. CASE Failure
    BY <2>1 DEF Failure, StatusInv, IInv, Types
  <2>2. CASE UNCHANGED broken
    BY <2>2 DEF StatusInv
  <2> QED
    BY <2>1, <2>2 DEF PipelineNext, Reading, Dropped, Handed, Observing, whole
<1>4. ASSUME NEW f \in Field PROVE LastRead(f)' /\ DownExcused(f)'
  <2>1. LastRead(f) /\ DownExcused(f) /\ Onward(f)
    BY <1>1 DEF StatusInv
  <2>2. ASSUME status'[f] = status[f],
               counted'[f] \cup obs'[f] \subseteq counted[f] \cup obs[f],
               counted[f] \cup obs[f] \cup lost[f] \subseteq counted'[f] \cup obs'[f] \cup lost'[f]
        PROVE  LastRead(f)' /\ DownExcused(f)'
    <3>1. LastRead(f)'
      BY <2>1, <2>2 DEF LastRead
    <3>2. DownExcused(f)'
      <4> SUFFICES ASSUME NEW x \in Nat, x = status[f].last, x # 0, ~status[f].available
                   PROVE  Excused(f, x)'
        BY <2>2 DEF DownExcused
      <4>1. Excused(f, x)
        BY <2>1 DEF DownExcused
      <4> QED
        BY <2>1, <4>1, ExcusedStays
    <3> QED
      BY <3>1, <3>2
  <2>3. CASE Advance \/ StartPass \/ \E g \in Group : SkipGroup(g)
    BY <2>2, <2>3 DEF Advance, StartPass, SkipGroup, reader, sample, ghosts
  <2>4. ASSUME NEW g \in Group, ReadGroup(g) PROVE LastRead(f)' /\ DownExcused(f)'
    <3>1. CASE GroupOf[f] = g
      BY <2>1, <2>4, <3>1, ReadExcuses
    <3>2. CASE GroupOf[f] # g
      BY <2>2, <2>4, <3>2 DEF ReadGroup
    <3> QED
      BY <3>1, <3>2
  <2>5. CASE Failure
    <3>1. PICK g \in Group : /\ ReadFails(g)
                             /\ broken' = [broken EXCEPT ![g] = @ \cup {since[g]}]
      BY <2>5 DEF Failure
    <3>2. UNCHANGED <<log, since, obs, counted, lost>>
      BY <3>1 DEF ReadFails, ghosts
    <3>3. CASE GroupOf[f] = g
      <4>1. status'[f] = [status[f] EXCEPT !.available = FALSE]
        BY <3>1, <3>3 DEF ReadFails
      <4>2. status'[f].last = status[f].last
        BY <4>1 DEF TypeOK
      <4>3. LastRead(f)'
        BY <2>1, <3>2, <4>2 DEF LastRead
      <4>4. ASSUME NEW x \in Nat, x = status[f].last PROVE Excused(f, x)'
        <5>1. since[g] \in Nat /\ x < since[g]
          BY <3>3, <4>4 DEF RecentInv, LastInv, IInv, Types
        <5>2. since[g] \in broken'[g]
          BY <3>1 DEF StatusInv
        <5>3. Break(f, x, since[g])'
          BY <3>2, <3>3, <5>2 DEF Break
        <5>4. \A u \in counted[f] \cup obs[f] : u <= x
          BY <2>1, <4>4 DEF LastRead
        <5>5. since[g] <= since[g]
          BY <5>1
        <5> QED
          BY <3>2, <3>3, <5>1, <5>3, <5>4, <5>5 DEF Excused
      <4> QED
        BY <4>2, <4>3, <4>4 DEF DownExcused
    <3>4. CASE GroupOf[f] # g
      BY <2>2, <3>1, <3>2, <3>4 DEF ReadFails
    <3> QED
      BY <3>3, <3>4
  <2>6. CASE Dropped \/ Handed
    <3>1. /\ status' = status
          /\ obs'[f] = {}
          /\ \/ counted'[f] = counted[f] /\ lost'[f] = lost[f] \cup obs[f]
             \/ counted'[f] = counted[f] \cup obs[f] /\ lost'[f] = lost[f]
      BY <2>6 DEF Dropped, Handed, DropSample, CollectSample, NoObservation, reader
    <3> QED
      BY <2>2, <3>1
  <2>7. CASE Observing \/ UNCHANGED whole
    BY <2>2, <2>7 DEF Observing, whole, vars
  <2> QED
    BY <2>3, <2>4, <2>5, <2>6, <2>7 DEF PipelineNext, Reading
<1> QED
  BY <1>2, <1>3, <1>4 DEF StatusInv

(***************************************************************************)
(* The exporter. Of a field that is no stand-in every value that is handed *)
(* over is taken, in order, and unless a value was the latest of a sample  *)
(* that found the field unavailable, the time up to the next is integrated.*)
(***************************************************************************)
Plain == {f \in Field : Preferred[f] = None}

ExporterTypes ==
    /\ stage \in {"idle", "observe"}
    /\ queue \in [Field -> SUBSET Time]
    /\ times \in [Field -> 0..MaxTime]
    /\ taken \in [Field -> SUBSET Time]
    /\ ends \in [Field -> SUBSET Time]
    /\ spans \in [Field -> SUBSET (Time \X Time)]

HandInv ==
    /\ stage = "observe" => pc = "idle" /\ fields = Available
    /\ stage = "idle" => \A f \in Field : queue[f] = {}

Handing(f) ==
    /\ counted[f] = taken[f] \cup queue[f]
    /\ \A t \in queue[f], u \in taken[f] : u < t

Timed(f) ==
    IF times[f] = 0
    THEN \A t \in taken[f] : (\A u \in taken[f] : u <= t) => t \in ends[f]
    ELSE times[f] \in taken[f] /\ \A u \in taken[f] : u <= times[f]

Integrated(f) ==
    \A a, b \in taken[f] :
        /\ a < b /\ \A t \in taken[f] : t <= a \/ b <= t
        /\ b - a <= MaxGap[f]
        => a \in ends[f] \/ <<a, b>> \in spans[f]

EndsExcused(f) == \A a \in ends[f] : Excused(f, a)

Observed(f) == Handing(f) /\ Timed(f) /\ Integrated(f)

ExporterInv ==
    /\ ExporterTypes /\ HandInv
    /\ \A f \in Plain : Observed(f) /\ EndsExcused(f)

(* The next value of f is taken.                                           *)
LEMMA ObserveTakes ==
    ASSUME ExporterTypes, NEW f \in Plain, Observed(f), Exporter!Observe(f),
           UNCHANGED counted
    PROVE  Observed(f)'
<1>1. f \in Field /\ Preferred[f] = None /\ MaxGap[f] \in Nat
  BY IntegrationAssumption DEF Plain
<1>2. ~Exporter!Replaced(f)
  BY <1>1 DEF Exporter!Replaced
<1>3. PICK t \in queue[f] :
        /\ \A u \in queue[f] : t <= u
        /\ queue' = [queue EXCEPT ![f] = @ \ {t}]
        /\ times' = [times EXCEPT ![f] = t]
        /\ taken' = [taken EXCEPT ![f] = @ \cup {t}]
        /\ spans' = [spans EXCEPT ![f] = @ \cup
                       {s \in {<<times[f], t>>} : Exporter!observationInterval(f, t) > 0}]
  BY <1>2 DEF Exporter!Observe, Exporter!IsNext
<1>4. ends' = ends
  BY DEF Exporter!Observe
<1>5. /\ queue'[f] = queue[f] \ {t} /\ times'[f] = t /\ taken'[f] = taken[f] \cup {t}
      /\ spans'[f] = spans[f] \cup
           {s \in {<<times[f], t>>} : Exporter!observationInterval(f, t) > 0}
  BY <1>1, <1>3 DEF ExporterTypes
<1>6. /\ queue[f] \subseteq Time /\ taken[f] \subseteq Time
      /\ times[f] \in Nat /\ t \in Nat /\ t # 0 /\ \A u \in taken[f] : u \in Nat /\ u < t
  BY <1>1, TimeAssumption DEF ExporterTypes, Time, Observed, Handing
<1>7. Handing(f)'
  <2>1. counted[f] = taken'[f] \cup queue'[f]
    BY <1>5 DEF Observed, Handing
  <2>2. ASSUME NEW q \in queue'[f], NEW u \in taken'[f] PROVE u < q
    <3>1. q \in queue[f] /\ q # t /\ t <= q /\ q \in Nat
      BY <1>3, <1>5, <1>6, TimeAssumption DEF Time
    <3> QED
      BY <1>5, <1>6, <3>1
  <2> QED
    BY <2>1, <2>2 DEF Handing
<1>8. Timed(f)'
  BY <1>5, <1>6 DEF Timed
<1>9. Integrated(f)'
  <2> SUFFICES ASSUME NEW a \in taken'[f], NEW b \in taken'[f], a < b,
                      \A u \in taken'[f] : u <= a \/ b <= u, b - a <= MaxGap[f]
               PROVE  a \in ends[f] \/ <<a, b>> \in spans'[f]
    BY <1>4 DEF Integrated
  <2>1. a \in taken[f] /\ a \in Nat
    BY <1>5, <1>6
  <2>2. CASE b \in taken[f]
    BY <1>5, <2>1, <2>2 DEF Observed, Integrated
  <2>3. CASE b = t
    <3>1. \A u \in taken[f] : u <= a
      BY <1>5, <1>6, <2>3
    <3>2. CASE times[f] = 0
      BY <2>1, <3>1, <3>2 DEF Observed, Timed
    <3>3. CASE times[f] # 0
      <4>1. times[f] = a
        BY <1>6, <2>1, <3>1, <3>3 DEF Observed, Timed
      <4>2. Exporter!observationInterval(f, t) = t - a
        BY <1>1, <1>6, <2>1, <2>3, <3>3, <4>1 DEF Exporter!observationInterval
      <4>3. t - a > 0
        BY <1>6, <2>1
      <4> QED
        BY <1>5, <2>3, <4>1, <4>2, <4>3
    <3> QED
      BY <3>2, <3>3
  <2> QED
    BY <1>5, <2>2, <2>3
<1> QED
  BY <1>7, <1>8, <1>9 DEF Observed

LEMMA ExporterTypesNext ==
    TypeOK /\ ExporterTypes /\ [PipelineNext]_whole => ExporterTypes'
<1> SUFFICES ASSUME TypeOK, ExporterTypes, [PipelineNext]_whole PROVE ExporterTypes'
  OBVIOUS
<1>1. CASE Reading \/ Failure \/ Dropped \/ UNCHANGED whole
  BY <1>1 DEF Reading, Failure, Dropped, whole, exporter, ExporterTypes
<1>2. CASE Handed
  BY <1>2 DEF Handed, TypeOK, ExporterTypes
<1>3. ASSUME NEW f \in Field, Exporter!Observe(f) PROVE ExporterTypes'
  <2>1. PICK t \in queue[f] :
          /\ queue' = [queue EXCEPT ![f] = @ \ {t}]
          /\ \/ UNCHANGED <<times, taken, spans>>
             \/ /\ times' = [times EXCEPT ![f] = t]
                /\ taken' = [taken EXCEPT ![f] = @ \cup {t}]
                /\ spans' = [spans EXCEPT ![f] = @ \cup
                       {s \in {<<times[f], t>>} : Exporter!observationInterval(f, t) > 0}]
    BY <1>3 DEF Exporter!Observe
  <2>2. t \in Time /\ t \in 0..MaxTime
    BY TimeAssumption DEF ExporterTypes, Time
  <2>3. {s \in {<<times[f], t>>} : Exporter!observationInterval(f, t) > 0} \subseteq Time \X Time
    <3>1. CASE times[f] = 0
      BY <3>1 DEF Exporter!observationInterval
    <3>2. CASE times[f] # 0
      BY <2>2, <3>2, TimeAssumption DEF ExporterTypes, Time
    <3> QED
      BY <3>1, <3>2
  <2>4. UNCHANGED <<stage, ends>>
    BY <1>3 DEF Exporter!Observe
  <2> HIDE DEF Time
  <2>5. queue' \in [Field -> SUBSET Time]
    BY <2>1 DEF ExporterTypes
  <2>6. CASE UNCHANGED <<times, taken, spans>>
    BY <2>4, <2>5, <2>6 DEF ExporterTypes
  <2>7. CASE ~UNCHANGED <<times, taken, spans>>
    <3>1. times' \in [Field -> 0..MaxTime] /\ taken' \in [Field -> SUBSET Time]
      BY <2>1, <2>2, <2>7 DEF ExporterTypes
    <3>2. spans' \in [Field -> SUBSET (Time \X Time)]
      BY <2>1, <2>3, <2>7 DEF ExporterTypes
    <3> QED
      BY <2>4, <2>5, <3>1, <3>2 DEF ExporterTypes
  <2> QED
    BY <2>6, <2>7
<1>4. CASE Exporter!ResetUnavailable
  <2>1. \A f \in Field : Exporter!Newest(taken[f]) \subseteq taken[f]
    BY DEF Exporter!Newest
  <2>2. ends' \in [Field -> SUBSET Time]
    BY <1>4, <2>1 DEF Exporter!ResetUnavailable, ExporterTypes
  <2>3. times' \in [Field -> 0..MaxTime]
    BY <1>4, TimeAssumption DEF Exporter!ResetUnavailable, ExporterTypes
  <2> QED
    BY <1>4, <2>2, <2>3 DEF Exporter!ResetUnavailable, ExporterTypes
<1> QED
  BY <1>1, <1>2, <1>3, <1>4 DEF PipelineNext, Observing

LEMMA HandNext == ExporterTypes /\ HandInv /\ [PipelineNext]_whole => HandInv'
<1> SUFFICES ASSUME ExporterTypes, HandInv, [PipelineNext]_whole PROVE HandInv'
  OBVIOUS
<1>1. CASE Reading \/ Failure \/ Dropped
  BY <1>1 DEF Reading, Failure, Dropped, exporter, HandInv
<1>2. CASE Handed
  BY <1>2 DEF Handed, CollectSample, reader, Available, HandInv
<1>3. CASE Observing
  <2>1. UNCHANGED <<pc, fields, status>>
    BY <1>3 DEF Observing, vars
  <2>2. ASSUME NEW f \in Field, Exporter!Observe(f) PROVE HandInv'
    BY <2>1, <2>2 DEF Exporter!Observe, HandInv, Available
  <2>3. CASE Exporter!ResetUnavailable
    BY <2>3 DEF Exporter!ResetUnavailable, HandInv
  <2> QED
    BY <1>3, <2>2, <2>3 DEF Observing
<1>4. CASE UNCHANGED whole
  BY <1>4 DEF whole, vars, exporter, HandInv, Available
<1> QED
  BY <1>1, <1>2, <1>3, <1>4 DEF PipelineNext

(* A field that the sample found unavailable was excused from its last     *)
(* valid value on, and so from the latest that was not lost.               *)
LEMMA ResetExcuses ==
    ASSUME IInv, TypeOK, RecentInv, StatusInv, ExporterInv, NEW f \in Plain,
           stage = "observe", queue[f] = {}, f \notin fields,
           NEW a \in Exporter!Newest(taken[f])
    PROVE  Excused(f, a)
<1> USE GroupsAssumption
<1>1. f \in Field /\ ~status[f].available /\ obs[f] = {} /\ counted[f] = taken[f]
  BY DEF Plain, ExporterInv, HandInv, Available, IInv, SampleInv, Observed, Handing
<1>2. a \in counted[f] /\ \A u \in counted[f] : u <= a
  BY <1>1 DEF Exporter!Newest
<1>3. a \in Nat /\ a # 0
  BY <1>1, <1>2, TimeAssumption DEF TypeOK, Time
<1>4. PICK x \in Nat : x = status[f].last
  BY <1>1 DEF TypeOK
<1>5. /\ a <= x /\ x < since[GroupOf[f]] /\ since[GroupOf[f]] \in Nat
      /\ x # 0 => x \in counted[f] \cup obs[f] \cup lost[f]
  BY <1>1, <1>2, <1>4 DEF StatusInv, LastRead, RecentInv, LastInv, IInv, Types
<1>6. CASE a = x
  BY <1>1, <1>3, <1>4, <1>6 DEF StatusInv, DownExcused
<1>7. CASE a # x
  <2>1. a < x /\ a < since[GroupOf[f]]
    BY <1>3, <1>4, <1>5, <1>7
  <2>2. x \in lost[f]
    BY <1>1, <1>2, <1>3, <1>4, <1>5, <2>1
  <2>3. Break(f, a, since[GroupOf[f]])
    BY <1>5, <2>1, <2>2 DEF Break
  <2>4. \A u \in counted[f] \cup obs[f] : u <= a
    BY <1>1, <1>2
  <2>5. since[GroupOf[f]] <= since[GroupOf[f]]
    BY <1>5
  <2> QED
    BY <1>5, <2>1, <2>3, <2>4, <2>5 DEF Excused
<1> QED
  BY <1>6, <1>7

LEMMA ExporterNext ==
    /\ IInv /\ IInv' /\ TypeOK /\ RecentInv /\ StatusInv /\ ExporterInv
    /\ [PipelineNext]_whole
    => ExporterInv'
<1> SUFFICES ASSUME IInv, IInv', TypeOK, RecentInv, StatusInv, ExporterInv,
                    [PipelineNext]_whole
             PROVE  ExporterInv'
  OBVIOUS
<1>1. ExporterTypes' /\ HandInv'
  BY ExporterTypesNext, HandNext DEF ExporterInv
<1> SUFFICES ASSUME NEW f \in Plain PROVE Observed(f)' /\ EndsExcused(f)'
  BY <1>1 DEF ExporterInv
<1>2. f \in Field /\ Observed(f) /\ EndsExcused(f) /\ ends[f] \subseteq Nat
  BY TimeAssumption DEF Plain, ExporterInv, ExporterTypes, Time
<1>3. Onward(f)
  BY <1>2, StepOnward DEF StatusInv
<1>4. \A x \in Nat : Excused(f, x) => Excused(f, x)'
  BY <1>2, <1>3, ExcusedStays
<1>5. ASSUME ends'[f] = ends[f] PROVE EndsExcused(f)'
  BY <1>2, <1>4, <1>5 DEF EndsExcused
<1>6. ASSUME UNCHANGED <<counted, exporter>> PROVE Observed(f)' /\ EndsExcused(f)'
  BY <1>2, <1>5, <1>6 DEF exporter, Observed, Handing, Timed, Integrated
<1>7. CASE Reading \/ Failure \/ Dropped
  <2>1. UNCHANGED <<counted, exporter>>
    BY <1>7 DEF Reading, Failure, Dropped, Advance, StartPass, SkipGroup, ReadGroup,
                ReadFails, DropSample
  <2> QED
    BY <1>6, <2>1
<1>8. CASE Handed
  <2>1. /\ counted' = [h \in Field |-> counted[h] \cup obs[h]]
        /\ queue' = obs /\ UNCHANGED <<times, taken, ends, spans>> /\ queue[f] = {}
    BY <1>2, <1>8 DEF Handed, CollectSample, ExporterInv, HandInv
  <2>2. Handing(f)'
    BY <1>2, <2>1 DEF Observed, Handing, IInv, OrderInv
  <2> QED
    BY <1>2, <1>5, <2>1, <2>2 DEF Observed, Timed, Integrated
<1>9. CASE Observing
  <2>1. UNCHANGED <<vars, broken>>
    BY <1>9 DEF Observing
  <2>2. ASSUME NEW h \in Field, Exporter!Observe(h)
        PROVE  Observed(f)' /\ EndsExcused(f)'
    <3>1. ends' = ends
      BY <2>2 DEF Exporter!Observe
    <3>2. CASE h = f
      BY <1>2, <1>5, <2>1, <2>2, <3>1, <3>2, ObserveTakes DEF ExporterInv, vars
    <3>3. CASE h # f
      <4>1. /\ queue'[f] = queue[f] /\ times'[f] = times[f]
            /\ taken'[f] = taken[f] /\ spans'[f] = spans[f]
        BY <1>2, <2>2, <3>3 DEF Exporter!Observe, ExporterInv, ExporterTypes
      <4> QED
        BY <1>2, <1>5, <2>1, <3>1, <4>1 DEF vars, Observed, Handing, Timed, Integrated
    <3> QED
      BY <3>2, <3>3
  <2>3. CASE Exporter!ResetUnavailable
    <3>1. /\ stage = "observe" /\ queue[f] = {}
          /\ UNCHANGED <<queue, taken, spans>>
          /\ times'[f] = IF f \in fields THEN times[f] ELSE 0
          /\ ends'[f] = ends[f] \cup {t \in Exporter!Newest(taken[f]) : f \notin fields}
      BY <1>2, <2>3 DEF Exporter!ResetUnavailable
    <3>2. Handing(f)' /\ Integrated(f)'
      BY <1>2, <2>1, <3>1 DEF vars, Observed, Handing, Integrated
    <3>3. Timed(f)'
      BY <1>2, <3>1 DEF Observed, Timed, Exporter!Newest
    <3>4. ASSUME NEW a \in ends'[f] PROVE Excused(f, a)'
      <4>1. CASE a \in ends[f]
        BY <1>2, <1>4, <4>1 DEF EndsExcused
      <4>2. CASE f \notin fields /\ a \in Exporter!Newest(taken[f])
        <5>1. a \in Nat
          BY <1>2, <4>2, TimeAssumption DEF Exporter!Newest, ExporterInv, ExporterTypes, Time
        <5> QED
          BY <1>4, <3>1, <4>2, <5>1, ResetExcuses
      <4> QED
        BY <3>1, <4>1, <4>2
    <3> QED
      BY <3>2, <3>3, <3>4 DEF Observed, EndsExcused
  <2> QED
    BY <1>9, <2>2, <2>3 DEF Observing
<1>10. CASE UNCHANGED whole
  BY <1>6, <1>10 DEF whole, vars
<1> QED
  BY <1>7, <1>8, <1>9, <1>10 DEF PipelineNext

LEMMA PipelineInitInv == PipelineInit => RecentInv /\ StatusInv /\ ExporterInv
<1> SUFFICES ASSUME PipelineInit PROVE RecentInv /\ StatusInv /\ ExporterInv
  OBVIOUS
<1> USE GroupsAssumption, TimeAssumption DEF PipelineInit, Init, NoObservation
<1>1. RecentInv
  BY DEF RecentInv, LastInv, Recent
<1>2. StatusInv
  BY DEF StatusInv, UniqueInv, LastRead, DownExcused
<1>3. ExporterTypes /\ HandInv
  BY DEF ExporterTypes, HandInv
<1>4. \A f \in Plain : Observed(f) /\ EndsExcused(f)
  BY DEF Plain, Observed, Handing, Timed, Integrated, EndsExcused
<1> QED
  BY <1>1, <1>2, <1>3, <1>4 DEF ExporterInv

(* From DCGM's history to the integrals: the time between two values of a  *)
(* field that is no stand-in is integrated, unless it is too wide, or      *)
(* something happened in between that makes the exporter forget the first. *)
THEOREM QuietTimeCorrect == PipelineSpec => []QuietTimeIsIntegrated
<1>1. IInv /\ TypeOK /\ RecentInv /\ [PipelineNext]_whole => RecentInv'
  <2>1. [PipelineNext]_whole => [Next]_vars
    BY ReaderStep DEF whole
  <2> QED
    BY <2>1, RecentNext
<1>2. PipelineSpec => []ExporterInv
  BY <1>1, PipelineInitInv, ReaderInvariant, StatusNext, ExporterNext, PTL DEF PipelineSpec
<1>3. IInv /\ TypeOK /\ ExporterInv => QuietTimeIsIntegrated
  <2> SUFFICES ASSUME IInv, TypeOK, ExporterInv, stage = "idle",
                      NEW f \in Plain, NEW a \in counted[f], NEW b \in counted[f],
                      a < b, \A t \in counted[f] \cup lost[f] : t <= a \/ b <= t,
                      b - a <= MaxGap[f], b - a <= 2 * Interval[GroupOf[f]],
                      Unbroken(f, a, b)
               PROVE  <<a, b>> \in spans[f]
    BY DEF QuietTimeIsIntegrated, Plain
  <2>1. f \in Field /\ Observed(f) /\ EndsExcused(f) /\ counted[f] = taken[f]
    BY DEF Plain, ExporterInv, HandInv, Observed, Handing
  <2>2. CASE a \notin ends[f]
    BY <2>1, <2>2 DEF Observed, Integrated
  <2>3. CASE a \in ends[f]
    <3>1. PICK e \in Nat : /\ a < e
                           /\ \A u \in counted[f] \cup obs[f] : u <= a \/ e <= u
                           /\ Break(f, a, e)
      BY <2>1, <2>3 DEF EndsExcused, Excused
    <3>2. a \in Nat /\ b \in Nat /\ e <= b
      BY <2>1, <3>1 DEF IInv, Types
    <3>3. ~(e - a > 2 * Interval[GroupOf[f]])
      BY <2>1, <3>2, GroupsAssumption
    <3>4. e \notin broken[GroupOf[f]]
      BY <3>1, <3>2 DEF Unbroken
    <3>5. ~\E v \in log : v.field = f /\ ~v.ok /\ a < v.ts /\ v.ts < e
      <4> SUFFICES ASSUME NEW v \in log, v.field = f, ~v.ok, a < v.ts, v.ts < e
                   PROVE  FALSE
        OBVIOUS
      <4>1. v.ts \in Nat
        BY DEF IInv, Types
      <4>2. v.ts < a \/ b < v.ts
        BY DEF Unbroken
      <4> QED
        BY <3>2, <4>1, <4>2
    <3>6. ~\E t \in lost[f] : a < t /\ t < e
      BY <2>1, <3>2 DEF IInv, Types
    <3> QED
      BY <3>1, <3>3, <3>4, <3>5, <3>6 DEF Break
  <2> QED
    BY <2>2, <2>3
<1> QED
  BY <1>2, <1>3, ReaderInvariant, PTL

-----------------------------------------------------------------------------
(***************************************************************************)
(* The exporter behind the real client. Pipeline's Exporter is Integrals;  *)
(* Proved is Integrals with what was proved about it, on the same          *)
(* variables, so that its theorems hold of the pipeline.                   *)
(***************************************************************************)
Proved == INSTANCE IntegralsProofs
    WITH now <- now - 1, pc <- stage,
         pending <- [f \in Field |-> Waiting(f) \cup obs[f]],
         available <- [f \in Field |-> f \in fields]

LEMMA ProvedInit == Exporter!Init => Proved!Init
  BY DEF Exporter!Init, Proved!Init

LEMMA ProvedStep == [Exporter!Next]_(Exporter!vars) => [Proved!Next]_(Proved!vars)
<1>1. Exporter!Advance => Proved!Advance
  BY DEF Exporter!Advance, Proved!Advance, Exporter!history, Proved!history
<1>2. Exporter!LoseSample => Proved!LoseSample
  BY DEF Exporter!LoseSample, Proved!LoseSample, Exporter!history, Proved!history,
         Exporter!Reads, Proved!Reads, Exporter!ClientPass, Proved!ClientPass,
         Exporter!Fetched, Proved!Fetched
<1>3. Exporter!StartSample => Proved!StartSample
  BY DEF Exporter!StartSample, Proved!StartSample, Exporter!history, Proved!history,
         Exporter!Reads, Proved!Reads, Exporter!ClientPass, Proved!ClientPass,
         Exporter!Fetched, Proved!Fetched
<1>4. \A f \in Field : Exporter!Observe(f) => Proved!Observe(f)
  BY DEF Exporter!Observe, Proved!Observe, Exporter!source, Proved!source,
         Exporter!IsNext, Proved!IsNext, Exporter!Replaced, Proved!Replaced,
         Exporter!observationInterval, Proved!observationInterval
<1>5. Exporter!ResetUnavailable => Proved!ResetUnavailable
  BY DEF Exporter!ResetUnavailable, Proved!ResetUnavailable,
         Exporter!source, Proved!source, Exporter!Newest, Proved!Newest
<1>6. Exporter!DropGPU => Proved!DropGPU
  BY DEF Exporter!DropGPU, Proved!DropGPU
<1>7. UNCHANGED Exporter!vars => UNCHANGED Proved!vars
  BY DEF Exporter!vars, Proved!vars
<1> QED
  BY <1>1, <1>2, <1>3, <1>4, <1>5, <1>6, <1>7 DEF Exporter!Next, Proved!Next

(* What IntegralsProofs asks of the constants.                             *)
LEMMA ProvedAssumptions ==
    /\ MetricOf \in [Field -> Metric]
    /\ None \notin Field /\ Preferred \in [Field -> Field \cup {None}]
    /\ Proved!IsFiniteSet(Field)
    /\ MaxGap \in [Field -> Nat]
    /\ MaxTime \in Nat
<1>1. Proved!IsFiniteSet(Field)
  BY IntegrationAssumption DEF IsFiniteSet, Proved!IsFiniteSet
<1> QED
  BY <1>1, IntegrationAssumption, TimeAssumption

(* The statuses and values that readWatcher comes up with, however reads   *)
(* fail, are integrated exactly; no field integrates a moment twice; no    *)
(* counter exceeds the time its fields have been observed.                 *)
THEOREM IntegratedCorrect ==
    PipelineSpec => /\ []Exporter!SpansAreExact
                    /\ []Exporter!FieldTimeOnce
                    /\ []Exporter!ObservedWithinLife
<1>1. PipelineSpec => Proved!Spec
  BY Integrates, ProvedInit, ProvedStep, PTL
     DEF IntegralsKept, Exporter!Spec, Proved!Spec
<1>2. Proved!Spec => []Proved!SpansAreExact
  BY ProvedAssumptions, Proved!SpansCorrect
<1>3. Proved!Spec => []Proved!FieldTimeOnce
  BY ProvedAssumptions, Proved!TimeOnce
<1>4. Proved!Spec => []Proved!ObservedWithinLife
  BY ProvedAssumptions, Proved!ObservedBounded
<1>5. Proved!SpansAreExact => Exporter!SpansAreExact
  BY DEF Exporter!SpansAreExact, Proved!SpansAreExact
<1>6. Proved!FieldTimeOnce => Exporter!FieldTimeOnce
  BY DEF Exporter!FieldTimeOnce, Proved!FieldTimeOnce
<1>7. Proved!ObservedWithinLife => Exporter!ObservedWithinLife
  BY DEF Exporter!ObservedWithinLife, Proved!ObservedWithinLife,
         Exporter!Cardinality, Proved!Cardinality
<1> QED
  BY <1>1, <1>2, <1>3, <1>4, <1>5, <1>6, <1>7, PTL

=============================================================================
