--------------------------- MODULE IntegralsProofs ---------------------------
(* Theorems about Integrals for any fields, gaps and bound.                 *)
EXTENDS Integrals, Functions, FiniteSetTheorems, WellFoundedInduction, TLAPS

(***************************************************************************)
(* The inductive invariant. Values come in the order of their times: what  *)
(* is still to be observed of a field lies after all that was. The time    *)
(* kept of a field, if any, is that of its newest observation.             *)
(***************************************************************************)
Types ==
    /\ now \in 0..MaxTime
    /\ pending \in [Field -> SUBSET Time] /\ queue \in [Field -> SUBSET Time]
    /\ available \in [Field -> BOOLEAN]
    /\ pc \in {"idle", "observe"}
    /\ times \in [Field -> Nat]
    /\ taken \in [Field -> SUBSET Time] /\ ends \in [Field -> SUBSET Time]
    /\ spans \in [Field -> SUBSET (Nat \X Nat)]

(* What is still to be observed of f, and what was.                        *)
Ahead(f)  == queue[f] \cup pending[f]

OrderInv(f) ==
    /\ \A t \in Ahead(f) \cup taken[f] : t <= now
    /\ \A t \in queue[f], u \in pending[f] : t < u
    /\ pc = "idle" => queue[f] = {}
    /\ \A t \in taken[f], u \in Ahead(f) : t < u

TimesInv(f) ==
    /\ times[f] # 0 => /\ times[f] \in taken[f] /\ times[f] \notin ends[f]
                       /\ \A t \in taken[f] : t <= times[f]
    /\ times[f] = 0 => \A t \in taken[f] : (\A u \in taken[f] : u <= t) => t \in ends[f]
    /\ ends[f] \subseteq taken[f]

SpansInv(f) ==
    /\ \A s \in spans[f] : s[1] \in taken[f] /\ s[2] \in taken[f] /\ s[1] < s[2]
    /\ \A r, s \in spans[f] : r # s => r[2] <= s[1] \/ s[2] <= r[1]

ExactInv(f) ==
    \A a, b \in taken[f] :
        (/\ a < b /\ \A t \in taken[f] : t <= a \/ b <= t)
        => (<<a, b>> \in spans[f] <=> b - a <= MaxGap[f] /\ a \notin ends[f])

FieldInv(f) == OrderInv(f) /\ TimesInv(f) /\ SpansInv(f) /\ ExactInv(f)

IInv == Types /\ \A f \in Field : FieldInv(f)

LEMMA InitInv == Init => IInv
<1> SUFFICES ASSUME Init PROVE IInv
  OBVIOUS
<1> USE TimeAssumption DEF Init
<1>1. Types
  BY DEF Types
<1>2. ASSUME NEW f \in Field PROVE FieldInv(f)
  BY DEF FieldInv, OrderInv, TimesInv, SpansInv, ExactInv, Ahead
<1> QED
  BY <1>1, <1>2 DEF IInv

LEMMA AdvanceInv == IInv /\ Advance => IInv'
<1> SUFFICES ASSUME IInv, Advance PROVE IInv'
  OBVIOUS
<1>1. PICK F \in SUBSET Field :
        pending' = [f \in Field |-> pending[f] \cup {t \in {now'} : f \in F}]
  BY DEF Advance
<1>2. /\ pc = "idle" /\ now < MaxTime /\ now' = now + 1
      /\ UNCHANGED <<available, pc, queue, times, observed, taken, ends, spans>>
  BY DEF Advance, history
<1>3. now \in Nat /\ now' \in Time /\ now' \in 0..MaxTime
  BY <1>2, TimeAssumption DEF IInv, Types, Time
<1>4. Types'
  BY <1>1, <1>2, <1>3 DEF IInv, Types
<1>5. ASSUME NEW f \in Field PROVE FieldInv(f)'
  <2>1. \A u \in pending'[f] : u \in pending[f] \/ u = now + 1
    BY <1>1, <1>2 DEF IInv, Types
  <2>2. \A t \in Ahead(f) \cup taken[f] : t \in Nat /\ t <= now
    BY DEF IInv, Types, FieldInv, OrderInv, Ahead, Time
  <2>3. OrderInv(f)'
    BY <1>2, <1>3, <2>1, <2>2 DEF IInv, FieldInv, OrderInv, Ahead
  <2>4. TimesInv(f)' /\ SpansInv(f)' /\ ExactInv(f)'
    BY <1>2 DEF IInv, FieldInv, TimesInv, SpansInv, ExactInv
  <2> QED
    BY <2>3, <2>4 DEF FieldInv
<1> QED
  BY <1>4, <1>5 DEF IInv

(* A pass of the client moves values from ahead into the sample, or drops. *)
LEMMA ClientPassInv ==
    ASSUME IInv, NEW upto \in Reads, ClientPass(upto), pc = "idle",
           UNCHANGED <<now, times, taken, ends, spans>>,
           \/ pc' = "idle" /\ queue' = queue
           \/ /\ pc' = "observe"
              /\ queue' = [f \in Field |-> Fetched(f, upto)]
    PROVE  IInv'
<1>1. /\ available' \in [Field -> BOOLEAN]
      /\ pending' = [f \in Field |-> pending[f] \ Fetched(f, upto)]
  BY DEF ClientPass
<1>2. Types'
  BY <1>1 DEF IInv, Types, Fetched
<1>3. ASSUME NEW f \in Field PROVE FieldInv(f)'
  <2>1. /\ pending'[f] \subseteq pending[f]
        /\ Ahead(f)' \subseteq Ahead(f)
        /\ pc' = "idle" => queue'[f] = {}
    BY <1>1 DEF IInv, Types, FieldInv, OrderInv, Ahead, Fetched
  <2>2. \A t \in queue'[f], u \in pending'[f] : t < u
    <3>1. queue[f] = {} /\ upto[f] \in Nat /\ pending[f] \subseteq Nat
      BY DEF IInv, Types, FieldInv, OrderInv, Reads, Time
    <3>2. \A t \in queue'[f] : t \in Nat /\ t < upto[f]
      BY <3>1 DEF Fetched
    <3>3. \A u \in pending'[f] : u \in Nat /\ u >= upto[f]
      BY <1>1, <3>1 DEF Fetched
    <3> QED
      BY <3>1, <3>2, <3>3
  <2>3. OrderInv(f)'
    BY <2>1, <2>2 DEF IInv, FieldInv, OrderInv
  <2>4. TimesInv(f)' /\ SpansInv(f)' /\ ExactInv(f)'
    BY DEF IInv, FieldInv, TimesInv, SpansInv, ExactInv
  <2> QED
    BY <2>3, <2>4 DEF FieldInv
<1> QED
  BY <1>2, <1>3 DEF IInv

(* An observation of f that is not skipped becomes the newest one taken,   *)
(* and is joined with the one before it if their gap may be integrated.    *)
LEMMA TakeInv ==
    ASSUME IInv, NEW f \in Field, NEW t \in queue[f], IsNext(f, t),
           pc = "observe",
           queue' = [queue EXCEPT ![f] = @ \ {t}],
           times' = [times EXCEPT ![f] = t],
           taken' = [taken EXCEPT ![f] = @ \cup {t}],
           spans' = [spans EXCEPT ![f] = @ \cup
                       {s \in {<<times[f], t>>} : observationInterval(f, t) > 0}],
           UNCHANGED <<source, pc, ends>>
    PROVE  IInv'
<1> DEFINE joined == times[f] # 0 /\ t - times[f] <= MaxGap[f]
<1>1. t \in Time /\ t \in Nat /\ t # 0 /\ times[f] \in Nat
  BY TimeAssumption DEF IInv, Types, Time
<1>2. times[f] < t
  <2>1. CASE times[f] = 0
    BY <1>1, <2>1
  <2>2. CASE times[f] # 0
    BY <2>2 DEF IInv, FieldInv, OrderInv, TimesInv, Ahead
  <2> QED
    BY <2>1, <2>2
<1>3. observationInterval(f, t) > 0 <=> joined
  BY <1>1, <1>2, GapAssumption DEF observationInterval
<1>4. /\ queue'[f] = queue[f] \ {t} /\ times'[f] = t
      /\ taken'[f] = taken[f] \cup {t}
      /\ spans'[f] = spans[f] \cup {s \in {<<times[f], t>>} : joined}
      /\ UNCHANGED <<now, pending, available, pc, ends>>
  BY <1>3 DEF IInv, Types, source
<1>5. Types'
  BY <1>1, <1>4 DEF IInv, Types
<1>6. ASSUME NEW g \in Field, g # f PROVE FieldInv(g)'
  <2>1. /\ queue'[g] = queue[g] /\ times'[g] = times[g]
        /\ taken'[g] = taken[g] /\ spans'[g] = spans[g]
    BY <1>6 DEF IInv, Types
  <2> QED
    BY <1>4, <2>1
    DEF IInv, FieldInv, OrderInv, TimesInv, SpansInv, ExactInv, Ahead
<1>7. OrderInv(f)'
  <2>1. \A u \in queue[f] \ {t} : t < u
    BY DEF IsNext, IInv, Types, Time
  <2>2. \A u \in pending[f] : t < u
    BY DEF IInv, FieldInv, OrderInv
  <2>3. t <= now
    BY DEF IInv, FieldInv, OrderInv, Ahead
  <2> QED
    BY <1>4, <2>1, <2>2, <2>3 DEF IInv, FieldInv, OrderInv, Ahead
<1>8. \A u \in taken[f] : u \in Nat /\ u < t
  BY DEF IInv, Types, FieldInv, OrderInv, Ahead, Time
<1>9. TimesInv(f)'
  <2>1. t \notin ends[f]
    BY <1>1, <1>8 DEF IInv, FieldInv, TimesInv
  <2> QED
    BY <1>1, <1>4, <1>8, <2>1 DEF IInv, FieldInv, TimesInv
<1>10. joined => /\ times[f] \in taken[f] /\ times[f] \notin ends[f]
                 /\ \A u \in taken[f] : u <= times[f]
  BY DEF IInv, FieldInv, TimesInv
<1>11. SpansInv(f)'
  <2>1. \A s \in spans[f] : /\ s[1] \in taken[f] /\ s[2] \in taken[f] /\ s[1] < s[2]
    BY DEF IInv, FieldInv, SpansInv
  <2>2. \A s \in spans'[f] : s \in spans[f] \/ (joined /\ s = <<times[f], t>>)
    BY <1>4
  <2>3. \A s \in spans[f] : joined => s[2] <= times[f]
    BY <1>10, <2>1
  <2>4. \A s \in spans'[f] : s[1] \in taken'[f] /\ s[2] \in taken'[f] /\ s[1] < s[2]
    BY <1>2, <1>4, <1>10, <2>1, <2>2
  <2>5. ASSUME NEW r \in spans'[f], NEW s \in spans'[f], r # s
        PROVE  r[2] <= s[1] \/ s[2] <= r[1]
    BY <2>2, <2>3, <2>5 DEF IInv, FieldInv, SpansInv
  <2> QED
    BY <2>4, <2>5 DEF SpansInv
<1>12. ExactInv(f)'
  <2> SUFFICES ASSUME NEW a \in taken'[f], NEW b \in taken'[f], a < b,
                      \A u \in taken'[f] : u <= a \/ b <= u
               PROVE  <<a, b>> \in spans'[f] <=> b - a <= MaxGap[f] /\ a \notin ends'[f]
    BY <1>4 DEF ExactInv
  <2>1. a \in taken[f] /\ a \in Nat
    BY <1>4, <1>8, <1>1
  <2>2. CASE b = t
    <3>1. <<a, b>> \notin spans[f]
      BY <1>8, <1>1, <2>2 DEF IInv, FieldInv, SpansInv
    <3>2. \A u \in taken[f] : u <= a
      BY <1>4, <1>8, <1>1, <2>2
    <3>3. CASE times[f] # 0
      <4>1. a = times[f] /\ a \notin ends[f]
        BY <1>1, <2>1, <3>2, <3>3 DEF IInv, FieldInv, TimesInv
      <4> QED
        BY <1>4, <2>2, <3>1, <3>3, <4>1
    <3>4. CASE times[f] = 0
      <4>1. a \in ends[f]
        BY <2>1, <3>2, <3>4 DEF IInv, FieldInv, TimesInv
      <4> QED
        BY <1>4, <3>1, <3>4, <4>1
    <3> QED
      BY <3>3, <3>4
  <2>3. CASE b # t
    <3>1. b \in taken[f]
      BY <1>4, <2>3
    <3>2. <<a, b>> \in spans'[f] <=> <<a, b>> \in spans[f]
      BY <1>4, <2>3
    <3> QED
      BY <1>4, <2>1, <3>1, <3>2 DEF IInv, FieldInv, ExactInv
  <2> QED
    BY <2>2, <2>3
<1> QED
  BY <1>5, <1>6, <1>7, <1>9, <1>11, <1>12 DEF IInv, FieldInv

LEMMA ObserveInv ==
    ASSUME IInv, NEW f \in Field, Observe(f)
    PROVE  IInv'
<1>1. PICK t \in queue[f] :
        /\ IsNext(f, t)
        /\ queue' = [queue EXCEPT ![f] = @ \ {t}]
        /\ \/ UNCHANGED <<times, observed, taken, spans>>
           \/ /\ times' = [times EXCEPT ![f] = t]
              /\ taken' = [taken EXCEPT ![f] = @ \cup {t}]
              /\ spans' = [spans EXCEPT ![f] = @ \cup
                             {s \in {<<times[f], t>>} : observationInterval(f, t) > 0}]
  BY DEF Observe
<1>2. pc = "observe" /\ UNCHANGED <<source, pc, ends>>
  BY DEF Observe
<1>3. CASE UNCHANGED <<times, observed, taken, spans>>
  <2>1. UNCHANGED <<now, pending, available, pc, ends, times, taken, spans>>
    BY <1>2, <1>3 DEF source
  <2>2. \A g \in Field : queue'[g] \subseteq queue[g]
    BY <1>1 DEF IInv, Types
  <2>3. Types'
    BY <1>1, <2>1, <2>2 DEF IInv, Types
  <2>4. ASSUME NEW g \in Field PROVE FieldInv(g)'
    BY <2>1, <2>2
    DEF IInv, FieldInv, OrderInv, TimesInv, SpansInv, ExactInv, Ahead
  <2> QED
    BY <2>3, <2>4 DEF IInv
<1> QED
  BY <1>1, <1>2, <1>3, TakeInv

LEMMA ResetInv == IInv /\ ResetUnavailable => IInv'
<1> SUFFICES ASSUME IInv, ResetUnavailable PROVE IInv'
  OBVIOUS
<1>1. /\ pc' = "idle" /\ \A f \in Field : queue[f] = {}
      /\ times' = [f \in Field |-> IF available[f] THEN times[f] ELSE 0]
      /\ ends' = [f \in Field |-> ends[f] \cup {t \in Newest(taken[f]) : ~available[f]}]
      /\ UNCHANGED <<now, pending, available, queue, observed, taken, spans>>
  BY DEF ResetUnavailable, source
<1>2. Types'
  BY <1>1 DEF IInv, Types, Newest
<1>3. ASSUME NEW f \in Field PROVE FieldInv(f)'
  <2>1. OrderInv(f)' /\ SpansInv(f)'
    BY <1>1 DEF IInv, FieldInv, OrderInv, SpansInv, Ahead
  <2>2. CASE available[f]
    <3>1. times'[f] = times[f] /\ ends'[f] = ends[f]
      BY <1>1, <2>2
    <3> QED
      BY <1>1, <2>1, <3>1 DEF IInv, FieldInv, TimesInv, ExactInv
  <2>3. CASE ~available[f]
    <3>1. times'[f] = 0 /\ ends'[f] = ends[f] \cup Newest(taken[f])
      BY <1>1, <2>3
    <3>2. TimesInv(f)'
      BY <1>1, <3>1 DEF IInv, FieldInv, TimesInv, Newest
    <3>3. \A a, b \in taken[f] : a < b => a \notin Newest(taken[f])
      BY DEF Newest, IInv, Types, Time
    <3>4. ExactInv(f)'
      BY <1>1, <3>1, <3>3 DEF IInv, FieldInv, ExactInv
    <3> QED
      BY <2>1, <3>2, <3>4 DEF FieldInv
  <2> QED
    BY <2>2, <2>3
<1> QED
  BY <1>2, <1>3 DEF IInv

LEMMA DropInv == IInv /\ DropGPU => IInv'
<1> SUFFICES ASSUME IInv, DropGPU PROVE IInv'
  OBVIOUS
<1>1. /\ pc = "idle" /\ UNCHANGED <<now, pc, queue>>
      /\ times' = [f \in Field |-> 0]
      /\ taken' = [f \in Field |-> {}] /\ ends' = [f \in Field |-> {}]
      /\ spans' = [f \in Field |-> {}]
      /\ \/ UNCHANGED <<pending, available>>
         \/ /\ pending' = [f \in Field |-> {}]
            /\ available' = [f \in Field |-> FALSE]
  BY DEF DropGPU
<1>2. Types'
  BY <1>1 DEF IInv, Types
<1>3. ASSUME NEW f \in Field PROVE FieldInv(f)'
  <2>1. /\ queue'[f] = {} /\ pending'[f] \subseteq pending[f]
        /\ times'[f] = 0 /\ taken'[f] = {} /\ ends'[f] = {} /\ spans'[f] = {}
    BY <1>1 DEF IInv, FieldInv, OrderInv
  <2> QED
    BY <1>1, <2>1
    DEF IInv, FieldInv, OrderInv, TimesInv, SpansInv, ExactInv, Ahead
<1> QED
  BY <1>2, <1>3 DEF IInv

LEMMA NextInv == IInv /\ [Next]_vars => IInv'
<1> SUFFICES ASSUME IInv, [Next]_vars PROVE IInv'
  OBVIOUS
<1>1. CASE Advance
  BY <1>1, AdvanceInv
<1>2. CASE LoseSample
  <2>1. PICK upto \in Reads : ClientPass(upto)
    BY <1>2 DEF LoseSample
  <2>2. /\ pc = "idle" /\ pc' = "idle" /\ queue' = queue
        /\ UNCHANGED <<now, times, taken, ends, spans>>
    BY <1>2 DEF LoseSample, history
  <2> QED
    BY <2>1, <2>2, ClientPassInv
<1>3. CASE StartSample
  <2>1. PICK upto \in Reads :
          /\ ClientPass(upto)
          /\ queue' = [f \in Field |-> Fetched(f, upto)]
    BY <1>3 DEF StartSample
  <2>2. /\ pc = "idle" /\ pc' = "observe"
        /\ UNCHANGED <<now, times, taken, ends, spans>>
    BY <1>3 DEF StartSample, history
  <2> QED
    BY <2>1, <2>2, ClientPassInv
<1>4. ASSUME NEW f \in Field, Observe(f) PROVE IInv'
  BY <1>4, ObserveInv
<1>5. CASE ResetUnavailable
  BY <1>5, ResetInv
<1>6. CASE DropGPU
  BY <1>6, DropInv
<1>7. CASE UNCHANGED vars
  BY <1>7
  DEF vars, IInv, Types, FieldInv, OrderInv, TimesInv, SpansInv, ExactInv, Ahead
<1> QED
  BY <1>1, <1>2, <1>3, <1>4, <1>5, <1>6, <1>7 DEF Next

LEMMA Invariant == Spec => []IInv
<1> QED
  BY InitInv, NextInv, PTL DEF Spec

(* A field integrates no moment twice.                                     *)
THEOREM TimeOnce == Spec => []FieldTimeOnce
<1>1. IInv => FieldTimeOnce
  BY DEF IInv, FieldInv, SpansInv, FieldTimeOnce
<1> QED
  BY <1>1, Invariant, PTL

(* A field integrates exactly the gaps that are short and unbroken.        *)
THEOREM SpansCorrect == Spec => []SpansAreExact
<1>1. IInv => SpansAreExact
  BY DEF IInv, FieldInv, ExactInv, SpansAreExact
<1> QED
  BY <1>1, Invariant, PTL

(***************************************************************************)
(* Types                                                                   *)
(***************************************************************************)
ObservedType == observed \in [Metric -> Nat]

(* No observation takes time off a counter.                                *)
LEMMA ObservedNext == IInv /\ ObservedType /\ [Next]_vars => ObservedType'
<1> SUFFICES ASSUME IInv, ObservedType, [Next]_vars PROVE ObservedType'
  OBVIOUS
<1>1. ASSUME NEW f \in Field, Observe(f) PROVE ObservedType'
  <2>1. PICK t \in queue[f] :
           \/ observed' = observed
           \/ observed' = [observed EXCEPT ![MetricOf[f]] = @ + observationInterval(f, t)]
    BY <1>1 DEF Observe
  <2>2. t \in Nat /\ times[f] \in Nat /\ MaxGap[f] \in Nat
    BY GapAssumption DEF IInv, Types, Time
  <2>3. observationInterval(f, t) \in Nat
    BY <2>2 DEF observationInterval
  <2>4. MetricOf[f] \in Metric
    BY FieldsAssumption
  <2> QED
    BY <2>1, <2>3, <2>4 DEF ObservedType
<1>2. CASE DropGPU
  BY <1>2 DEF DropGPU, ObservedType
<1>3. CASE ~DropGPU /\ ~\E f \in Field : Observe(f)
  BY <1>3 DEF Next, Advance, LoseSample, StartSample, ResetUnavailable, vars, ObservedType
<1> QED
  BY <1>1, <1>2, <1>3

(* The totals and the observation times keep their types: no counter goes  *)
(* backwards below zero, no time lies ahead of what DCGM recorded, and no  *)
(* span ends before it begins.                                             *)
THEOREM TypeCorrect == Spec => []TypeOK
<1>1. Init => ObservedType
  BY DEF Init, ObservedType
<1>2. IInv /\ ObservedType => TypeOK
  <2> SUFFICES ASSUME IInv, ObservedType PROVE TypeOK
    OBVIOUS
  <2>1. ASSUME NEW f \in Field PROVE times[f] \in 0..MaxTime
    <3>1. times[f] = 0 \/ times[f] \in Time
      BY DEF IInv, Types, FieldInv, TimesInv
    <3> QED
      BY <3>1, TimeAssumption DEF Time
  <2>2. times \in [Field -> 0..MaxTime]
    BY <2>1 DEF IInv, Types
  <2>3. ASSUME NEW f \in Field, NEW s \in spans[f] PROVE s \in Span
    <3>1. s \in Nat \X Nat /\ s[1] \in Time /\ s[2] \in Time /\ s[1] < s[2]
      BY DEF IInv, Types, FieldInv, SpansInv
    <3>2. s = <<s[1], s[2]>>
      BY <3>1
    <3> QED
      BY <3>1, <3>2 DEF Span
  <2>4. spans \in [Field -> SUBSET Span]
    BY <2>3 DEF IInv, Types
  <2> QED
    BY <2>2, <2>4 DEF IInv, Types, ObservedType, TypeOK
<1>3. IInv /\ ObservedType /\ [Next]_vars => (IInv /\ ObservedType)'
  BY NextInv, ObservedNext
<1> QED
  BY <1>1, <1>2, <1>3, InitInv, PTL DEF Spec

(***************************************************************************)
(* The total of a metric                                                   *)
(*                                                                         *)
(* A total is the sum of what its fields have put in. The invariant keeps  *)
(* the partial sums over the fields, in any order e of them: each field    *)
(* puts in no more than the time between two of its observations.          *)
(***************************************************************************)
Fed(m) == {f \in Field : MetricOf[f] = m}
Orders(m) == Bijection(1..Cardinality(Fed(m)), Fed(m))

PartialSums(m, e, run) ==
    /\ run[0] = 0 /\ run[Cardinality(Fed(m))] = observed[m]
    /\ \A i \in 1..Cardinality(Fed(m)) :
         \/ run[i] = run[i - 1]
         \/ \E a, b \in taken[e[i]] : run[i] - run[i - 1] <= b - a

ShareInv ==
    \A m \in Metric : \A e \in Orders(m) :
        \E run \in [0..Cardinality(Fed(m)) -> Nat] : PartialSums(m, e, run)

LEMMA FedIsFinite ==
    ASSUME NEW m
    PROVE  /\ Cardinality(Fed(m)) \in Nat
           /\ Orders(m) # {}
           /\ \A e \in Orders(m) : /\ \A i \in 1..Cardinality(Fed(m)) : e[i] \in Fed(m)
                                   /\ \A f \in Fed(m) : \E i \in 1..Cardinality(Fed(m)) : e[i] = f
                                   /\ \A i, j \in 1..Cardinality(Fed(m)) : e[i] = e[j] => i = j
<1>1. IsFiniteSet(Fed(m))
  BY FiniteAssumption, FS_Subset DEF Fed
<1>2. Cardinality(Fed(m)) \in Nat /\ ExistsBijection(1..Cardinality(Fed(m)), Fed(m))
  BY <1>1, FS_CardinalityType
<1>3. Orders(m) # {}
  BY <1>2 DEF ExistsBijection, Orders
<1>4. ASSUME NEW e \in Orders(m)
      PROVE  /\ \A i \in 1..Cardinality(Fed(m)) : e[i] \in Fed(m)
             /\ \A f \in Fed(m) : \E i \in 1..Cardinality(Fed(m)) : e[i] = f
             /\ \A i, j \in 1..Cardinality(Fed(m)) : e[i] = e[j] => i = j
  BY DEF Orders, Bijection, Injection, Surjection, IsInjective
<1> QED
  BY <1>2, <1>3, <1>4

(* A non-empty set of natural numbers has a least element, and a greatest  *)
(* one if it has a bound.                                                  *)
LEMMA Least ==
    ASSUME NEW S \in SUBSET Nat, S # {}
    PROVE  \E t \in S : \A u \in S : t <= u
<1> DEFINE R == OpToRel(<, Nat)
<1>1. IsWellFoundedOn(R, Nat)
  BY NatLessThanWellFounded
<1>2. \A x, y \in Nat : y < x => <<y, x>> \in R
  BY DEF OpToRel
<1> HIDE DEF R
<1>3. PICK t \in S : \A y \in S : ~(<<y, t>> \in R)
  BY <1>1, WFMin
<1>4. \A y \in S : ~(y < t)
  BY <1>2, <1>3
<1> QED
  BY <1>4

LEMMA Greatest ==
    ASSUME NEW S \in SUBSET Nat, S # {}, NEW b \in Nat, \A x \in S : x <= b
    PROVE  \E t \in S : \A u \in S : u <= t
<1> DEFINE T == {b - x : x \in S}
<1>1. T \subseteq Nat /\ T # {}
  <2>1. \A x \in S : b - x \in Nat
    OBVIOUS
  <2>2. PICK s \in S : TRUE
    OBVIOUS
  <2>3. b - s \in T
    OBVIOUS
  <2> QED
    BY <2>1, <2>3
<1> HIDE DEF T
<1>2. PICK m \in T : \A y \in T : m <= y
  BY <1>1, Least
<1>3. PICK t \in S : m = b - t
  BY <1>2 DEF T
<1>4. ASSUME NEW u \in S PROVE u <= t
  <2>1. b - u \in T
    BY DEF T
  <2>2. b - t <= b - u /\ t \in Nat /\ u \in Nat
    BY <1>2, <1>3, <2>1
  <2> QED
    BY <2>2
<1> QED
  BY <1>4

(* Steps of at most D from 0 lead to at most k * D after k of them.        *)
LEMMA StepsBound ==
    ASSUME NEW k \in Nat, NEW D \in Nat, NEW run \in [0..k -> Nat],
           run[0] = 0, \A i \in 1..k : run[i] <= run[i - 1] + D
    PROVE  run[k] <= k * D
<1> DEFINE over == {i \in 0..k : ~(run[i] <= i * D)}
<1> SUFFICES ASSUME over # {} PROVE FALSE
  <2>1. k \in 0..k
    OBVIOUS
  <2> QED
    BY <2>1
<1>1. over \in SUBSET Nat
  OBVIOUS
<1> HIDE DEF over
<1>2. PICK i \in over : \A j \in over : i <= j
  BY <1>1, Least
<1>3. i \in 0..k /\ ~(run[i] <= i * D)
  BY <1>2 DEF over
<1>4. i # 0
  BY <1>3
<1>5. i - 1 \in 0..k /\ i - 1 \notin over /\ i \in 1..k
  BY <1>2, <1>3, <1>4
<1>6. run[i - 1] <= (i - 1) * D
  BY <1>5 DEF over
<1>7. run[i] <= (i - 1) * D + D
  <2>1. run[i] \in Nat /\ run[i - 1] \in Nat /\ run[i] <= run[i - 1] + D
    BY <1>5, <1>3
  <2>2. (i - 1) * D \in Int
    BY <1>3
  <2> QED
    BY <1>6, <2>1, <2>2
<1>8. (i - 1) * D + D = i * D
  BY <1>3
<1> QED
  BY <1>3, <1>7, <1>8

LEMMA InitShares == Init => ShareInv
<1> SUFFICES ASSUME Init, NEW m \in Metric, NEW e \in Orders(m)
             PROVE  \E run \in [0..Cardinality(Fed(m)) -> Nat] : PartialSums(m, e, run)
  BY DEF ShareInv
<1> DEFINE run == [i \in 0..Cardinality(Fed(m)) |-> 0]
<1>1. Cardinality(Fed(m)) \in Nat
  BY FedIsFinite
<1>2. run \in [0..Cardinality(Fed(m)) -> Nat]
  OBVIOUS
<1>3. PartialSums(m, e, run)
  BY <1>1 DEF PartialSums, Init
<1> QED
  BY <1>2, <1>3

(* A step that leaves the totals alone and forgets no observation.         *)
LEMMA KeptShares ==
    ASSUME ShareInv, observed' = observed, \A f \in Field : taken[f] \subseteq taken'[f]
    PROVE  ShareInv'
<1> SUFFICES ASSUME NEW m \in Metric, NEW e \in Orders(m)
             PROVE  (\E run \in [0..Cardinality(Fed(m)) -> Nat] : PartialSums(m, e, run))'
  BY DEF ShareInv, Orders, Fed
<1>1. PICK run \in [0..Cardinality(Fed(m)) -> Nat] : PartialSums(m, e, run)
  BY DEF ShareInv
<1>2. \A i \in 1..Cardinality(Fed(m)) : e[i] \in Field
  BY FedIsFinite DEF Fed
<1>3. \A i \in 1..Cardinality(Fed(m)) : taken[e[i]] \subseteq taken'[e[i]]
  BY <1>2
<1>4. PartialSums(m, e, run)'
  <2>1. run[0] = 0 /\ run[Cardinality(Fed(m))] = observed'[m]
    BY <1>1 DEF PartialSums
  <2>2. ASSUME NEW i \in 1..Cardinality(Fed(m)), run[i] # run[i - 1]
        PROVE  \E a, b \in taken'[e[i]] : run[i] - run[i - 1] <= b - a
    BY <1>1, <1>3, <2>2 DEF PartialSums
  <2> QED
    BY <2>1, <2>2 DEF PartialSums, Fed
<1> QED
  BY <1>4 DEF Fed

(* An observation of the field at place j raises the partial sums from j   *)
(* on: the share of that field alone.                                      *)
LEMMA TakeShares ==
    ASSUME IInv, ShareInv, NEW f \in Field, NEW t \in queue[f],
           times' = [times EXCEPT ![f] = t],
           observed' = [observed EXCEPT ![MetricOf[f]] = @ + observationInterval(f, t)],
           taken' = [taken EXCEPT ![f] = @ \cup {t}],
           observed \in [Metric -> Nat]
    PROVE  ShareInv'
<1> DEFINE dt == observationInterval(f, t)
           home == MetricOf[f]
<1>1. t \in Nat /\ times[f] \in Nat /\ MaxGap[f] \in Nat
  <2>1. queue[f] \subseteq Nat
    BY TimeAssumption DEF IInv, Types, Time
  <2>2. times[f] \in Nat
    BY DEF IInv, Types
  <2> QED
    BY <2>1, <2>2, GapAssumption
<1>2. dt \in Nat
  BY <1>1 DEF observationInterval
<1>3. dt # 0 => /\ times[f] \in taken[f] /\ dt = t - times[f]
                /\ \A u \in taken[f] : u \in Nat /\ u <= times[f]
  BY <1>1 DEF observationInterval, IInv, FieldInv, TimesInv, Types, Time
<1>4. /\ home \in Metric /\ observed'[home] = observed[home] + dt
      /\ \A m \in Metric : m # home => observed'[m] = observed[m]
      /\ taken'[f] = taken[f] \cup {t}
      /\ \A g \in Field : g # f => taken'[g] = taken[g]
  BY FieldsAssumption DEF IInv, Types
<1> HIDE DEF dt, home
<1> SUFFICES ASSUME NEW m \in Metric, NEW e \in Orders(m)
             PROVE  (\E run \in [0..Cardinality(Fed(m)) -> Nat] : PartialSums(m, e, run))'
  BY DEF ShareInv, Orders, Fed
<1> DEFINE k == Cardinality(Fed(m))
<1>5. PICK run \in [0..k -> Nat] : PartialSums(m, e, run)
  BY DEF ShareInv
<1>6. /\ k \in Nat /\ \A i \in 1..k : e[i] \in Fed(m)
      /\ \A g \in Fed(m) : \E i \in 1..k : e[i] = g
      /\ \A i, j \in 1..k : e[i] = e[j] => i = j
  BY FedIsFinite
<1> HIDE DEF k
<1>7. CASE m # home
  <2>1. \A i \in 1..k : e[i] # f
    BY <1>6, <1>7 DEF Fed, home
  <2>2. PartialSums(m, e, run)'
    <3>1. run[0] = 0 /\ run[k] = observed'[m]
      BY <1>4, <1>5, <1>7 DEF PartialSums, k
    <3>2. \A i \in 1..k : taken'[e[i]] = taken[e[i]]
      BY <1>4, <1>6, <2>1 DEF Fed
    <3>3. \A i \in 1..k : \/ run[i] = run[i - 1]
                          \/ \E a, b \in taken'[e[i]] : run[i] - run[i - 1] <= b - a
      BY <1>5, <3>2 DEF PartialSums, k
    <3> QED
      BY <3>1, <3>3 DEF PartialSums, k, Fed
  <2> QED
    BY <2>2 DEF Fed, k
<1>8. CASE m = home
  <2>1. PICK j \in 1..k : e[j] = f
    BY <1>6, <1>8 DEF Fed, home
  <2>2. \A i \in 1..k : e[i] = f => i = j
    BY <1>6, <2>1
  <2> DEFINE next == [i \in 0..k |-> IF i >= j THEN run[i] + dt ELSE run[i]]
  <2>3. next \in [0..k -> Nat]
    BY <1>2
  <2>4. next[0] = 0 /\ next[k] = observed'[m]
    BY <1>4, <1>5, <1>6, <1>8, <2>1 DEF PartialSums, k
  <2>5. ASSUME NEW i \in 1..k
        PROVE  \/ next[i] = next[i - 1]
               \/ \E a, b \in taken'[e[i]] : next[i] - next[i - 1] <= b - a
    <3>1. i \in 0..k /\ i - 1 \in 0..k /\ run[i] \in Nat /\ run[i - 1] \in Nat
      BY <1>6
    <3>2. \/ run[i] = run[i - 1]
          \/ \E a, b \in taken[e[i]] : run[i] - run[i - 1] <= b - a
      BY <1>5 DEF PartialSums, k
    <3>3. CASE i # j
      <4>1. next[i] - next[i - 1] = run[i] - run[i - 1]
        BY <1>2, <2>1, <3>1, <3>3
      <4>2. taken'[e[i]] = taken[e[i]]
        BY <1>4, <1>6, <2>2, <3>3 DEF Fed
      <4>3. next[i] = next[i - 1] <=> run[i] = run[i - 1]
        BY <1>2, <2>1, <3>1, <3>3
      <4> QED
        BY <3>2, <4>1, <4>2, <4>3
    <3>4. CASE i = j
      <4>1. next[i] = run[i] + dt /\ next[i - 1] = run[i - 1]
        BY <2>1, <3>1, <3>4
      <4>2. CASE dt = 0
        <5>1. next[i] = run[i] /\ next[i - 1] = run[i - 1]
          BY <3>1, <4>1, <4>2
        <5>2. taken[e[i]] \subseteq taken'[e[i]]
          BY <1>4, <2>1, <3>4
        <5> QED
          BY <3>2, <5>1, <5>2
      <4>3. CASE dt # 0
        <5>1. /\ times[f] \in taken'[e[i]] /\ t \in taken'[e[i]]
              /\ taken[f] \subseteq taken'[e[i]]
          BY <1>3, <1>4, <2>1, <3>4, <4>3
        <5>2. CASE run[i] = run[i - 1]
          <6>1. next[i] - next[i - 1] <= t - times[f]
            BY <1>1, <1>3, <3>1, <4>1, <4>3, <5>2
          <6> QED
            BY <5>1, <6>1
        <5>3. CASE \E a, b \in taken[f] : run[i] - run[i - 1] <= b - a
          <6>1. PICK a \in taken[f], b \in taken[f] : run[i] - run[i - 1] <= b - a
            BY <5>3
          <6>2. a \in Nat /\ b \in Nat /\ b <= times[f]
            BY <1>3, <4>3
          <6>3. next[i] - next[i - 1] <= t - a
            BY <1>1, <1>3, <3>1, <4>1, <4>3, <6>1, <6>2
          <6> QED
            BY <5>1, <6>1, <6>3
        <5> QED
          BY <2>1, <3>2, <3>4, <5>2, <5>3
      <4> QED
        BY <4>2, <4>3
    <3> QED
      BY <3>3, <3>4
  <2> HIDE DEF next
  <2>6. PICK sums \in [0..k -> Nat] : sums = next
    BY <2>3
  <2>7. PartialSums(m, e, sums)'
    BY <2>4, <2>5, <2>6 DEF PartialSums, k, Fed
  <2> QED
    BY <2>7 DEF Fed, k
<1> QED
  BY <1>7, <1>8

LEMMA NextShares ==
    IInv /\ ShareInv /\ observed \in [Metric -> Nat] /\ [Next]_vars => ShareInv'
<1> SUFFICES ASSUME IInv, ShareInv, observed \in [Metric -> Nat], [Next]_vars
             PROVE  ShareInv'
  OBVIOUS
<1>1. ASSUME NEW f \in Field, Observe(f) PROVE ShareInv'
  <2>1. PICK t \in queue[f] :
          \/ UNCHANGED <<times, observed, taken, spans>>
          \/ /\ times' = [times EXCEPT ![f] = t]
             /\ observed' = [observed EXCEPT ![MetricOf[f]] = @ + observationInterval(f, t)]
             /\ taken' = [taken EXCEPT ![f] = @ \cup {t}]
    BY <1>1 DEF Observe
  <2>2. CASE UNCHANGED <<times, observed, taken, spans>>
    BY <2>2, KeptShares
  <2> QED
    BY <2>1, <2>2, TakeShares
<1>2. CASE DropGPU
  <2> SUFFICES ASSUME NEW m \in Metric, NEW e \in Orders(m)
               PROVE  (\E run \in [0..Cardinality(Fed(m)) -> Nat] : PartialSums(m, e, run))'
    BY DEF ShareInv, Orders, Fed
  <2> DEFINE k == Cardinality(Fed(m))
  <2>1. k \in Nat /\ observed'[m] = 0
    BY <1>2, FedIsFinite DEF DropGPU
  <2> HIDE DEF k
  <2>2. PICK none \in [0..k -> Nat] : \A i \in 0..k : none[i] = 0
    <3>1. [i \in 0..k |-> 0] \in [0..k -> Nat]
      OBVIOUS
    <3> QED
      BY <3>1
  <2>3. none[0] = 0 /\ none[k] = 0 /\ \A i \in 1..k : none[i] = none[i - 1]
    BY <2>1, <2>2
  <2>4. PartialSums(m, e, none)'
    BY <2>1, <2>3 DEF PartialSums, k, Fed
  <2> QED
    BY <2>4 DEF k, Fed
<1>3. CASE ~DropGPU /\ ~\E f \in Field : Observe(f)
  <2>1. observed' = observed /\ taken' = taken
    BY <1>3
    DEF Next, Advance, LoseSample, StartSample, ResetUnavailable, vars, history
  <2> QED
    BY <2>1, KeptShares
<1> QED
  BY <1>1, <1>2, <1>3

(* The oldest and the newest observation of the fields that feed a metric. *)
LEMMA SharesBound == IInv /\ ShareInv => ObservedWithinLife
<1> SUFFICES ASSUME IInv, ShareInv, NEW m \in Metric, observed[m] # 0
             PROVE  \E a, b \in UNION {taken[f] : f \in Fed(m)} :
                        observed[m] <= Cardinality(Fed(m)) * (b - a)
  BY DEF ObservedWithinLife, Fed
<1> DEFINE k == Cardinality(Fed(m))
           seen == UNION {taken[f] : f \in Fed(m)}
<1>1. PICK e \in Orders(m) : TRUE
  BY FedIsFinite
<1>2. k \in Nat /\ \A i \in 1..k : e[i] \in Fed(m)
  BY FedIsFinite
<1>3. PICK run \in [0..k -> Nat] : PartialSums(m, e, run)
  BY DEF ShareInv
<1>4. /\ run[0] = 0 /\ run[k] = observed[m]
      /\ \A i \in 1..k : \/ run[i] = run[i - 1]
                         \/ \E a, b \in taken[e[i]] : run[i] - run[i - 1] <= b - a
  BY <1>3 DEF PartialSums
<1>5. \A i \in 1..k : taken[e[i]] \subseteq seen
  BY <1>2
<1>6. seen \in SUBSET Nat /\ \A u \in seen : u <= MaxTime
  BY TimeAssumption DEF IInv, Types, Time, Fed
<1> HIDE DEF k, seen
<1>7. \A i \in 1..k : run[i] \in Nat /\ run[i - 1] \in Nat
  BY <1>2
<1>8. seen # {}
  <2> SUFFICES ASSUME seen = {} PROVE FALSE
    OBVIOUS
  <2>1. \A i \in 1..k : run[i] <= run[i - 1] + 0
    <3>1. \A i \in 1..k : taken[e[i]] = {}
      BY <1>5
    <3>2. \A i \in 1..k : run[i] = run[i - 1]
      BY <1>4, <3>1
    <3> QED
      BY <1>7, <3>2
  <2>2. run[k] <= k * 0
    BY <1>2, <1>4, <2>1, StepsBound
  <2>3. run[k] \in Nat /\ k * 0 = 0
    BY <1>2
  <2> QED
    BY <1>4, <2>2, <2>3
<1>9. PICK a \in seen : \A u \in seen : a <= u
  BY <1>6, <1>8, Least
<1>10. PICK b \in seen : \A u \in seen : u <= b
  BY <1>6, <1>8, TimeAssumption, Greatest
<1>11. b - a \in Nat
  BY <1>6, <1>9
<1>12. \A i \in 1..k : run[i] <= run[i - 1] + (b - a)
  <2> TAKE i \in 1..k
  <2>1. CASE run[i] = run[i - 1]
    BY <1>7, <1>11, <2>1
  <2>2. CASE \E c, d \in taken[e[i]] : run[i] - run[i - 1] <= d - c
    <3>1. PICK c \in seen, d \in seen : run[i] - run[i - 1] <= d - c
      BY <1>5, <2>2
    <3>2. a <= c /\ d <= b /\ c \in Nat /\ d \in Nat /\ a \in Nat /\ b \in Nat
      BY <1>6, <1>9, <1>10
    <3> QED
      BY <1>7, <3>1, <3>2
  <2> QED
    BY <1>4, <2>1, <2>2
<1>13. observed[m] <= k * (b - a)
  BY <1>2, <1>4, <1>11, <1>12, StepsBound
<1> QED
  BY <1>13 DEF k, seen

(* A counter never exceeds the time its series has been observed, once for *)
(* each field that feeds it.                                               *)
THEOREM ObservedBounded == Spec => []ObservedWithinLife
<1>1. Init => observed \in [Metric -> Nat]
  BY DEF Init
<1>2. IInv /\ observed \in [Metric -> Nat] /\ [Next]_vars => (observed \in [Metric -> Nat])'
  BY ObservedNext DEF ObservedType
<1> QED
  BY <1>1, <1>2, InitInv, NextInv, InitShares, NextShares, SharesBound, PTL DEF Spec

=============================================================================
