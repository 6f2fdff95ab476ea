---------------------------- MODULE WindowsProofs ----------------------------
(* Theorems about Windows for any bounds.                                   *)
EXTENDS Windows, TLAPS, FiniteSetTheorems, WellFoundedInduction

(***************************************************************************)
(* The inductive invariant: what the exporter would count if it read the   *)
(* device now stays within what the device has counted.                    *)
(***************************************************************************)
CounterInv ==
    /\ device \in Nat /\ events \in Nat /\ device <= events
    /\ previous = None <=> counter = None
    /\ counter # None =>
          /\ counter \in Nat /\ previous \in Nat
          /\ previous <= counter
          /\ counter + Delta(device) <= events

LEMMA InitInv == Init => CounterInv
  BY BoundsAssumption DEF Init, CounterInv

LEMMA NextInv == CounterInv /\ [Next]_vars => CounterInv'
<1> SUFFICES ASSUME CounterInv, [Next]_vars PROVE CounterInv'
  OBVIOUS
<1> USE NoneAssumption DEF CounterInv, Delta
<1>1. CASE Event
  BY <1>1 DEF Event, hardware
<1>2. CASE Reset
  BY <1>2 DEF Reset, hardware
<1>3. CASE StartSample \/ PublishWindow \/ UNCHANGED vars
  BY <1>3 DEF StartSample, PublishWindow, hardware, vars
<1>4. ASSUME NEW v \in Level, Observe(v) PROVE CounterInv'
  BY <1>4 DEF Observe, hardware
<1>5. CASE EndSample
  <2>1. UNCHANGED <<device, events>>
    BY <1>5 DEF EndSample
  <2>2. CASE UNCHANGED hardware
    BY <2>1, <2>2 DEF hardware
  <2>3. CASE /\ counter' = (IF counter = None THEN 0 ELSE counter) + Delta(device)
             /\ previous' = device
    <3>1. CASE counter = None
      BY <2>1, <2>3, <3>1
    <3>2. CASE counter # None
      BY <2>1, <2>3, <3>2
    <3> QED
      BY <3>1, <3>2
  <2> QED
    BY <1>5, <2>2, <2>3 DEF EndSample
<1>6. CASE DropGPU
  BY <1>6 DEF DropGPU
<1> QED
  BY <1>1, <1>2, <1>3, <1>4, <1>5, <1>6 DEF Next

(* The exported counter stays between the device's latest reading and all  *)
(* that the device has counted, over resets and absences of the GPU.       *)
THEOREM CounterCorrect == Spec => []CounterIsBounded
<1>1. CounterInv => CounterIsBounded
  BY NoneAssumption DEF CounterInv, CounterIsBounded, Delta
<1> QED
  BY <1>1, InitInv, NextInv, PTL DEF Spec

-----------------------------------------------------------------------------
(***************************************************************************)
(* Types                                                                   *)
(***************************************************************************)
Spell == [time : 1..MaxTime, active : BOOLEAN]

LEMMA InitTypes == Init => TypeOK
<1> SUFFICES ASSUME Init PROVE TypeOK
  OBVIOUS
<1>1. device \in Nat /\ events \in Nat /\ time \in 0..MaxTime /\ 0 \in 0..MaxTime
  BY BoundsAssumption DEF Init
<1>2. present \in BOOLEAN /\ activity \in [active : BOOLEAN, from : 0..MaxTime]
  BY <1>1 DEF Init
<1>3. window \in Stats
  BY DEF Init, Stats, NoStats
<1> QED
  BY <1>1, <1>2, <1>3 DEF Init, TypeOK

LEMMA ObserveTypes ==
    ASSUME TypeOK, NEW v \in Level, Observe(v)
    PROVE  TypeOK'
<1>1. PICK t \in (time + 1)..MaxTime :
         /\ time' = t /\ activity' = ActivityAfter(v, t)
         /\ requests' \in {requests, requests + 1}
         /\ spells' = Append(spells, [time |-> t, active |-> IsActive(v)])
  BY DEF Observe
<1>2. v \in Nat /\ t \in 1..MaxTime /\ t \in 0..MaxTime
  BY LevelAssumption, BoundsAssumption DEF TypeOK
<1>3. IsActive(v) \in BOOLEAN
  BY DEF IsActive
<1>4. [time |-> t, active |-> IsActive(v)] \in Spell
  BY <1>2, <1>3 DEF Spell
<1>5. spells' \in Seq(Spell)
  BY <1>1, <1>4 DEF TypeOK, Spell
<1>6. activity' \in [active : BOOLEAN, from : 0..MaxTime]
  BY <1>1, <1>2, <1>3 DEF TypeOK, ActivityAfter
<1>7. window' \in Stats
  <2>1. window \in Stats /\ window' = WindowWith(window, v)
    BY DEF Observe, TypeOK
  <2> QED
    BY <1>2, <2>1 DEF Stats, WindowWith
<1>8. current' \in Seq(Level)
  BY DEF Observe, TypeOK
<1> QED
  BY <1>1, <1>2, <1>5, <1>6, <1>7, <1>8 DEF Observe, TypeOK, Spell, hardware

LEMMA NextTypes == TypeOK /\ [Next]_vars => TypeOK'
<1> SUFFICES ASSUME TypeOK, [Next]_vars PROVE TypeOK'
  OBVIOUS
<1> USE BoundsAssumption DEF TypeOK, windows, requestv, hardware
<1>1. CASE Event \/ Reset
  <2>1. device' \in Nat /\ events' \in Nat
    BY <1>1 DEF Event, Reset
  <2>2. UNCHANGED <<pc, present, time, windows, requestv, hardware>>
    BY <1>1 DEF Event, Reset
  <2> QED
    BY <2>1, <2>2
<1>2. CASE StartSample
  BY <1>2 DEF StartSample
<1>3. ASSUME NEW v \in Level, Observe(v) PROVE TypeOK'
  BY <1>3, ObserveTypes
<1>4. CASE EndSample
  <2>1. Delta(device) \in Nat
    BY DEF Delta
  <2>2. previous' \in Nat \cup {None} /\ counter' \in Nat \cup {None}
    BY <1>4, <2>1 DEF EndSample
  <2> QED
    BY <1>4, <2>2 DEF EndSample
<1>5. CASE PublishWindow
  BY <1>5 DEF PublishWindow, Stats, NoStats
<1>6. CASE DropGPU
  <2>1. requests' \in Nat /\ forgotten' \in Nat
    BY <1>6 DEF DropGPU
  <2>2. present' \in BOOLEAN
    BY <1>6 DEF DropGPU
  <2>3. closed' \in Seq(Level)
    BY <1>6 DEF DropGPU
  <2> QED
    BY <1>6, <2>1, <2>2, <2>3 DEF DropGPU
<1>7. CASE UNCHANGED vars
  BY <1>7 DEF vars
<1> QED
  BY <1>1, <1>2, <1>3, <1>4, <1>5, <1>6, <1>7 DEF Next

(* The accumulators keep their types, however GPUs come and go.            *)
THEOREM TypeCorrect == Spec => []TypeOK
  BY InitTypes, NextTypes, PTL DEF Spec

-----------------------------------------------------------------------------
(***************************************************************************)
(* Requests. The tracker holds, of the observations so far, whether the    *)
(* last one was active and when the spell it belongs to began.             *)
(***************************************************************************)
SpellFrom(sp, i, j) ==
    /\ \A k \in i..j : sp[k].active
    /\ i = 1 \/ ~sp[i - 1].active

Ended(sp, j) ==
    /\ ~sp[j].active
    /\ \E i \in 1..(j - 1) : /\ SpellFrom(sp, i, j - 1)
                             /\ sp[j].time - sp[i].time >= MinRequest

EndedIn(sp) == {j \in 1..Len(sp) : Ended(sp, j)}

RequestInv ==
    /\ activity.active => \E i \in 1..Len(spells) :
                             /\ SpellFrom(spells, i, Len(spells))
                             /\ spells[i].time = activity.from
    /\ ~activity.active => Len(spells) = 0 \/ ~spells[Len(spells)].active
    /\ IsFiniteSet(EndedIn(spells))
    /\ requests + forgotten = Cardinality(EndedIn(spells))

(* What an observation adds to the requests that have ended.               *)
LEMMA EndedAppend ==
    ASSUME NEW sp \in Seq(Spell), NEW e \in Spell
    PROVE  LET n == Len(sp) + 1 new == Append(sp, e) IN
           /\ EndedIn(new) = EndedIn(sp) \cup {j \in {n} : Ended(new, n)}
           /\ n \notin EndedIn(sp)
<1> DEFINE n == Len(sp) + 1
           new == Append(sp, e)
<1>1. /\ Len(sp) \in Nat /\ n \in Nat /\ Len(new) = n
      /\ \A k \in 1..Len(sp) : new[k] = sp[k]
  OBVIOUS
<1>2. ASSUME NEW j \in 1..Len(sp) PROVE Ended(new, j) <=> Ended(sp, j)
  <2>1. new[j] = sp[j]
    BY <1>1
  <2>2. \A i \in 1..(j - 1) : i \in 1..Len(sp) /\ new[i] = sp[i]
    BY <1>1
  <2>3. ASSUME NEW i \in 1..(j - 1)
        PROVE  SpellFrom(new, i, j - 1) <=> SpellFrom(sp, i, j - 1)
    <3>1. \A k \in i..(j - 1) : new[k] = sp[k]
      BY <1>1
    <3>2. i # 1 => new[i - 1] = sp[i - 1]
      BY <1>1
    <3> HIDE DEF new
    <3> QED
      BY <3>1, <3>2 DEF SpellFrom
  <2> HIDE DEF new
  <2> QED
    BY <2>1, <2>2, <2>3 DEF Ended
<1> HIDE DEF new
<1>3. 1..n = 1..Len(sp) \cup {n} /\ n \notin 1..Len(sp)
  BY <1>1
<1> QED
  BY <1>1, <1>2, <1>3 DEF EndedIn, new

LEMMA InitRequests == Init => RequestInv
<1> SUFFICES ASSUME Init PROVE RequestInv
  OBVIOUS
<1>1. spells = <<>> /\ Len(spells) = 0 /\ ~activity.active /\ requests + forgotten = 0
  BY DEF Init
<1>2. EndedIn(spells) = {}
  BY <1>1 DEF EndedIn
<1> QED
  BY <1>1, <1>2, FS_EmptySet DEF RequestInv

(* An observation goes on with a spell, begins one, or ends one.           *)
LEMMA ObserveRequests ==
    ASSUME TypeOK, RequestInv, NEW v \in Level, Observe(v)
    PROVE  RequestInv'
<1> DEFINE n == Len(spells) + 1
<1>1. PICK t \in (time + 1)..MaxTime :
         /\ activity' = ActivityAfter(v, t)
         /\ requests' = IF EndsRequest(v, t) THEN requests + 1 ELSE requests
         /\ spells' = Append(spells, [time |-> t, active |-> IsActive(v)])
         /\ forgotten' = forgotten
  BY DEF Observe
<1> DEFINE e == [time |-> t, active |-> IsActive(v)]
<1>2. e \in Spell /\ t \in Nat /\ spells \in Seq(Spell)
  BY LevelAssumption, BoundsAssumption DEF TypeOK, Spell, IsActive
<1>3. /\ Len(spells) \in Nat /\ n \in Nat /\ Len(spells') = n
      /\ \A k \in 1..Len(spells) : spells'[k] = spells[k]
      /\ spells'[n] = e
  BY <1>1, <1>2
<1>4. /\ EndedIn(spells') = EndedIn(spells) \cup {j \in {n} : Ended(spells', n)}
      /\ n \notin EndedIn(spells)
  BY <1>1, <1>2, EndedAppend
<1>5. /\ activity.active \in BOOLEAN /\ activity.from \in Nat
      /\ activity'.active = IsActive(v)
      /\ activity'.from = IF IsActive(v) /\ ~activity.active THEN t ELSE activity.from
  BY <1>1, BoundsAssumption DEF TypeOK, ActivityAfter
<1> HIDE DEF n
(* The spell that goes on when the last observation was active.            *)
<1>6. ASSUME activity.active
      PROVE  \E i \in 1..(n - 1) : /\ SpellFrom(spells', i, n - 1)
                                   /\ spells'[i].time = activity.from
  <2>1. PICK i \in 1..Len(spells) : /\ SpellFrom(spells, i, Len(spells))
                                    /\ spells[i].time = activity.from
    BY <1>6 DEF RequestInv
  <2>2. n - 1 = Len(spells) /\ \A k \in i..(n - 1) : spells'[k] = spells[k]
    BY <1>3 DEF n
  <2>3. i # 1 => spells'[i - 1] = spells[i - 1]
    BY <1>3
  <2>4. SpellFrom(spells', i, n - 1)
    BY <2>1, <2>2, <2>3 DEF SpellFrom
  <2> QED
    BY <2>1, <2>2, <2>4
(* There is only one such spell.                                           *)
<1>7. ASSUME NEW i \in 1..(n - 1), NEW k \in 1..(n - 1),
             SpellFrom(spells', i, n - 1), SpellFrom(spells', k, n - 1)
      PROVE  i = k
  <2>1. ~(i < k)
    <3> SUFFICES ASSUME i < k PROVE FALSE
      OBVIOUS
    <3>1. k - 1 \in i..(n - 1) /\ k # 1
      BY <1>3
    <3> QED
      BY <1>7, <3>1 DEF SpellFrom
  <2>2. ~(k < i)
    <3> SUFFICES ASSUME k < i PROVE FALSE
      OBVIOUS
    <3>1. i - 1 \in k..(n - 1) /\ i # 1
      BY <1>3
    <3> QED
      BY <1>7, <3>1 DEF SpellFrom
  <2> QED
    BY <1>3, <2>1, <2>2
<1>8. ASSUME ~activity.active
      PROVE  n - 1 = 0 \/ ~spells'[n - 1].active
  <2>1. Len(spells) = 0 \/ ~spells[Len(spells)].active
    BY <1>8 DEF RequestInv
  <2>2. n - 1 = Len(spells)
    BY <1>3 DEF n
  <2>3. Len(spells) > 0 => spells'[Len(spells)] = spells[Len(spells)]
    BY <1>3
  <2> QED
    BY <1>3, <2>1, <2>2, <2>3
<1>9. Ended(spells', n) <=> EndsRequest(v, t)
  <2>1. spells'[n].active = IsActive(v) /\ spells'[n].time = t
    BY <1>3
  <2>2. CASE activity.active
    <3>1. PICK i \in 1..(n - 1) : /\ SpellFrom(spells', i, n - 1)
                                  /\ spells'[i].time = activity.from
      BY <1>6, <2>2
    <3>2. Ended(spells', n) <=> ~IsActive(v) /\ t - spells'[i].time >= MinRequest
      BY <1>7, <2>1, <3>1 DEF Ended
    <3> QED
      BY <2>2, <3>1, <3>2 DEF EndsRequest
  <2>3. CASE ~activity.active
    <3>1. ASSUME NEW i \in 1..(n - 1), SpellFrom(spells', i, n - 1) PROVE FALSE
      <4>1. n - 1 \in i..(n - 1) /\ n - 1 # 0
        BY <1>3
      <4> QED
        BY <1>8, <2>3, <3>1, <4>1 DEF SpellFrom
    <3> QED
      BY <2>3, <3>1 DEF Ended, EndsRequest
  <2> QED
    BY <1>5, <2>2, <2>3
<1>10. IsFiniteSet(EndedIn(spells')) /\ requests' + forgotten' = Cardinality(EndedIn(spells'))
  <2>1. IsFiniteSet(EndedIn(spells)) /\ Cardinality(EndedIn(spells)) \in Nat
    BY FS_CardinalityType DEF RequestInv
  <2>2. requests \in Nat /\ forgotten \in Nat
    BY DEF TypeOK
  <2>3. requests + forgotten = Cardinality(EndedIn(spells))
    BY DEF RequestInv
  <2>4. CASE EndsRequest(v, t)
    <3>1. EndedIn(spells') = EndedIn(spells) \cup {n}
      BY <1>4, <1>9, <2>4
    <3>2. requests' = requests + 1 /\ forgotten' = forgotten
      BY <1>1, <2>4
    <3>3. /\ IsFiniteSet(EndedIn(spells'))
          /\ Cardinality(EndedIn(spells')) = Cardinality(EndedIn(spells)) + 1
      BY <1>4, <2>1, <3>1, FS_AddElement
    <3> QED
      BY <2>1, <2>2, <2>3, <3>2, <3>3
  <2>5. CASE ~EndsRequest(v, t)
    <3>1. EndedIn(spells') = EndedIn(spells)
      BY <1>4, <1>9, <2>5
    <3> QED
      BY <1>1, <2>1, <2>3, <2>5, <3>1
  <2> QED
    BY <2>4, <2>5
<1>11. ASSUME activity'.active
       PROVE  \E i \in 1..n : SpellFrom(spells', i, n) /\ spells'[i].time = activity'.from
  <2>1. IsActive(v) /\ spells'[n].active /\ spells'[n].time = t
    BY <1>3, <1>5, <1>11
  <2>2. CASE activity.active
    <3>1. PICK i \in 1..(n - 1) : /\ SpellFrom(spells', i, n - 1)
                                  /\ spells'[i].time = activity.from
      BY <1>6, <2>2
    <3>2. \A k \in i..n : k \in i..(n - 1) \/ k = n
      BY <1>3
    <3>3. SpellFrom(spells', i, n) /\ i \in 1..n
      BY <1>3, <2>1, <3>1, <3>2 DEF SpellFrom
    <3> QED
      BY <1>5, <2>2, <3>1, <3>3
  <2>3. CASE ~activity.active
    <3>1. n \in 1..n /\ n..n = {n} /\ (n - 1 = 0 <=> n = 1)
      BY <1>3 DEF n
    <3>2. SpellFrom(spells', n, n)
      BY <1>8, <2>1, <2>3, <3>1 DEF SpellFrom
    <3> QED
      BY <1>5, <2>1, <2>3, <3>1, <3>2
  <2> QED
    BY <1>5, <2>2, <2>3
<1>12. ~activity'.active => ~spells'[n].active
  BY <1>3, <1>5
<1> QED
  BY <1>3, <1>10, <1>11, <1>12 DEF RequestInv

LEMMA NextRequests == TypeOK /\ RequestInv /\ [Next]_vars => RequestInv'
<1> SUFFICES ASSUME TypeOK, RequestInv, [Next]_vars PROVE RequestInv'
  OBVIOUS
<1>1. ASSUME NEW v \in Level, Observe(v) PROVE RequestInv'
  BY <1>1, ObserveRequests
<1>2. CASE ~\E v \in Level : Observe(v)
  <2>1. UNCHANGED <<activity, spells>>
    BY <1>2 DEF Next, Event, Reset, StartSample, EndSample, PublishWindow, DropGPU,
       vars, requestv, hardware
  <2>2. requests' + forgotten' = requests + forgotten
    <3>1. CASE DropGPU
      BY <3>1 DEF DropGPU, TypeOK
    <3>2. CASE ~DropGPU
      BY <1>2, <3>2 DEF Next, Event, Reset, StartSample, EndSample, PublishWindow,
         vars, requestv
    <3> QED
      BY <3>1, <3>2
  <2> QED
    BY <2>1, <2>2 DEF RequestInv
<1> QED
  BY <1>1, <1>2

(* The requests counted, with those of deleted series, are the active      *)
(* spells that were long enough and ended, over any history of             *)
(* observations and absences and for any threshold and minimum time.       *)
THEOREM RequestsCorrect == Spec => []RequestsAreSpells
<1>1. TypeOK /\ RequestInv => RequestsAreSpells
  <2> SUFFICES ASSUME TypeOK, RequestInv PROVE RequestsAreSpells
    OBVIOUS
  <2>1. DOMAIN spells = 1..Len(spells) /\ Len(spells) \in Nat
    BY DEF TypeOK
  <2>2. ASSUME NEW j \in 1..Len(spells)
        PROVE  (\E i \in 1..Len(spells) : Request(i, j)) <=> Ended(spells, j)
    <3>1. \A i \in 1..Len(spells) : i < j <=> i \in 1..(j - 1)
      BY <2>1
    <3>2. \A i \in 1..(j - 1) : i \in 1..Len(spells)
      BY <2>1
    <3>3. \A i \in 1..(j - 1) : Request(i, j) <=>
             /\ ~spells[j].active /\ SpellFrom(spells, i, j - 1)
             /\ spells[j].time - spells[i].time >= MinRequest
      BY <3>1, <3>2 DEF Request, SpellFrom
    <3>4. \A i \in 1..Len(spells) : Request(i, j) => i \in 1..(j - 1)
      BY <3>1 DEF Request
    <3> QED
      BY <3>2, <3>3, <3>4 DEF Ended
  <2>3. {j \in DOMAIN spells : \E i \in DOMAIN spells : Request(i, j)} = EndedIn(spells)
    BY <2>1, <2>2 DEF EndedIn
  <2> QED
    BY <2>3 DEF RequestInv, RequestsAreSpells
<1>2. TypeOK /\ RequestInv /\ [Next]_vars => (TypeOK /\ RequestInv)'
  BY NextTypes, NextRequests
<1> QED
  BY <1>1, <1>2, InitTypes, InitRequests, PTL DEF Spec

-----------------------------------------------------------------------------
(***************************************************************************)
(* Windows. The partial sums of a sequence exist for every prefix and are  *)
(* unique: each by the least length at which they would not be.            *)
(***************************************************************************)
LEMMA Least ==
    ASSUME NEW S \in SUBSET Nat, S # {}
    PROVE  \E t \in S : \A u \in S : t <= u
<1> DEFINE R == OpToRel(<, Nat)
<1>1. IsWellFoundedOn(R, Nat)
  BY NatLessThanWellFounded
<1>2. \A x, y \in Nat : y < x => <<y, x>> \in R
  BY DEF OpToRel
<1> HIDE DEF R
<1>3. PICK t \in S : \A y \in S : ~(<<y, t>> \in R)
  BY <1>1, WFMin
<1>4. \A y \in S : ~(y < t)
  BY <1>2, <1>3
<1> QED
  BY <1>4

IsPrefixSums(values, n, run) ==
    /\ run \in [0..n -> Nat]
    /\ run[0] = 0
    /\ \A i \in 1..n : run[i] = run[i - 1] + values[i]

LEMMA SumsExist ==
    ASSUME NEW values \in Seq(Nat)
    PROVE  \E run : IsPrefixSums(values, Len(values), run)
<1> DEFINE without == {n \in 0..Len(values) : ~\E run : IsPrefixSums(values, n, run)}
<1>0. Len(values) \in Nat /\ \A i \in 1..Len(values) : values[i] \in Nat
  OBVIOUS
<1> SUFFICES ASSUME without # {} PROVE FALSE
  BY <1>0
<1>1. without \in SUBSET Nat
  BY <1>0
<1>2. PICK n \in without : \A j \in without : n <= j
  BY <1>1, Least
<1>3. n \in 0..Len(values) /\ ~\E run : IsPrefixSums(values, n, run)
  OBVIOUS
<1> HIDE DEF without
<1>4. n # 0
  <2>1. [i \in 0..0 |-> 0] \in [0..0 -> Nat]
    OBVIOUS
  <2>2. IsPrefixSums(values, 0, [i \in 0..0 |-> 0])
    BY <2>1 DEF IsPrefixSums
  <2> QED
    BY <1>3, <2>2
<1>5. n - 1 \in 0..Len(values) /\ n - 1 \notin without /\ n \in 1..Len(values)
  BY <1>0, <1>2, <1>3, <1>4
<1>6. PICK run : IsPrefixSums(values, n - 1, run)
  BY <1>5 DEF without
<1> DEFINE longer == [i \in 0..n |-> IF i = n THEN run[n - 1] + values[n] ELSE run[i]]
<1>7. n \in Nat /\ values[n] \in Nat /\ run \in [0..(n - 1) -> Nat] /\ n - 1 \in 0..(n - 1)
  BY <1>0, <1>3, <1>4, <1>5, <1>6 DEF IsPrefixSums
<1>8. longer \in [0..n -> Nat]
  <2>1. run[n - 1] + values[n] \in Nat
    BY <1>7
  <2>2. \A i \in 0..n : i # n => i \in 0..(n - 1)
    BY <1>7
  <2> QED
    BY <1>7, <2>1, <2>2
<1>9. longer[0] = 0
  BY <1>4, <1>6, <1>7 DEF IsPrefixSums
<1>10. ASSUME NEW i \in 1..n PROVE longer[i] = longer[i - 1] + values[i]
  <2>1. i \in 0..n /\ i - 1 \in 0..n /\ i - 1 # n
    BY <1>7
  <2>2. CASE i = n
    BY <2>1, <2>2
  <2>3. CASE i # n
    <3>1. i \in 1..(n - 1)
      BY <1>7, <2>3
    <3>2. run[i] = run[i - 1] + values[i]
      BY <1>6, <3>1 DEF IsPrefixSums
    <3> QED
      BY <2>1, <2>3, <3>2
  <2> QED
    BY <2>2, <2>3
<1>11. IsPrefixSums(values, n, longer)
  BY <1>8, <1>9, <1>10 DEF IsPrefixSums
<1> QED
  BY <1>3, <1>11

LEMMA TotalIs ==
    ASSUME NEW values \in Seq(Nat), NEW run, IsPrefixSums(values, Len(values), run)
    PROVE  Total(values) = run[Len(values)]
<1> DEFINE N == Len(values)
           Step(u) == [n \in 0..N |-> IF n = 0 THEN 0 ELSE u[n - 1] + values[n]]
           all == CHOOSE u : u = Step(u)
<1>0. N \in Nat
  OBVIOUS
<1>1. run = Step(run)
  BY <1>0 DEF IsPrefixSums
<1>2. all = Step(all)
  BY <1>1
<1>3. Total(values) = all[N]
  BY DEF Total
<1> HIDE DEF all
<1>4. /\ all[0] = 0
      /\ \A i \in 1..N : all[i] = all[i - 1] + values[i]
  <2>1. ASSUME NEW i \in 0..N PROVE all[i] = (IF i = 0 THEN 0 ELSE all[i - 1] + values[i])
    BY <1>2
  <2> QED
    BY <1>0, <2>1
<1> DEFINE other == {i \in 0..N : all[i] # run[i]}
<1>5. other = {}
  <2> SUFFICES ASSUME other # {} PROVE FALSE
    OBVIOUS
  <2>1. other \in SUBSET Nat
    OBVIOUS
  <2> HIDE DEF other, N
  <2>2. PICK n \in other : \A j \in other : n <= j
    BY <2>1, Least
  <2>3. n \in 0..N /\ all[n] # run[n]
    BY DEF other
  <2>4. n # 0
    BY <1>4, <2>3 DEF IsPrefixSums
  <2>5. n \in 1..N /\ n - 1 \in 0..N /\ n - 1 \notin other
    BY <1>0, <2>2, <2>3, <2>4
  <2>6. all[n - 1] = run[n - 1]
    BY <2>5 DEF other
  <2>7. all[n] = all[n - 1] + values[n] /\ run[n] = run[n - 1] + values[n]
    BY <1>4, <2>5 DEF IsPrefixSums, N
  <2> QED
    BY <2>3, <2>6, <2>7
<1>6. N \in 0..N
  BY <1>0
<1> QED
  BY <1>3, <1>5, <1>6

LEMMA TotalEmpty == Total(<<>>) = 0
<1>1. <<>> \in Seq(Nat) /\ Len(<<>>) = 0
  OBVIOUS
<1>2. PICK run : IsPrefixSums(<<>>, Len(<<>>), run)
  BY <1>1, SumsExist
<1>3. Total(<<>>) = run[Len(<<>>)]
  BY <1>1, <1>2, TotalIs
<1> QED
  BY <1>1, <1>2, <1>3 DEF IsPrefixSums

LEMMA TotalAppend ==
    ASSUME NEW values \in Seq(Nat), NEW v \in Nat
    PROVE  Total(Append(values, v)) = Total(values) + v
<1> DEFINE more == Append(values, v)
           N == Len(values)
<1>1. /\ more \in Seq(Nat) /\ N \in Nat /\ Len(more) = N + 1
      /\ \A i \in 1..N : more[i] = values[i]
      /\ more[N + 1] = v
  OBVIOUS
<1> HIDE DEF more
<1>2. PICK run : IsPrefixSums(more, N + 1, run)
  BY <1>1, SumsExist
<1>3. Total(more) = run[N + 1]
  BY <1>1, <1>2, TotalIs
<1> DEFINE part == [i \in 0..N |-> run[i]]
<1>4. IsPrefixSums(values, N, part)
  <2>1. part \in [0..N -> Nat] /\ part[0] = 0
    BY <1>1, <1>2 DEF IsPrefixSums
  <2>2. ASSUME NEW i \in 1..N PROVE part[i] = part[i - 1] + values[i]
    <3>1. i \in 0..N /\ i - 1 \in 0..N /\ i \in 1..(N + 1)
      BY <1>1
    <3>2. run[i] = run[i - 1] + more[i]
      BY <1>2, <3>1 DEF IsPrefixSums
    <3> QED
      BY <1>1, <3>1, <3>2
  <2> QED
    BY <2>1, <2>2 DEF IsPrefixSums
<1>5. Total(values) = run[N]
  <2>1. Total(values) = part[N]
    BY <1>4, TotalIs
  <2>2. N \in 0..N
    BY <1>1
  <2> QED
    BY <2>1, <2>2
<1>6. run[N + 1] = run[N] + v
  <2>1. N + 1 \in 1..(N + 1) /\ (N + 1) - 1 = N
    BY <1>1
  <2> QED
    BY <1>1, <1>2, <2>1 DEF IsPrefixSums
<1> QED
  BY <1>3, <1>5, <1>6 DEF more

(* The statistics are those of a sequence of values.                       *)
StatsOf(values, stats) ==
    /\ stats.count = Len(values)
    /\ stats.sum = Total(values)
    /\ \A i \in DOMAIN values : values[i] <= stats.max
    /\ values # <<>> => \E i \in DOMAIN values : values[i] = stats.max

WindowInv ==
    /\ StatsOf(current, window)
    /\ IF closed = <<>> THEN published = None
                        ELSE published # None /\ StatsOf(closed, published)

LEMMA StatsAppend ==
    ASSUME NEW values \in Seq(Nat), NEW stats \in Stats, NEW v \in Nat,
           StatsOf(values, stats)
    PROVE  StatsOf(Append(values, v), WindowWith(stats, v))
<1> DEFINE more == Append(values, v)
           after == WindowWith(stats, v)
<1>1. /\ Len(values) \in Nat /\ Len(more) = Len(values) + 1
      /\ DOMAIN values = 1..Len(values) /\ DOMAIN more = 1..(Len(values) + 1)
      /\ \A i \in DOMAIN values : more[i] = values[i] /\ values[i] \in Nat
      /\ more[Len(values) + 1] = v
  OBVIOUS
<1>2. /\ after.count = stats.count + 1 /\ after.sum = stats.sum + v
      /\ after.max = IF stats.count = 0 \/ v > stats.max THEN v ELSE stats.max
  BY DEF WindowWith
<1>3. after.count = Len(more) /\ after.sum = Total(more)
  BY <1>1, <1>2, TotalAppend DEF StatsOf
<1>4. stats.max \in Nat /\ (stats.count = 0 <=> values = <<>>)
  BY <1>1 DEF Stats, StatsOf
<1> HIDE DEF more, after
<1>5. \A i \in DOMAIN more : more[i] <= after.max
  <2> TAKE i \in DOMAIN more
  <2>1. CASE i = Len(values) + 1
    BY <1>1, <1>2, <1>4, <2>1
  <2>2. CASE i # Len(values) + 1
    <3>1. i \in DOMAIN values
      BY <1>1, <2>2
    <3>2. more[i] <= stats.max /\ more[i] \in Nat
      BY <1>1, <3>1 DEF StatsOf
    <3>3. stats.count # 0
      BY <1>1, <3>1 DEF StatsOf
    <3> QED
      BY <1>2, <1>4, <3>2, <3>3
  <2> QED
    BY <2>1, <2>2
<1>6. \E i \in DOMAIN more : more[i] = after.max
  <2>1. CASE after.max = v
    BY <1>1, <2>1
  <2>2. CASE after.max # v
    <3>1. after.max = stats.max /\ stats.count # 0
      BY <1>2, <2>2
    <3>2. PICK i \in DOMAIN values : values[i] = stats.max
      BY <1>4, <3>1 DEF StatsOf
    <3> QED
      BY <1>1, <3>1, <3>2
  <2> QED
    BY <2>1, <2>2
<1>7. StatsOf(more, after)
  BY <1>3, <1>5, <1>6 DEF StatsOf
<1> QED
  BY <1>7 DEF more, after

LEMMA NoStatsEmpty == StatsOf(<<>>, NoStats)
  BY TotalEmpty DEF StatsOf, NoStats

LEMMA NextWindows == TypeOK /\ WindowInv /\ [Next]_vars => WindowInv'
<1> SUFFICES ASSUME TypeOK, WindowInv, [Next]_vars PROVE WindowInv'
  OBVIOUS
<1>1. ASSUME UNCHANGED windows PROVE WindowInv'
  BY <1>1 DEF windows, WindowInv
<1>2. CASE Event \/ Reset \/ StartSample \/ EndSample \/ UNCHANGED vars
  BY <1>1, <1>2 DEF Event, Reset, StartSample, EndSample, vars, windows
<1>3. ASSUME NEW v \in Level, Observe(v) PROVE WindowInv'
  <2>1. /\ window' = WindowWith(window, v) /\ current' = Append(current, v)
        /\ published' = published /\ closed' = closed
    BY <1>3 DEF Observe
  <2>2. current \in Seq(Nat) /\ window \in Stats /\ v \in Nat
    <3>1. current \in Seq(Level) /\ Level \subseteq Nat
      BY LevelAssumption DEF TypeOK
    <3>2. current \in Seq(Nat)
      <4>1. /\ Len(current) \in Nat /\ current \in [1..Len(current) -> Level]
        BY <3>1
      <4>2. \A i \in 1..Len(current) : current[i] \in Nat
        BY <3>1, <4>1
      <4>3. current \in [1..Len(current) -> Nat]
        BY <4>1, <4>2
      <4> QED
        BY <4>1, <4>3
    <3> QED
      BY <3>1, <3>2 DEF TypeOK
  <2>3. StatsOf(current', window')
    BY <2>1, <2>2, StatsAppend DEF WindowInv
  <2> QED
    BY <2>1, <2>3 DEF WindowInv
<1>4. CASE PublishWindow
  <2>1. window' = NoStats /\ current' = <<>>
    BY <1>4 DEF PublishWindow
  <2>2. StatsOf(current', window')
    BY <2>1, NoStatsEmpty
  <2>3. CASE ~present
    <3>1. published' = published /\ closed' = closed
      BY <1>4, <2>3 DEF PublishWindow
    <3> QED
      BY <2>2, <3>1 DEF WindowInv
  <2>4. CASE present
    <3>1. closed' = current /\ published' = IF window.count = 0 THEN None ELSE window
      BY <1>4, <2>4 DEF PublishWindow
    <3>2. window.count = 0 <=> current = <<>>
      BY DEF WindowInv, StatsOf, TypeOK
    <3>3. window # None
      BY NoneAssumption DEF TypeOK, Stats
    <3> QED
      BY <2>2, <3>1, <3>2, <3>3 DEF WindowInv
  <2> QED
    BY <2>3, <2>4 DEF TypeOK
<1>5. CASE DropGPU
  BY <1>5 DEF DropGPU, WindowInv
<1> QED
  BY <1>2, <1>3, <1>4, <1>5 DEF Next

(* What PublishWindow sets are the maximum and the average of exactly one  *)
(* window.                                                                 *)
THEOREM PublishedCorrect == Spec => []PublishedIsOneWindow
<1>1. Init => WindowInv
  BY NoStatsEmpty DEF Init, WindowInv
<1>2. WindowInv => PublishedIsOneWindow
  BY DEF WindowInv, StatsOf, PublishedIsOneWindow
<1> QED
  BY <1>1, <1>2, InitTypes, NextTypes, NextWindows, PTL DEF Spec

=============================================================================
