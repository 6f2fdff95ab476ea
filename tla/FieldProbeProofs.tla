--------------------------- MODULE FieldProbeProofs ---------------------------
(***************************************************************************)
(* Theorems about FieldProbe for any lists of fields and any family of     *)
(* sets that DCGM accepts. The first part follows the search of            *)
(* watchableOptionalFields; the second, resting on its invariant, is about *)
(* the number of trials of a list, the groups that DCGM holds, and what a  *)
(* watcher consists of.                                                    *)
(***************************************************************************)
EXTENDS FieldProbe, TLAPS, FiniteSetTheorems, SequenceTheorems,
        WellFoundedInduction

(***************************************************************************)
(* The inductive invariant. Every candidate of the list being tried is in  *)
(* a batch on the stack, or accepted, or refused on top of fewer fields    *)
(* than are accepted now, unless a call failed by chance.                  *)
(***************************************************************************)
Calls == {"fieldGroup", "group", "add", "watch"}
Interval == Int \X Int

Covers(st, j) == \E i \in 1..Len(st) : st[i][1] <= j /\ j <= st[i][2]

Settled(acc, set, c) == c \in set \/ set \cup {c} \notin acc

KeptOf(G, s) == UNION {g.fields : g \in {h \in G : h.stage = s}}

Maximal(acc, set, s) == \A c \in AllOf(s) : Settled(acc, set, c)

Types ==
    /\ accepted \in Families
    /\ stage \in Stage
    /\ stack \in Seq(Interval)
    /\ probing \in BOOLEAN
    /\ pc \in {"idle", "probe", "profiling"} \cup Calls

(* watchableOptionalFields, at stage s.                                    *)
SearchInv ==
    stage # DCP /\ pc # "idle" =>
        /\ \A j \in 1..Len(Candidates[stage]) :
              \/ Covers(stack, j)
              \/ Settled(accepted, fields, Candidates[stage][j])
              \/ stage \in hiccup
        /\ stage = 1 \/ fields = {} \/ fields \in accepted

CallInv ==
    /\ pc \in Calls /\ stage # DCP =>
          IF probing
          THEN stack # <<>> /\ trial = fields \cup Batch(stage, Head(stack))
          ELSE stack = <<>> /\ trial = fields /\ fields # {}
    /\ pc \in Calls /\ stage = DCP => ~probing
    /\ pc = "probe" => stage # DCP
    /\ pc = "profiling" => stage = DCP

GroupsInv ==
    pc # "idle" =>
        /\ watcher = {}
        /\ \A g \in groups : g.stage \in 1..(stage - 1)
        /\ \A s \in 1..(stage - 1) : s \in hiccup \/ Maximal(accepted, KeptOf(groups, s), s)

WatcherInv ==
    watcher # {} =>
        \A s \in 1..(DCP - 1) : s \in hiccup \/ Maximal(accepted, KeptOf(watcher, s), s)

IInv == Types /\ SearchInv /\ CallInv /\ GroupsInv /\ WatcherInv

-----------------------------------------------------------------------------
LEMMA StageNat == DCP \in Nat /\ 1 < DCP /\ Stage = 1..DCP
  BY FieldAssumption DEF DCP, Stage

(* DCGM that refuses a set refuses every larger one.                       *)
LEMMA SettledGrows ==
    ASSUME accepted \in Families, NEW A, NEW B, A \subseteq B, NEW c, Settled(accepted, A, c)
    PROVE  Settled(accepted, B, c)
<1>1. \A S \in accepted : \A T \in SUBSET S : T \in accepted
  BY FamilyAssumption
<1> QED
  BY <1>1 DEF Settled

(* The whole list covers each of its candidates.                           *)
LEMMA WholeListCovers ==
    ASSUME NEW s \in 1..Len(Candidates)
    PROVE  /\ WholeList(s) \in Seq(Interval)
           /\ \A j \in 1..Len(Candidates[s]) : Covers(WholeList(s), j)
<1>1. Candidates[s] \in Seq(Field)
  BY FieldAssumption
<1>2. CASE Candidates[s] = <<>>
  BY <1>1, <1>2 DEF WholeList, Covers
<1>3. CASE Candidates[s] # <<>>
  <2> DEFINE w == <<(<<1, Len(Candidates[s])>>)>>
  <2>1. WholeList(s) = w
    BY <1>3 DEF WholeList
  <2>2. w \in Seq(Interval) /\ Len(w) = 1 /\ w[1] = <<1, Len(Candidates[s])>>
    BY <1>1 DEF Interval
  <2> QED
    BY <2>1, <2>2, <1>1 DEF Covers
<1> QED
  BY <1>2, <1>3

(* Without its head, a stack covers what the head did not.                 *)
LEMMA TailCovers ==
    ASSUME NEW st \in Seq(Interval), st # <<>>, NEW pre \in Seq(Interval),
           NEW j \in Nat, Covers(st, j)
    PROVE  \/ Head(st)[1] <= j /\ j <= Head(st)[2]
           \/ Covers(pre \o Tail(st), j)
<1>1. PICK i \in 1..Len(st) : st[i][1] <= j /\ j <= st[i][2]
  BY DEF Covers
<1>2. CASE i = 1
  BY <1>1, <1>2
<1>3. CASE i # 1
  <2> DEFINE k == Len(pre) + (i - 1)
  <2>1. Len(st) \in Nat /\ Len(pre) \in Nat /\ i \in Nat /\ i > 1
    BY <1>3
  <2>2. Len(pre \o Tail(st)) = Len(pre) + (Len(st) - 1)
    BY <2>1
  <2>3. k \in 1..Len(pre \o Tail(st))
    BY <2>1, <2>2
  <2>4. (pre \o Tail(st))[k] = st[i]
    BY <2>1, <2>2, <2>3
  <2> QED
    BY <1>1, <2>3, <2>4 DEF Covers
<1> QED
  BY <1>2, <1>3

(* The parts of a stack.                                                   *)
LEMMA StackParts ==
    ASSUME NEW st \in Seq(Interval), st # <<>>
    PROVE  Head(st) \in Interval /\ Tail(st) \in Seq(Interval)
<1>1. Len(st) \in Nat /\ 1 \in 1..Len(st)
  OBVIOUS
<1>2. st[1] \in Interval
  BY <1>1
<1> QED
  BY <1>2

(* What is put in front of the rest of the stack is covered.               *)
LEMMA PrefixCovers ==
    ASSUME NEW pre \in Seq(Interval), NEW suf \in Seq(Interval), NEW j \in Nat,
           Covers(pre, j)
    PROVE  Covers(pre \o suf, j)
<1>1. PICK i \in 1..Len(pre) : pre[i][1] <= j /\ j <= pre[i][2]
  BY DEF Covers
<1>2. i \in 1..Len(pre \o suf) /\ (pre \o suf)[i] = pre[i]
  OBVIOUS
<1> QED
  BY <1>1, <1>2 DEF Covers

(* A refused batch of more than one candidate is covered by its halves.    *)
LEMMA RestCovers ==
    ASSUME NEW b \in Interval
    PROVE  /\ Rest(b) \in Seq(Interval)
           /\ b[1] # b[2] =>
                \A j \in Nat : b[1] <= j /\ j <= b[2] => Covers(Rest(b), j)
<1> DEFINE middle == b[1] + (b[2] - b[1] + 1) \div 2
           left   == <<b[1], middle - 1>>
           right  == <<middle, b[2]>>
<1>1. middle \in Int /\ b[1] \in Int /\ b[2] \in Int
  BY DEF Interval
<1> HIDE DEF middle
<1>2. CASE b[1] = b[2]
  BY <1>2 DEF Rest
<1>3. CASE b[1] # b[2]
  <2>1. Rest(b) = <<left, right>>
    BY <1>3 DEF Rest, Halves, middle
  <2>2. left \in Interval /\ right \in Interval
    BY <1>1 DEF Interval
  <2>3. Rest(b) \in Seq(Interval) /\ Len(Rest(b)) = 2
    BY <2>1, <2>2
  <2>4. Rest(b)[1] = left /\ Rest(b)[2] = right
    BY <2>1
  <2>5. ASSUME NEW j \in Nat, b[1] <= j, j <= b[2] PROVE Covers(Rest(b), j)
    <3>1. CASE j <= middle - 1
      BY <2>3, <2>4, <2>5, <3>1 DEF Covers
    <3>2. CASE middle <= j
      BY <2>3, <2>4, <2>5, <3>2 DEF Covers
    <3> QED
      BY <1>1, <3>1, <3>2
  <2> QED
    BY <2>3, <2>5
<1> QED
  BY <1>2, <1>3

(* Once the stack is empty the fields accepted are maximal.                *)
LEMMA SearchDone ==
    ASSUME IInv, pc # "idle", stage # DCP, stack = <<>>, stage \notin hiccup
    PROVE  Maximal(accepted, fields, stage)
<1>1. ASSUME NEW j \in 1..Len(Candidates[stage])
      PROVE  Settled(accepted, fields, Candidates[stage][j])
  <2>1. ~Covers(stack, j)
    BY DEF Covers
  <2> QED
    BY <2>1 DEF IInv, SearchInv
<1> QED
  BY <1>1 DEF Maximal, AllOf, Batch

-----------------------------------------------------------------------------
LEMMA InitInv == Init => IInv
<1> SUFFICES ASSUME Init PROVE IInv
  OBVIOUS
<1>1. Types
  <2>1. stack \in Seq(Interval)
    BY DEF Init
  <2>2. 1 \in Stage
    BY StageNat
  <2> QED
    BY <2>1, <2>2 DEF Init, Types
<1>2. SearchInv /\ CallInv /\ GroupsInv /\ WatcherInv
  BY DEF Init, SearchInv, CallInv, GroupsInv, WatcherInv, Calls
<1> QED
  BY <1>1, <1>2 DEF IInv

LEMMA EnsureInv == IInv /\ EnsureWatcher => IInv'
<1> SUFFICES ASSUME IInv, EnsureWatcher PROVE IInv'
  OBVIOUS
<1>1. /\ watcher = {} /\ pc' = "probe" /\ stage' = 1 /\ stack' = WholeList(1)
      /\ groups' = {} /\ hiccup' = {}
      /\ UNCHANGED <<accepted, probing, trial, watcher>>
  BY DEF EnsureWatcher, dcgm
<1>2. 1 \in 1..Len(Candidates)
  BY FieldAssumption
<1>3. Types'
  BY <1>1, <1>2, StageNat, WholeListCovers DEF IInv, Types
<1>4. SearchInv'
  BY <1>1, <1>2, WholeListCovers DEF SearchInv
<1>5. CallInv' /\ GroupsInv' /\ WatcherInv'
  BY <1>1, StageNat DEF CallInv, GroupsInv, WatcherInv, Calls
<1> QED
  BY <1>3, <1>4, <1>5 DEF IInv

(* On to the next stage, when the present one is settled: groups' has of   *)
(* it a maximal set of fields, or a call failed by chance.                 *)
LEMMA NextStageInv ==
    ASSUME IInv, pc # "idle", stage # DCP, NextStage,
           UNCHANGED <<accepted, probing, watcher>>,
           hiccup \subseteq hiccup',
           \A g \in groups' : g \in groups \/ g.stage = stage,
           groups \subseteq groups',
           stage \in hiccup' \/ Maximal(accepted, KeptOf(groups', stage), stage)
    PROVE  IInv'
<1>1. /\ stage' = stage + 1 /\ fields' = {}
      /\ stack' = IF stage' = DCP THEN <<>> ELSE WholeList(stage')
      /\ pc' = IF stage' = DCP THEN "profiling" ELSE "probe"
  BY DEF NextStage
<1>2. stage \in 1..Len(Candidates) /\ stage' \in Stage
      /\ (stage' # DCP => stage' \in 1..Len(Candidates))
  BY <1>1, StageNat, FieldAssumption DEF IInv, Types, DCP, Stage
<1>3. Types'
  BY <1>1, <1>2, WholeListCovers DEF IInv, Types
<1>4. SearchInv'
  BY <1>1, <1>2, WholeListCovers DEF SearchInv
<1>5. CallInv'
  BY <1>1 DEF CallInv, Calls
<1>6. GroupsInv'
  <2>1. watcher' = {} /\ \A g \in groups' : g.stage \in 1..(stage' - 1)
    BY <1>1, <1>2 DEF IInv, GroupsInv
  <2>2. ASSUME NEW s \in 1..(stage' - 1)
        PROVE  s \in hiccup' \/ Maximal(accepted, KeptOf(groups', s), s)
    <3>1. CASE s = stage
      BY <3>1
    <3>2. CASE s # stage
      <4>1. KeptOf(groups', s) = KeptOf(groups, s)
        BY <3>2 DEF KeptOf
      <4>2. s \in 1..(stage - 1)
        BY <1>1, <1>2, <3>2
      <4>3. s \in hiccup \/ Maximal(accepted, KeptOf(groups, s), s)
        BY <4>2 DEF IInv, GroupsInv
      <4> QED
        BY <4>1, <4>3
    <3> QED
      BY <3>1, <3>2
  <2> QED
    BY <2>1, <2>2 DEF GroupsInv
<1>7. WatcherInv'
  BY DEF IInv, GroupsInv, WatcherInv
<1> QED
  BY <1>3, <1>4, <1>5, <1>6, <1>7 DEF IInv

(* The watcher is installed at the last stage, with groups or one more.    *)
LEMMA InstallInv ==
    ASSUME IInv, pc # "idle", stage = DCP, Install(watcher'),
           UNCHANGED <<accepted, probing>>, hiccup \subseteq hiccup',
           groups \subseteq watcher',
           \A g \in watcher' : g \in groups \/ g.stage = DCP
    PROVE  IInv'
<1>1. pc' = "idle" /\ UNCHANGED <<stage, stack>>
  BY DEF Install, search
<1>2. Types'
  BY <1>1 DEF IInv, Types
<1>3. SearchInv' /\ CallInv' /\ GroupsInv'
  BY <1>1 DEF SearchInv, CallInv, GroupsInv, Calls
<1>4. ASSUME NEW s \in 1..(DCP - 1)
      PROVE  s \in hiccup' \/ Maximal(accepted, KeptOf(watcher', s), s)
  <2>1. KeptOf(watcher', s) = KeptOf(groups, s)
    BY StageNat DEF KeptOf
  <2>2. s \in hiccup \/ Maximal(accepted, KeptOf(groups, s), s)
    BY DEF IInv, GroupsInv
  <2> QED
    BY <2>1, <2>2
<1>5. WatcherInv'
  BY <1>1, <1>4 DEF WatcherInv
<1> QED
  BY <1>2, <1>3, <1>5 DEF IInv

(* What stays of a search that only moves on to another call.              *)
LEMMA OtherCallInv ==
    ASSUME IInv, pc # "idle", pc' \in {"probe", "profiling"} \cup Calls,
           UNCHANGED <<accepted, stage, stack, fields, groups, watcher, hiccup>>,
           probing' \in BOOLEAN, CallInv'
    PROVE  IInv'
<1>1. Types'
  BY DEF IInv, Types
<1>2. SearchInv'
  BY DEF IInv, SearchInv, Covers
<1>3. GroupsInv'
  BY DEF IInv, GroupsInv
<1>4. WatcherInv'
  BY DEF IInv, WatcherInv
<1> QED
  BY <1>1, <1>2, <1>3, <1>4 DEF IInv

(* All groups are of earlier stages: this stage has nothing yet.           *)
LEMMA NothingKept == IInv /\ pc # "idle" => KeptOf(groups, stage) = {}
<1> SUFFICES ASSUME IInv, pc # "idle" PROVE KeptOf(groups, stage) = {}
  OBVIOUS
<1>1. \A g \in groups : g.stage # stage
  BY StageNat DEF IInv, Types, GroupsInv
<1> QED
  BY <1>1 DEF KeptOf

-----------------------------------------------------------------------------
(* A call of createWatcher fails.                                          *)
LEMMA RefusedInv ==
    ASSUME IInv, pc \in Calls, Refused, Hiccup, UNCHANGED <<accepted, probing, trial>>
    PROVE  IInv'
<1>1. pc # "idle" /\ hiccup \subseteq hiccup'
  BY DEF Calls, Hiccup
<1>2. trial \in accepted => stage \in hiccup'
  BY DEF Hiccup
<1>3. CASE probing
  <2>1. /\ stage # DCP /\ stack # <<>>
        /\ trial = fields \cup Batch(stage, Head(stack))
    BY <1>3 DEF IInv, CallInv
  <2>2. /\ stack' = Rest(Head(stack)) \o Tail(stack) /\ pc' = "probe"
        /\ UNCHANGED <<stage, fields, groups, watcher>>
    BY <1>3 DEF Refused
  <2>3. stack \in Seq(Interval) /\ Head(stack) \in Interval /\ Tail(stack) \in Seq(Interval)
    BY <2>1, StackParts DEF IInv, Types
  <2>4. Rest(Head(stack)) \in Seq(Interval)
    BY <2>3, RestCovers
  <2>5. Types'
    BY <2>2, <2>3, <2>4 DEF IInv, Types
  <2>6. ASSUME NEW j \in 1..Len(Candidates[stage])
        PROVE  \/ Covers(stack', j)
               \/ Settled(accepted, fields, Candidates[stage][j])
               \/ stage \in hiccup'
    <3> DEFINE h == Head(stack)
    <3>1. j \in Nat
      OBVIOUS
    <3>2. CASE Covers(stack, j)
      <4>1. CASE Covers(Rest(h) \o Tail(stack), j)
        BY <2>2, <4>1
      <4>2. CASE h[1] <= j /\ j <= h[2] /\ h[1] # h[2]
        <5>1. Covers(Rest(h), j)
          BY <2>3, <3>1, <4>2, RestCovers
        <5> QED
          BY <2>2, <2>3, <2>4, <3>1, <5>1, PrefixCovers
      <4>3. CASE h[1] <= j /\ j <= h[2] /\ h[1] = h[2]
        <5>1. h[1] = j /\ h[2] = j
          BY <2>3, <4>3 DEF Interval
        <5>2. Batch(stage, h) = {Candidates[stage][j]}
          BY <5>1 DEF Batch
        <5> QED
          BY <1>2, <2>1, <5>2 DEF Settled
      <4> QED
        BY <2>1, <2>3, <2>4, <3>1, <3>2, <4>1, <4>2, <4>3, TailCovers
    <3>3. CASE ~Covers(stack, j)
      BY <1>1, <2>1, <3>3 DEF IInv, SearchInv
    <3> QED
      BY <3>2, <3>3
  <2>7. SearchInv'
    BY <1>1, <2>1, <2>2, <2>6 DEF IInv, SearchInv
  <2>8. CallInv'
    BY <2>1, <2>2 DEF CallInv, Calls
  <2>9. GroupsInv'
    BY <1>1, <2>2 DEF IInv, GroupsInv
  <2>10. WatcherInv'
    BY <1>1, <2>2 DEF IInv, WatcherInv
  <2> QED
    BY <2>5, <2>7, <2>8, <2>9, <2>10 DEF IInv
<1>4. CASE ~probing /\ stage = 1
  <2>1. pc' = "idle" /\ UNCHANGED <<stage, stack, fields, groups, watcher>>
    BY <1>4, StageNat DEF Refused, search
  <2>2. watcher = {}
    BY <1>1 DEF IInv, GroupsInv
  <2>3. Types'
    BY <2>1 DEF IInv, Types
  <2> QED
    BY <2>1, <2>2, <2>3 DEF IInv, SearchInv, CallInv, GroupsInv, WatcherInv, Calls
<1>5. CASE ~probing /\ stage # 1 /\ stage = DCP
  <2>1. Install(groups)
    BY <1>5 DEF Refused
  <2>2. watcher' = groups
    BY <2>1 DEF Install
  <2>3. Install(watcher')
    BY <2>1, <2>2
  <2> QED
    BY <1>1, <1>5, <2>2, <2>3, InstallInv
<1>6. CASE ~probing /\ stage # 1 /\ stage # DCP
  <2>1. NextStage /\ UNCHANGED <<groups, watcher>>
    BY <1>6 DEF Refused
  <2>2. trial \in accepted
    BY <1>1, <1>6 DEF IInv, CallInv, SearchInv
  <2> QED
    BY <1>1, <1>2, <1>6, <2>1, <2>2, NextStageInv
<1> QED
  BY <1>3, <1>4, <1>5, <1>6

(* Calls that succeed and are not the last.                                *)
LEMMA CallGoesOn ==
    ASSUME IInv, FieldGroupCreate \/ CreateGroup \/ AddToGroup
    PROVE  IInv'
<1>1. /\ pc \in Calls /\ pc' \in Calls
      /\ UNCHANGED <<accepted, stage, stack, fields, probing, trial, groups, watcher, hiccup>>
  BY DEF FieldGroupCreate, CreateGroup, AddToGroup, dcgm, search, Calls
<1>2. pc # "idle" /\ pc' # "probe" /\ pc' # "profiling"
  BY <1>1 DEF Calls
<1>3. CallInv'
  BY <1>1, <1>2 DEF IInv, CallInv
<1>4. probing' \in BOOLEAN
  BY <1>1 DEF IInv, Types
<1> QED
  BY <1>1, <1>2, <1>3, <1>4, OtherCallInv

LEMMA CallFails ==
    ASSUME IInv, FieldGroupFails \/ CreateGroupFails \/ WatchFails
    PROVE  IInv'
<1>1. /\ pc \in Calls /\ Refused /\ Hiccup
      /\ UNCHANGED <<accepted, probing, trial>>
  BY DEF FieldGroupFails, CreateGroupFails, WatchFails, dcgm, Calls
<1> QED
  BY <1>1, RefusedInv

(* createWatcher is called, for a trial or for a group that will be kept.  *)
LEMMA CallStarts ==
    ASSUME IInv, Probe \/ KeepGroup
    PROVE  IInv'
<1>1. /\ pc = "probe" /\ pc' = "fieldGroup" /\ probing' \in BOOLEAN
      /\ UNCHANGED <<accepted, stage, stack, fields, groups, watcher, hiccup>>
  BY DEF Probe, KeepGroup, Create, dcgm, search
<1>2. stage # DCP
  BY <1>1 DEF IInv, CallInv
<1>3. IF probing'
      THEN stack # <<>> /\ trial' = fields \cup Batch(stage, Head(stack))
      ELSE stack = <<>> /\ trial' = fields /\ fields # {}
  BY DEF Probe, KeepGroup, Create
<1>4. CallInv'
  BY <1>1, <1>2, <1>3 DEF CallInv
<1> QED
  BY <1>1, <1>4, OtherCallInv DEF Calls

LEMMA SkipGroupInv ==
    ASSUME IInv, SkipGroup
    PROVE  IInv'
<1>1. /\ pc = "probe" /\ stack = <<>> /\ fields = {} /\ NextStage
      /\ UNCHANGED <<accepted, probing, groups, watcher, hiccup>>
  BY DEF SkipGroup, dcgm
<1>2. stage # DCP
  BY <1>1 DEF IInv, CallInv
<1>3. stage \in hiccup \/ Maximal(accepted, KeptOf(groups, stage), stage)
  BY <1>1, <1>2, SearchDone, NothingKept
<1> QED
  BY <1>1, <1>2, <1>3, NextStageInv

LEMMA QueryInv ==
    ASSUME IInv, QueryProfiling
    PROVE  IInv'
<1>1. /\ pc = "profiling" /\ stage = DCP
      /\ UNCHANGED <<accepted>>
  BY DEF IInv, CallInv, QueryProfiling, dcgm
<1>2. CASE /\ Create(BestProfiling(metricGroups), FALSE)
           /\ UNCHANGED <<search, groups, watcher, probes, hiccup>>
  <2>1. /\ pc' = "fieldGroup" /\ ~probing' /\ probing' = FALSE
        /\ UNCHANGED <<stage, stack, fields, groups, watcher, hiccup>>
    BY <1>2 DEF Create, search
  <2>2. CallInv'
    BY <1>1, <2>1 DEF CallInv
  <2> QED
    BY <1>1, <2>1, <2>2, OtherCallInv DEF Calls
<1>3. CASE Install(groups) /\ UNCHANGED <<probing, trial, groups, hiccup>>
  <2>1. watcher' = groups
    BY <1>3 DEF Install
  <2>2. Install(watcher')
    BY <1>3, <2>1
  <2> QED
    BY <1>1, <1>3, <2>1, <2>2, InstallInv
<1> QED
  BY <1>2, <1>3 DEF QueryProfiling

LEMMA ProbeAcceptedInv ==
    ASSUME IInv, ProbeAccepted
    PROVE  IInv'
<1>1. /\ pc = "watch" /\ pc \in Calls /\ probing /\ trial \in accepted
      /\ fields' = trial /\ stack' = Tail(stack) /\ pc' = "probe"
      /\ UNCHANGED <<accepted, stage, probing, groups, watcher, hiccup>>
  BY DEF ProbeAccepted, dcgm, Calls
<1>2. /\ stage # DCP /\ stack # <<>>
      /\ trial = fields \cup Batch(stage, Head(stack))
  BY <1>1 DEF IInv, CallInv
<1>3. stack \in Seq(Interval) /\ Head(stack) \in Interval /\ Tail(stack) \in Seq(Interval)
  BY <1>2, StackParts DEF IInv, Types
<1>4. Types'
  BY <1>1, <1>3 DEF IInv, Types
<1>5. ASSUME NEW j \in 1..Len(Candidates[stage])
      PROVE  \/ Covers(stack', j)
             \/ Settled(accepted, trial, Candidates[stage][j])
             \/ stage \in hiccup
  <2>1. CASE Covers(stack, j)
    <3>1. <<>> \in Seq(Interval) /\ <<>> \o Tail(stack) = Tail(stack)
      BY <1>3
    <3>2. j \in Nat
      OBVIOUS
    <3>3. CASE Head(stack)[1] <= j /\ j <= Head(stack)[2]
      <4>1. j \in Head(stack)[1]..Head(stack)[2]
        BY <1>3, <3>3 DEF Interval
      <4> QED
        BY <1>2, <4>1 DEF Batch, Settled
    <3> QED
      BY <1>1, <1>2, <1>3, <2>1, <3>1, <3>2, <3>3, TailCovers
  <2>2. CASE Settled(accepted, fields, Candidates[stage][j])
    <3>1. accepted \in Families /\ fields \subseteq trial
      BY <1>2 DEF IInv, Types
    <3> QED
      BY <2>2, <3>1, SettledGrows
  <2> QED
    BY <1>1, <1>2, <2>1, <2>2 DEF IInv, SearchInv
<1>6. SearchInv'
  BY <1>1, <1>5 DEF SearchInv
<1>7. CallInv'
  BY <1>1, <1>2 DEF CallInv, Calls
<1>8. GroupsInv' /\ WatcherInv'
  BY <1>1 DEF IInv, GroupsInv, WatcherInv
<1> QED
  BY <1>4, <1>6, <1>7, <1>8 DEF IInv

LEMMA GroupAcceptedInv ==
    ASSUME IInv, GroupAccepted
    PROVE  IInv'
<1> DEFINE new == [stage |-> stage, fields |-> trial]
<1>1. /\ pc = "watch" /\ pc # "idle" /\ pc \in Calls /\ ~probing
      /\ groups' = groups \cup {new}
      /\ UNCHANGED <<accepted, probing, hiccup>>
  BY DEF GroupAccepted, dcgm, Calls
<1>2. new.stage = stage /\ new.fields = trial
  OBVIOUS
<1>3. groups \subseteq groups' /\ \A g \in groups' : g \in groups \/ g.stage = stage
  BY <1>1, <1>2
<1>4. CASE stage = DCP
  <2>1. Install(groups')
    BY <1>4 DEF GroupAccepted
  <2>2. watcher' = groups'
    BY <2>1 DEF Install
  <2>3. Install(watcher')
    BY <2>1, <2>2
  <2>4. groups \subseteq watcher' /\ \A g \in watcher' : g \in groups \/ g.stage = DCP
    BY <1>3, <1>4, <2>2
  <2> QED
    BY <1>1, <1>4, <2>3, <2>4, InstallInv
<1>5. CASE stage # DCP
  <2>1. NextStage /\ UNCHANGED watcher
    BY <1>5 DEF GroupAccepted
  <2>2. stack = <<>> /\ trial = fields
    BY <1>1, <1>5 DEF IInv, CallInv
  <2>3. \A g \in groups : g.stage # stage
    BY <1>1, StageNat DEF IInv, Types, GroupsInv
  <2>4. KeptOf(groups', stage) = fields
    <3>1. {h \in groups' : h.stage = stage} = {new}
      BY <1>1, <1>2, <2>3
    <3> QED
      BY <1>2, <2>2, <3>1 DEF KeptOf
  <2>5. stage \in hiccup' \/ Maximal(accepted, KeptOf(groups', stage), stage)
    BY <1>1, <1>5, <2>2, <2>4, SearchDone
  <2> QED
    BY <1>1, <1>3, <1>5, <2>1, <2>5, NextStageInv
<1> QED
  BY <1>4, <1>5

LEMMA DestroyInv ==
    ASSUME IInv, DestroyWatcher
    PROVE  IInv'
<1>1. /\ pc = "idle" /\ watcher' = {}
      /\ UNCHANGED <<accepted, pc, stage, stack, fields, probing, trial, hiccup>>
  BY DEF DestroyWatcher, dcgm, search
<1>2. Types'
  BY <1>1 DEF IInv, Types
<1>3. SearchInv' /\ GroupsInv' /\ WatcherInv'
  BY <1>1 DEF SearchInv, GroupsInv, WatcherInv
<1>4. CallInv'
  BY <1>1 DEF CallInv, Calls
<1> QED
  BY <1>2, <1>3, <1>4 DEF IInv

LEMMA NextInv == IInv /\ [Next]_vars => IInv'
<1> SUFFICES ASSUME IInv, [Next]_vars PROVE IInv'
  OBVIOUS
<1>1. CASE EnsureWatcher
  BY <1>1, EnsureInv
<1>2. CASE Build
  BY <1>2, CallStarts, SkipGroupInv, QueryInv, CallGoesOn, CallFails,
     ProbeAcceptedInv, GroupAcceptedInv DEF Build
<1>3. CASE DestroyWatcher
  BY <1>3, DestroyInv
<1>4. CASE UNCHANGED vars
  BY <1>4 DEF vars, IInv, Types, SearchInv, CallInv, GroupsInv, WatcherInv
<1> QED
  BY <1>1, <1>2, <1>3, <1>4 DEF Next

LEMMA Invariant == Spec => []IInv
  BY InitInv, NextInv, PTL DEF Spec

(***************************************************************************)
(* watchableOptionalFields: unless a call failed by chance, a watcher has  *)
(* of each list all that DCGM can watch together, for every list, of any   *)
(* length, and every family of sets that DCGM may accept.                  *)
(***************************************************************************)
THEOREM SearchCorrect == Spec => []KeptIsMaximal
<1>1. IInv => KeptIsMaximal
  <2> SUFFICES ASSUME IInv, watcher # {},
                      NEW s \in Stage \ (hiccup \cup {DCP}),
                      NEW f \in AllOf(s) \ KeptFields(s)
               PROVE  KeptFields(s) \cup {f} \notin accepted
    BY DEF KeptIsMaximal
  <2>1. s \in 1..(DCP - 1)
    BY StageNat
  <2>2. KeptFields(s) = KeptOf(watcher, s)
    BY DEF KeptFields, KeptOf
  <2>3. Maximal(accepted, KeptFields(s), s)
    BY <2>1, <2>2 DEF IInv, WatcherInv
  <2> QED
    BY <2>3 DEF Maximal, Settled
<1> QED
  BY <1>1, Invariant, PTL

(***************************************************************************)
(* The stack of addBatch cuts what is left of a list of n candidates into  *)
(* intervals without gaps, up to the last candidate.                       *)
(***************************************************************************)
Batches == Nat \X Nat

Chain(st, n) ==
    /\ st \in Seq(Batches)
    /\ \A i \in 1..Len(st) : /\ 1 <= st[i][1] /\ st[i][1] <= st[i][2]
                             /\ st[i][2] <= n /\ st[i][1] + (Len(st) - i) <= n
                             /\ i < Len(st) => st[i][2] = st[i + 1][1] - 1
                             /\ i >= Len(st) => st[i][2] = n

(* The trials that may have ended when the stack is st: an interval of k   *)
(* candidates takes at most 2k - 1, and the intervals left will need theirs*)
Budget(st, n) == IF st = <<>> THEN 2 * n - 1 ELSE 2 * st[1][1] + Len(st) - 3

LEMMA WholeListChain ==
    ASSUME NEW s \in 1..Len(Candidates)
    PROVE  Chain(WholeList(s), Len(Candidates[s]))
<1> DEFINE n == Len(Candidates[s])
<1>1. Candidates[s] \in Seq(Field) /\ n \in Nat
  BY FieldAssumption
<1>2. CASE Candidates[s] = <<>>
  BY <1>2 DEF WholeList, Chain
<1>3. CASE Candidates[s] # <<>>
  <2> DEFINE w == <<(<<1, n>>)>>
  <2>1. WholeList(s) = w
    BY <1>3 DEF WholeList
  <2>2. n >= 1
    BY <1>1, <1>3
  <2>3. w \in Seq(Batches) /\ Len(w) = 1 /\ w[1] = <<1, n>>
    <3>1. <<1, n>> \in Batches
      BY <1>1 DEF Batches
    <3> QED
      BY <3>1
  <2> QED
    BY <1>1, <2>1, <2>2, <2>3 DEF Chain
<1> QED
  BY <1>2, <1>3

(* A batch that is taken from the stack leaves budget for its trial.       *)
LEMMA TailChain ==
    ASSUME NEW n \in Nat, NEW st \in Seq(Batches), Chain(st, n), st # <<>>
    PROVE  Chain(Tail(st), n) /\ Budget(st, n) + 1 <= Budget(Tail(st), n)
<1>1. st \in Seq(Batches) /\ Len(st) \in Nat /\ Len(st) >= 1
  BY DEF Chain
<1> DEFINE t == Tail(st)
<1>2. /\ t \in Seq(Batches) /\ Len(t) = Len(st) - 1 /\ Len(t) \in Nat
      /\ \A i \in 1..(Len(st) - 1) : t[i] = st[i + 1]
  OBVIOUS
<1> SUFFICES Chain(t, n) /\ Budget(st, n) + 1 <= Budget(t, n)
  OBVIOUS
<1> HIDE DEF t
<1>3. \A i \in 2..Len(st) : t[i - 1] = st[i]
  <2> SUFFICES ASSUME NEW i \in 2..Len(st) PROVE t[i - 1] = st[i]
    OBVIOUS
  <2>1. i - 1 \in 1..(Len(st) - 1) /\ (i - 1) + 1 = i
    BY <1>1
  <2> QED
    BY <1>2, <2>1
<1>4. ASSUME NEW i \in 1..Len(t)
      PROVE  /\ 1 <= t[i][1] /\ t[i][1] <= t[i][2] /\ t[i][2] <= n
             /\ t[i][1] + (Len(t) - i) <= n
             /\ i < Len(t) => t[i][2] = t[i + 1][1] - 1
             /\ i >= Len(t) => t[i][2] = n
  <2> DEFINE k == i + 1
  <2>1. k \in 1..Len(st) /\ t[i] = st[k]
    BY <1>1, <1>2
  <2>2. CASE i >= Len(t)
    <3>1. k >= Len(st)
      BY <1>1, <1>2, <2>2
    <3> HIDE DEF k
    <3> QED
      BY <1>1, <2>1, <2>2, <3>1 DEF Chain
  <2>3. CASE i < Len(t)
    <3>1. /\ k < Len(st) /\ k + 1 \in 2..Len(st) /\ (k + 1) - 1 = k
          /\ Len(st) - k = Len(t) - i
      BY <1>1, <1>2, <2>3
    <3>2. t[k] = st[k + 1]
      BY <1>3, <3>1
    <3>3. t[i + 1] = st[k + 1]
      BY <3>2
    <3> HIDE DEF k
    <3>4. /\ 1 <= st[k][1] /\ st[k][1] <= st[k][2] /\ st[k][2] <= n
          /\ st[k][1] + (Len(st) - k) <= n
          /\ st[k][2] = st[k + 1][1] - 1
      BY <2>1, <3>1 DEF Chain
    <3> QED
      BY <2>1, <2>3, <3>1, <3>3, <3>4
  <2> QED
    BY <2>2, <2>3
<1>5. Chain(t, n)
  BY <1>2, <1>4 DEF Chain
<1>6. st[1] \in Batches /\ st[1][1] \in Nat /\ st[1][2] \in Nat
  <2>1. st[1] \in Batches
    BY <1>1
  <2> QED
    BY <2>1 DEF Batches
<1>7. CASE 1 >= Len(st)
  <2>1. t = <<>>
    BY <1>2, <1>7
  <2>2. st[1][1] <= n
    BY <1>1, <1>6, <1>7 DEF Chain
  <2> QED
    BY <1>2, <1>5, <1>6, <1>7, <2>1, <2>2 DEF Budget
<1>8. CASE 1 < Len(st)
  <2>1. 1 \in 1..(Len(st) - 1) /\ 1 \in 1..Len(st) /\ 2 \in 1..Len(st) /\ 1 + 1 = 2
    BY <1>1, <1>8
  <2>2. t # <<>> /\ t[1] = st[2]
    <3>1. t[1] = st[1 + 1] /\ Len(t) >= 1
      BY <1>1, <1>2, <2>1
    <3> QED
      BY <3>1
  <2>3. st[2] \in Batches /\ st[2][1] \in Nat
    <3>1. st[2] \in Batches
      BY <1>1, <2>1
    <3> QED
      BY <3>1 DEF Batches
  <2>4. st[1][1] <= st[1][2] /\ st[1][2] = st[2][1] - 1
    BY <1>8, <2>1 DEF Chain
  <2> QED
    BY <1>1, <1>2, <1>5, <1>6, <2>2, <2>3, <2>4, SMTT(30) DEF Budget
<1> QED
  BY <1>7, <1>8

(* Two neighbouring intervals that end where the chain t begins.           *)
Adjoin(two, a, m, c, t, n) ==
    /\ 1 <= a /\ a <= m - 1 /\ m <= c /\ c <= n
    /\ 0 < Len(t) => c = t[1][1] - 1
    /\ Len(t) = 0 => c = n
    /\ two \in Seq(Batches) /\ Len(two) = 2
    /\ two[1] = <<a, m - 1>> /\ two[2] = <<m, c>>

(* Put in front of it they make a longer chain.                            *)
LEMMA PushTwo ==
    ASSUME NEW n \in Nat, NEW t \in Seq(Batches), Chain(t, n),
           NEW a \in Nat, NEW m \in Nat, NEW c \in Nat, NEW two,
           Adjoin(two, a, m, c, t, n)
    PROVE  /\ Chain(two \o t, n) /\ Len(two \o t) = Len(t) + 2
           /\ (two \o t)[1][1] = a
<1> USE DEF Adjoin
<1> DEFINE w == two \o t
<1> SUFFICES Chain(w, n) /\ Len(w) = Len(t) + 2 /\ w[1][1] = a
  OBVIOUS
<1>1. /\ w \in Seq(Batches) /\ Len(w) = 2 + Len(t) /\ Len(t) \in Nat
      /\ \A i \in 1..(2 + Len(t)) : w[i] = IF i <= 2 THEN two[i] ELSE t[i - 2]
  <2>1. /\ w \in Seq(Batches) /\ Len(w) = Len(two) + Len(t)
        /\ \A i \in 1..(Len(two) + Len(t)) :
              w[i] = IF i <= Len(two) THEN two[i] ELSE t[i - Len(two)]
    BY ConcatProperties
  <2> HIDE DEF w
  <2>2. Len(t) \in Nat
    BY LenProperties
  <2> QED
    BY <2>1, <2>2
<1> HIDE DEF w
<1>2. /\ Len(w) = Len(t) + 2 /\ Len(w) \in Nat /\ Len(t) \in Nat
      /\ w[1] = <<a, m - 1>> /\ w[2] = <<m, c>>
      /\ \A i \in 3..Len(w) : w[i] = t[i - 2]
  BY <1>1
<1> DEFINE l == Len(t)
<1>3. a + (l + 1) <= n /\ m + l <= n
  <2>1. CASE l = 0
    BY <2>1
  <2>2. CASE 0 < l
    <3>1. t[1] \in Batches /\ t[1][1] + (l - 1) <= n
      BY <1>2, <2>2 DEF Chain
    <3>2. t[1][1] \in Nat /\ c = t[1][1] - 1
      BY <2>2, <3>1 DEF Batches
    <3>3. l \in Nat
      BY <1>2
    <3> HIDE DEF l
    <3> QED
      BY <3>1, <3>2, <3>3
  <2>3. l \in Nat
    BY <1>2
  <2> HIDE DEF l
  <2> QED
    BY <2>1, <2>2, <2>3
<1>4. ASSUME NEW i \in 1..Len(w)
      PROVE  /\ 1 <= w[i][1] /\ w[i][1] <= w[i][2] /\ w[i][2] <= n
             /\ w[i][1] + (Len(w) - i) <= n
             /\ i < Len(w) => w[i][2] = w[i + 1][1] - 1
             /\ i >= Len(w) => w[i][2] = n
  <2>1. CASE i = 1
    BY <1>2, <1>3, <2>1, SMTT(30)
  <2>2. CASE i = 2
    <3>1. 0 < Len(t) => w[3] = t[1]
      <4>1. 0 < Len(t) => 3 \in 3..Len(w) /\ 3 - 2 = 1
        BY <1>2
      <4> QED
        BY <1>2, <4>1
    <3> QED
      BY <1>2, <1>3, <2>2, <3>1
  <2>3. CASE i \in 3..Len(w)
    <3> DEFINE k == i - 2
    <3>1. k \in 1..Len(t) /\ w[i] = t[k]
      BY <1>2, <2>3
    <3>2. CASE i < Len(w)
      <4>1. /\ k < Len(t) /\ i + 1 \in 3..Len(w) /\ (i + 1) - 2 = k + 1
            /\ Len(w) - i = Len(t) - k
        BY <1>2, <2>3, <3>2
      <4>2. w[i + 1] = t[k + 1]
        BY <1>2, <4>1, SMTT(30)
      <4> HIDE DEF k
      <4> QED
        BY <3>1, <3>2, <4>1, <4>2 DEF Chain
    <3>3. CASE i >= Len(w)
      <4>1. k >= Len(t)
        BY <1>2, <2>3, <3>3
      <4> HIDE DEF k
      <4> QED
        BY <3>1, <3>3, <4>1 DEF Chain
    <3> QED
      BY <3>2, <3>3
  <2> QED
    BY <2>1, <2>2, <2>3
<1>5. Chain(w, n)
  BY <1>1, <1>4 DEF Chain
<1> QED
  BY <1>1, <1>2, <1>5

(* So does a batch that is refused, whether it is skipped or halved.       *)
LEMMA RestChain ==
    ASSUME NEW n \in Nat, NEW st \in Seq(Batches), Chain(st, n), st # <<>>
    PROVE  /\ Chain(Rest(Head(st)) \o Tail(st), n)
           /\ Budget(st, n) + 1 <= Budget(Rest(Head(st)) \o Tail(st), n)
<1>1. Len(st) \in Nat /\ 1 <= Len(st) /\ 1 \in 1..Len(st)
  OBVIOUS
<1> DEFINE t == Tail(st)
<1>2. /\ t \in Seq(Batches) /\ Len(t) = Len(st) - 1 /\ Len(t) \in Nat
      /\ 1 < Len(st) => t[1] = st[2]
  OBVIOUS
<1>3. Chain(t, n) /\ Budget(st, n) + 1 <= Budget(t, n)
  BY TailChain
<1> SUFFICES /\ Chain(Rest(Head(st)) \o t, n)
             /\ Budget(st, n) + 1 <= Budget(Rest(Head(st)) \o t, n)
  OBVIOUS
<1> HIDE DEF t
<1>4. PICK a \in Nat, c \in Nat : st[1] = <<a, c>>
  <2>1. st[1] \in Batches
    BY <1>1
  <2>2. st[1][1] \in Nat /\ st[1][2] \in Nat /\ st[1] = <<st[1][1], st[1][2]>>
    BY <2>1 DEF Batches
  <2> QED
    BY <2>2
<1>5. Head(st) = <<a, c>>
  BY <1>4
<1>6. /\ 1 <= a /\ a <= c /\ c <= n
      /\ 0 < Len(t) => c = t[1][1] - 1
      /\ Len(t) = 0 => c = n
  <2>1. /\ 1 <= st[1][1] /\ st[1][1] <= st[1][2] /\ st[1][2] <= n
        /\ 1 < Len(st) => st[1][2] = st[1 + 1][1] - 1
        /\ 1 >= Len(st) => st[1][2] = n
    BY <1>1 DEF Chain
  <2>2. 0 < Len(t) <=> 1 < Len(st)
    BY <1>1, <1>2
  <2> QED
    BY <1>2, <1>4, <2>1, <2>2
<1>7. CASE a = c
  <2>1. Rest(Head(st)) = <<>>
    BY <1>5, <1>7 DEF Rest
  <2>2. Rest(Head(st)) \o t = t
    BY <1>2, <2>1, ConcatEmptySeq
  <2> QED
    BY <1>3, <2>2
<1>8. CASE a # c
  <2> DEFINE m   == a + (c - a + 1) \div 2
             two == <<(<<a, m - 1>>), <<m, c>>>>
  <2>1. m \in Nat /\ a <= m - 1 /\ m <= c
    BY <1>6, <1>8
  <2>2. Rest(Head(st)) = two
    BY <1>5, <1>8 DEF Rest, Halves
  <2> HIDE DEF m
  <2>3. <<a, m - 1>> \in Batches /\ <<m, c>> \in Batches
    BY <1>6, <2>1 DEF Batches
  <2>4. /\ two \in Seq(Batches) /\ Len(two) = 2
        /\ two[1] = <<a, m - 1>> /\ two[2] = <<m, c>>
    BY <2>3
  <2> HIDE DEF two
  <2>5. /\ Chain(two \o t, n) /\ Len(two \o t) = Len(t) + 2
        /\ (two \o t)[1][1] = a
    <3>1. Adjoin(two, a, m, c, t, n)
      BY <1>6, <2>1, <2>4 DEF Adjoin
    <3> QED
      BY <1>2, <1>3, <2>1, <3>1, PushTwo
  <2>6. two \o t # <<>>
    BY <1>1, <1>2, <2>4, <2>5
  <2>7. Budget(two \o t, n) = 2 * a + (Len(t) + 2) - 3
    BY <2>5, <2>6 DEF Budget
  <2>8. Budget(st, n) = 2 * a + Len(st) - 3
    BY <1>4 DEF Budget
  <2>9. Budget(st, n) + 1 <= Budget(two \o t, n)
    BY <1>1, <1>2, <2>7, <2>8
  <2> QED
    BY <2>2, <2>5, <2>9
<1> QED
  BY <1>7, <1>8

-----------------------------------------------------------------------------
(* Of a set of natural numbers one is smallest.                            *)
LEMMA Smallest ==
    ASSUME NEW S \in SUBSET Nat, S # {}
    PROVE  \E x \in S : \A y \in S : x <= y
<1> DEFINE R == OpToRel(<, Nat)
<1>1. PICK x \in S : \A y \in S : <<y, x>> \notin R
  BY NatLessThanWellFounded, WFMin
<1>2. ASSUME NEW y \in S PROVE x <= y
  <2>1. ~(y < x)
    BY <1>1 DEF OpToRel
  <2> QED
    BY <2>1
<1> QED
  BY <1>2

(* Of one with a bound one is greatest.                                    *)
LEMMA Greatest ==
    ASSUME NEW S \in SUBSET Nat, S # {}, NEW b \in Nat, \A x \in S : x <= b
    PROVE  \E t \in S : \A u \in S : u <= t
<1> DEFINE T == {b - x : x \in S}
<1>1. T \in SUBSET Nat /\ T # {}
  <2>1. \A x \in S : b - x \in Nat
    OBVIOUS
  <2>2. PICK s \in S : TRUE
    OBVIOUS
  <2>3. b - s \in T
    OBVIOUS
  <2> QED
    BY <2>1, <2>3
<1>2. \A x \in S : b - x \in T
  OBVIOUS
<1>3. \A y \in T : \E x \in S : y = b - x
  OBVIOUS
<1> HIDE DEF T
<1>4. PICK m \in T : \A y \in T : m <= y
  BY <1>1, Smallest
<1>5. PICK t \in S : m = b - t
  BY <1>3
<1>6. ASSUME NEW u \in S PROVE u <= t
  <2>1. m <= b - u
    BY <1>2, <1>4
  <2> QED
    BY <1>5, <2>1
<1> QED
  BY <1>6

(* selectBestProfilingFields takes all its fields from one metric group.   *)
OneGroup(set) == \E i \in DOMAIN metricGroups : set \subseteq metricGroups[i]

LEMMA BestIsOneGroup ==
    ASSUME metricGroups \in MetricGroups
    PROVE  /\ BestProfiling(metricGroups) \subseteq Field
           /\ BestProfiling(metricGroups) # {} => OneGroup(BestProfiling(metricGroups))
<1> DEFINE size(i) == Cardinality(Profiling \cap metricGroups[i])
           Dom     == DOMAIN metricGroups
           Best(b) == /\ \A j \in Dom : size(j) <= size(b)
                      /\ \A j \in 1..(b - 1) : size(j) < size(b)
<1>1. Profiling \subseteq Field /\ IsFiniteSet(Profiling)
  BY FieldAssumption, FS_Subset
<1>2. \A i : size(i) \in Nat /\ size(i) <= Cardinality(Profiling)
  BY <1>1, FS_Subset, FS_CardinalityType
<1>3. Cardinality(Profiling) \in Nat
  BY <1>1, FS_CardinalityType
<1>4. metricGroups \in Seq(SUBSET Field) /\ Dom \subseteq Nat
  BY MetricGroupAssumption
<1>5. CASE metricGroups = <<>>
  BY <1>5 DEF BestProfiling
<1>6. CASE metricGroups # <<>>
  <2>1. Dom # {}
    BY <1>4, <1>6
  <2> DEFINE Sizes   == {size(i) : i \in Dom}
             Largest == {i \in Dom : \A j \in Dom : size(j) <= size(i)}
  <2>2. Sizes \in SUBSET Nat /\ Sizes # {} /\ \A x \in Sizes : x <= Cardinality(Profiling)
    BY <1>2, <2>1
  <2>3. PICK x \in Sizes : \A y \in Sizes : y <= x
    BY <1>3, <2>2, Greatest
  <2>4. PICK m \in Dom : \A j \in Dom : size(j) <= size(m)
    BY <2>3
  <2>5. Largest \in SUBSET Nat /\ Largest # {}
    BY <1>4, <2>4
  <2>6. PICK b \in Largest : \A i \in Largest : b <= i
    BY <2>5, Smallest
  <2>7. ASSUME NEW j \in 1..(b - 1) PROVE size(j) < size(b)
    <3>1. j \in Dom /\ j \notin Largest
      <4>1. b \in Dom /\ b \in Nat /\ j \in Nat /\ j < b /\ 1 <= j
        BY <1>4, <2>5
      <4>2. Dom = 1..Len(metricGroups) /\ Len(metricGroups) \in Nat
        BY <1>4
      <4>3. j \in Dom
        BY <4>1, <4>2
      <4>4. j \notin Largest
        <5> SUFFICES ASSUME j \in Largest PROVE FALSE
          OBVIOUS
        <5>1. b <= j
          BY <2>6
        <5> QED
          BY <4>1, <5>1
      <4> QED
        BY <4>3, <4>4
    <3>2. PICK i \in Dom : ~(size(i) <= size(j))
      BY <3>1
    <3>3. size(i) <= size(b)
      BY <2>6
    <3>4. size(i) \in Nat /\ size(j) \in Nat /\ size(b) \in Nat
      BY <1>2
    <3> HIDE DEF size
    <3> QED
      BY <3>2, <3>3, <3>4
  <2>8. Best(b) /\ b \in Dom
    BY <2>6, <2>7
  <2> DEFINE c == CHOOSE i \in Dom : Best(i)
  <2>9. c \in Dom
    BY <2>8
  <2>10. BestProfiling(metricGroups) = Profiling \cap metricGroups[c]
    BY <1>6 DEF BestProfiling
  <2> HIDE DEF c
  <2> QED
    BY <1>1, <2>9, <2>10 DEF OneGroup
<1> QED
  BY <1>5, <1>6

-----------------------------------------------------------------------------
(***************************************************************************)
(* The invariant                                                           *)
(***************************************************************************)
MoreTypes ==
    /\ metricGroups \in MetricGroups
    /\ fields \subseteq Field /\ trial \subseteq Field
    /\ groups \subseteq Kept /\ watcher \subseteq Kept
    /\ probes \in Nat /\ hiccup \subseteq Stage

(* addBatch: the trial that is running is not counted in the budget.       *)
StackInv ==
    IF stage = DCP THEN stack = <<>>
    ELSE /\ Chain(stack, Len(Candidates[stage]))
         /\ \/ probes = 0
            \/ probes <= Budget(stack, Len(Candidates[stage]))
            \/ /\ pc \in Calls /\ probing
               /\ probes <= Budget(stack, Len(Candidates[stage])) + 1

(* createWatcher: what DCGM holds besides the groups that are kept.        *)
CountInv ==
    /\ IsFiniteSet(groups) /\ IsFiniteSet(watcher)
    /\ pc = "idle" => /\ fieldGroups = Cardinality(watcher)
                      /\ deviceGroups = Cardinality(watcher)
    /\ pc \in {"probe", "profiling", "fieldGroup"} =>
          fieldGroups = Cardinality(groups) /\ deviceGroups = Cardinality(groups)
    /\ pc = "group" =>
          fieldGroups = Cardinality(groups) + 1 /\ deviceGroups = Cardinality(groups)
    /\ pc \in {"add", "watch"} =>
          /\ fieldGroups = Cardinality(groups) + 1
          /\ deviceGroups = Cardinality(groups) + 1

HasFast(G) == \E g \in G : g.stage = 1 /\ Required \subseteq g.fields

Sound(G) == \A g \in G : /\ g.fields \in accepted
                         /\ g.stage = DCP => OneGroup(g.fields)

WholeInv ==
    /\ Sound(watcher) /\ (watcher # {} => HasFast(watcher))
    /\ pc # "idle" => /\ Sound(groups)
                      /\ stage # 1 => HasFast(groups)
                      /\ stage = 1 => Required \subseteq fields
    /\ pc \in Calls => /\ stage = 1 => Required \subseteq trial
                       /\ stage = DCP => OneGroup(trial)

-----------------------------------------------------------------------------
(***************************************************************************)
(* What a step may do to the variables, its control aside                  *)
(***************************************************************************)
LEMMA Candidate ==
    ASSUME NEW s \in 1..Len(Candidates), Chain(stack, Len(Candidates[s])), stack # <<>>
    PROVE  Batch(s, Head(stack)) \subseteq Field
<1>1. Candidates[s] \in Seq(Field) /\ Len(Candidates[s]) \in Nat
  BY FieldAssumption
<1>2. stack \in Seq(Batches) /\ 1 \in 1..Len(stack) /\ Head(stack) = stack[1]
  BY DEF Chain
<1>3. stack[1] \in Batches
  BY <1>2
<1>4. 1 <= stack[1][1] /\ stack[1][2] <= Len(Candidates[s])
  BY <1>2 DEF Chain
<1>5. stack[1][1]..stack[1][2] \subseteq 1..Len(Candidates[s])
  BY <1>1, <1>3, <1>4 DEF Batches
<1>6. \A i \in 1..Len(Candidates[s]) : Candidates[s][i] \in Field
  BY <1>1
<1> QED
  BY <1>2, <1>5, <1>6 DEF Batch

(* createWatcher is called with fields.                                    *)
LEMMA TrialTypes ==
    ASSUME IInv, MoreTypes, StackInv, Next
    PROVE  trial' \subseteq Field
<1>1. CASE Probe
  <2>1. /\ stack # <<>> /\ trial' = fields \cup Batch(stage, Head(stack))
        /\ stage # DCP
    BY <1>1 DEF Probe, Create, IInv, CallInv
  <2>2. stage \in 1..Len(Candidates)
    BY <2>1, FieldAssumption DEF IInv, Types, Stage, DCP
  <2>3. Batch(stage, Head(stack)) \subseteq Field
    BY <2>1, <2>2, Candidate DEF StackInv
  <2> QED
    BY <2>1, <2>3 DEF MoreTypes
<1>2. CASE KeepGroup
  BY <1>2 DEF KeepGroup, Create, MoreTypes
<1>3. CASE QueryProfiling
  BY <1>3, BestIsOneGroup DEF QueryProfiling, Create, MoreTypes
<1>4. CASE ~(Probe \/ KeepGroup \/ QueryProfiling)
  BY <1>4 DEF Next, Build, MoreTypes, EnsureWatcher, SkipGroup, DestroyWatcher,
     FieldGroupCreate, FieldGroupFails, CreateGroup, CreateGroupFails, AddToGroup,
     WatchFails, ProbeAccepted, GroupAccepted
<1> QED
  BY <1>1, <1>2, <1>3, <1>4

LEMMA MoreTypesNext ==
    ASSUME IInv, IInv', MoreTypes, StackInv, Next
    PROVE  MoreTypes'
<1> USE DEF EnsureWatcher, SkipGroup, DestroyWatcher, Probe, KeepGroup, QueryProfiling,
     FieldGroupCreate, FieldGroupFails, CreateGroup, CreateGroupFails, AddToGroup,
     WatchFails, ProbeAccepted, GroupAccepted, Refused, NextStage, Install, Create,
     search, dcgm
<1>1. metricGroups' = metricGroups
  BY DEF Next, Build
<1>2. fields' \in {fields, trial, Required, {}}
  BY DEF Next, Build
<1>3. groups' \in {groups, {}, groups \cup {[stage |-> stage, fields |-> trial]}}
  BY DEF Next, Build
<1>4. watcher' \in {watcher, {}, groups'}
  BY DEF Next, Build
<1>5. probes' \in {probes, 0, probes + 1}
  BY DEF Next, Build
<1>6. hiccup' \in {hiccup, {}, hiccup \cup {stage}}
  BY DEF Next, Build, Hiccup
<1>7. stage \in Stage
  BY DEF IInv, Types
<1>8. [stage |-> stage, fields |-> trial] \in Kept
  BY <1>7 DEF MoreTypes, Kept
<1> QED
  BY <1>1, <1>2, <1>3, <1>4, <1>5, <1>6, <1>7, <1>8, TrialTypes, FieldAssumption
  DEF MoreTypes

-----------------------------------------------------------------------------
(***************************************************************************)
(* The search                                                              *)
(***************************************************************************)
LEMMA ListNat == stage \in Stage /\ stage # DCP =>
    stage \in 1..Len(Candidates) /\ Len(Candidates[stage]) \in Nat
  BY FieldAssumption DEF Stage, DCP

LEMMA NextListStack == IInv /\ stage # DCP /\ NextStage => StackInv'
<1> SUFFICES ASSUME IInv, stage # DCP, NextStage PROVE StackInv'
  OBVIOUS
<1>1. /\ stage' = stage + 1 /\ probes' = 0
      /\ stack' = IF stage' = DCP THEN <<>> ELSE WholeList(stage')
  BY DEF NextStage
<1>2. stage' # DCP => stage' \in 1..Len(Candidates)
  BY <1>1, FieldAssumption DEF IInv, Types, Stage, DCP
<1> QED
  BY <1>1, <1>2, WholeListChain DEF StackInv

LEMMA ProbeStack == IInv /\ StackInv /\ MoreTypes /\ Probe => StackInv'
<1> SUFFICES ASSUME IInv, StackInv, MoreTypes, Probe PROVE StackInv'
  OBVIOUS
<1>1. /\ pc = "probe" /\ stack # <<>> /\ pc' \in Calls /\ probing'
      /\ probes' = probes + 1 /\ UNCHANGED <<stage, stack>>
  BY DEF Probe, Create, search, Calls
<1>2. stage # DCP
  BY <1>1 DEF IInv, CallInv
<1> DEFINE n == Len(Candidates[stage])
<1>3. stage \in 1..Len(Candidates) /\ n \in Nat /\ Chain(stack, n)
  BY <1>2, ListNat DEF IInv, Types, StackInv
<1>4. Budget(stack, n) \in Int /\ 0 <= Budget(stack, n)
  <2>1. stack \in Seq(Batches) /\ Len(stack) \in Nat /\ 1 <= Len(stack)
    BY <1>1, <1>3 DEF Chain
  <2>2. stack[1] \in Batches /\ 1 <= stack[1][1]
    BY <2>1, <1>3 DEF Chain
  <2>3. stack[1][1] \in Nat
    BY <2>2 DEF Batches
  <2> QED
    BY <1>1, <2>1, <2>2, <2>3 DEF Budget
<1>5. pc \notin Calls
  BY <1>1 DEF Calls
<1>6. probes <= Budget(stack, n)
  BY <1>2, <1>4, <1>5 DEF StackInv
<1>7. probes + 1 <= Budget(stack, n) + 1
  BY <1>4, <1>6 DEF MoreTypes
<1> QED
  BY <1>1, <1>2, <1>3, <1>7 DEF StackInv

(* A trial ends: its batch is taken from the stack, or refused.            *)
LEMMA TrialEndsStack ==
    ASSUME IInv, StackInv, MoreTypes, pc \in Calls, probing, stage # DCP,
           stack # <<>>, UNCHANGED <<stage, probes>>,
           stack' \in {Tail(stack), Rest(Head(stack)) \o Tail(stack)}
    PROVE  StackInv'
<1> DEFINE n == Len(Candidates[stage])
<1>1. n \in Nat /\ Chain(stack, n) /\ stack \in Seq(Batches)
  BY ListNat DEF IInv, Types, StackInv, Chain
<1>2. Chain(stack', n) /\ Budget(stack, n) + 1 <= Budget(stack', n)
  BY <1>1, TailChain, RestChain
<1>3. Budget(stack, n) \in Int /\ Budget(stack', n) \in Int
  <2>1. \A st \in Seq(Batches) : st # <<>> => Len(st) \in Nat /\ st[1] \in Batches
    OBVIOUS
  <2>2. \A st \in Seq(Batches) : Budget(st, n) \in Int
    BY <1>1, <2>1 DEF Budget, Batches
  <2>3. stack' \in Seq(Batches)
    BY <1>2 DEF Chain
  <2> QED
    BY <1>1, <2>2, <2>3
<1>4. probes' = 0 \/ probes' <= Budget(stack', n)
  BY <1>2, <1>3 DEF StackInv, MoreTypes
<1> QED
  BY <1>2, <1>4 DEF StackInv

LEMMA RefusedStack ==
    ASSUME IInv, StackInv, MoreTypes, pc \in Calls, Refused, UNCHANGED probing
    PROVE  StackInv'
<1>1. CASE probing
  <2>1. stage # DCP /\ stack # <<>>
    BY <1>1 DEF IInv, CallInv
  <2>2. stack' = Rest(Head(stack)) \o Tail(stack) /\ UNCHANGED <<stage, probes>>
    BY <1>1 DEF Refused
  <2> QED
    BY <1>1, <2>1, <2>2, TrialEndsStack
<1>2. CASE ~probing /\ stage \in {1, DCP}
  BY <1>2, StageNat DEF Refused, Install, search, StackInv
<1>3. CASE ~probing /\ stage \notin {1, DCP}
  BY <1>3, NextListStack DEF Refused
<1> QED
  BY <1>1, <1>2, <1>3

LEMMA StackNext == IInv /\ StackInv /\ MoreTypes /\ Next => StackInv'
<1> SUFFICES ASSUME IInv, StackInv, MoreTypes, Next PROVE StackInv'
  OBVIOUS
<1>1. CASE EnsureWatcher
  <2>1. stage' = 1 /\ stack' = WholeList(1) /\ probes' = 0
    BY <1>1 DEF EnsureWatcher
  <2>2. 1 \in 1..Len(Candidates) /\ 1 # DCP
    BY FieldAssumption DEF DCP
  <2> QED
    BY <2>1, <2>2, WholeListChain DEF StackInv
<1>2. CASE Probe
  BY <1>2, ProbeStack
<1>3. CASE SkipGroup
  BY <1>3, NextListStack DEF SkipGroup, IInv, CallInv
<1>4. CASE KeepGroup
  BY <1>4 DEF KeepGroup, Create, search, StackInv, Calls
<1>5. CASE QueryProfiling
  BY <1>5 DEF QueryProfiling, Create, Install, search, StackInv, IInv, CallInv
<1>6. CASE FieldGroupCreate \/ CreateGroup \/ AddToGroup
  BY <1>6 DEF FieldGroupCreate, CreateGroup, AddToGroup, search, StackInv, Calls
<1>7. CASE FieldGroupFails \/ CreateGroupFails \/ WatchFails
  <2>1. pc \in Calls /\ Refused /\ UNCHANGED probing
    BY <1>7 DEF FieldGroupFails, CreateGroupFails, WatchFails, Calls
  <2> QED
    BY <2>1, RefusedStack
<1>8. CASE ProbeAccepted
  <2>1. /\ pc \in Calls /\ probing /\ stack' = Tail(stack)
        /\ UNCHANGED <<stage, probes>>
    BY <1>8 DEF ProbeAccepted, Calls
  <2>2. stage # DCP /\ stack # <<>>
    BY <2>1 DEF IInv, CallInv
  <2> QED
    BY <2>1, <2>2, TrialEndsStack
<1>9. CASE GroupAccepted
  <2>1. CASE stage = DCP
    BY <1>9, <2>1 DEF GroupAccepted, Install, search, StackInv
  <2>2. CASE stage # DCP
    BY <1>9, <2>2, NextListStack DEF GroupAccepted
  <2> QED
    BY <2>1, <2>2
<1>10. CASE DestroyWatcher
  BY <1>10 DEF DestroyWatcher, search, StackInv, Calls
<1> QED
  BY <1>1, <1>2, <1>3, <1>4, <1>5, <1>6, <1>7, <1>8, <1>9, <1>10 DEF Next, Build

-----------------------------------------------------------------------------
(***************************************************************************)
(* The groups in DCGM                                                      *)
(***************************************************************************)
(* What is left of the groups when the first one fails: nothing.           *)
LEMMA NoGroupsAtFirst == IInv /\ pc # "idle" /\ stage = 1 => groups = {}
<1> SUFFICES ASSUME IInv, pc # "idle", stage = 1, NEW g \in groups PROVE FALSE
  OBVIOUS
<1>1. g.stage \in 1..0
  BY DEF IInv, GroupsInv
<1> QED
  BY <1>1

(* createWatcher gave an error: it goes on without that group, or ends with*)
(* what was built before.                                                  *)
LEMMA RefusedOutcome ==
    ASSUME IInv, pc \in Calls, Refused
    PROVE  /\ groups' = groups
           /\ \/ pc' \in {"probe", "profiling"} /\ watcher' = watcher
              \/ pc' = "idle" /\ watcher' = groups
<1>1. pc # "idle" /\ watcher = {}
  BY DEF IInv, GroupsInv, Calls
<1>2. CASE probing
  BY <1>2 DEF Refused
<1>3. CASE ~probing /\ stage = 1
  <2>1. DCP # 1
    BY StageNat
  <2>2. pc' = "idle" /\ groups' = groups /\ watcher' = watcher
    BY <1>3, <2>1 DEF Refused
  <2>3. groups = {}
    BY <1>1, <1>3, NoGroupsAtFirst
  <2> QED
    BY <1>1, <2>2, <2>3
<1>4. CASE ~probing /\ stage = DCP /\ stage # 1
  BY <1>4 DEF Refused, Install
<1>5. CASE ~probing /\ stage \notin {1, DCP}
  BY <1>5 DEF Refused, NextStage
<1> QED
  BY <1>2, <1>3, <1>4, <1>5

LEMMA CountNext == IInv /\ CountInv /\ Next => CountInv'
<1> SUFFICES ASSUME IInv, CountInv, Next PROVE CountInv'
  OBVIOUS
<1>1. Cardinality(groups) \in Nat /\ Cardinality(watcher) \in Nat
  BY FS_CardinalityType DEF CountInv
<1>2. Cardinality({}) = 0 /\ IsFiniteSet({})
  BY FS_EmptySet
<1>3. CASE EnsureWatcher
  BY <1>2, <1>3 DEF EnsureWatcher, CountInv
<1>4. CASE Probe \/ KeepGroup \/ SkipGroup
  <2>1. /\ pc = "probe" /\ pc' \in {"fieldGroup", "probe", "profiling"}
        /\ UNCHANGED <<fieldGroups, deviceGroups, groups, watcher>>
    BY <1>4 DEF Probe, KeepGroup, SkipGroup, Create, NextStage
  <2> QED
    BY <2>1 DEF CountInv
<1>5. CASE QueryProfiling
  <2>1. /\ pc = "profiling" /\ groups' = groups
        /\ UNCHANGED <<fieldGroups, deviceGroups>>
        /\ \/ pc' = "fieldGroup" /\ watcher' = watcher
           \/ pc' = "idle" /\ watcher' = groups
    BY <1>5 DEF QueryProfiling, Create, Install
  <2> QED
    BY <2>1 DEF CountInv
<1>6. CASE FieldGroupCreate \/ CreateGroup \/ AddToGroup
  BY <1>1, <1>6 DEF FieldGroupCreate, CreateGroup, AddToGroup, CountInv
<1>7. CASE FieldGroupFails \/ CreateGroupFails \/ WatchFails
  <2>1. pc \in Calls /\ Refused
    BY <1>7 DEF FieldGroupFails, CreateGroupFails, WatchFails, Calls
  <2>2. fieldGroups' = Cardinality(groups) /\ deviceGroups' = Cardinality(groups)
    BY <1>1, <1>7 DEF FieldGroupFails, CreateGroupFails, WatchFails, CountInv
  <2> QED
    BY <2>1, <2>2, RefusedOutcome DEF CountInv
<1>8. CASE ProbeAccepted
  BY <1>1, <1>8 DEF ProbeAccepted, CountInv
<1>9. CASE GroupAccepted
  <2> DEFINE new == [stage |-> stage, fields |-> trial]
  <2>1. /\ pc = "watch" /\ groups' = groups \cup {new}
        /\ UNCHANGED <<fieldGroups, deviceGroups>>
        /\ \/ pc' \in {"probe", "profiling"} /\ watcher' = watcher
           \/ pc' = "idle" /\ watcher' = groups'
    BY <1>9 DEF GroupAccepted, Install, NextStage
  <2>2. new \notin groups
    <3>1. \A g \in groups : g.stage # stage
      BY <2>1, StageNat DEF IInv, Types, GroupsInv
    <3> QED
      BY <3>1
  <2> HIDE DEF new
  <2>3. IsFiniteSet(groups') /\ Cardinality(groups') = Cardinality(groups) + 1
    BY <2>1, <2>2, FS_AddElement DEF CountInv
  <2> QED
    BY <2>1, <2>3 DEF CountInv
<1>10. CASE DestroyWatcher
  BY <1>1, <1>2, <1>10 DEF DestroyWatcher, CountInv
<1> QED
  BY <1>3, <1>4, <1>5, <1>6, <1>7, <1>8, <1>9, <1>10 DEF Next, Build

-----------------------------------------------------------------------------
(***************************************************************************)
(* What a watcher consists of                                              *)
(***************************************************************************)
(* On to the next list, with the groups of before and, at the first list,  *)
(* with a group that has the required fields.                              *)
LEMMA NextListWhole ==
    ASSUME IInv, WholeInv, stage # DCP, pc # "idle", NextStage,
           UNCHANGED <<accepted, metricGroups, watcher>>,
           Sound(groups'), HasFast(groups')
    PROVE  WholeInv'
<1>1. /\ stage' = stage + 1 /\ pc' \in {"probe", "profiling"}
  BY DEF NextStage
<1>2. stage' # 1
  BY <1>1, StageNat DEF IInv, Types
<1>3. watcher' = {}
  BY DEF IInv, GroupsInv
<1> QED
  BY <1>1, <1>2, <1>3 DEF WholeInv, Sound, HasFast, OneGroup, Calls

LEMMA RefusedWhole ==
    ASSUME IInv, WholeInv, pc \in Calls, Refused,
           UNCHANGED <<accepted, metricGroups, probing, trial>>
    PROVE  WholeInv'
<1>1. pc # "idle" /\ watcher = {}
  BY DEF IInv, GroupsInv, Calls
<1>2. CASE probing
  BY <1>1, <1>2 DEF Refused, WholeInv, Sound, HasFast, OneGroup, Calls
<1>3. CASE ~probing /\ stage = 1
  BY <1>1, <1>3, StageNat DEF Refused, search, WholeInv, Sound, HasFast, OneGroup, Calls
<1>4. CASE ~probing /\ stage = DCP /\ stage # 1
  BY <1>1, <1>4 DEF Refused, Install, search, WholeInv, Sound, HasFast, OneGroup, Calls
<1>5. CASE ~probing /\ stage \notin {1, DCP}
  BY <1>1, <1>5, NextListWhole DEF Refused, WholeInv, Sound, HasFast, OneGroup
<1> QED
  BY <1>2, <1>3, <1>4, <1>5

LEMMA GroupAcceptedWhole == IInv /\ WholeInv /\ GroupAccepted => WholeInv'
<1> SUFFICES ASSUME IInv, WholeInv, GroupAccepted PROVE WholeInv'
  OBVIOUS
<1> DEFINE new == [stage |-> stage, fields |-> trial]
<1>1. /\ pc = "watch" /\ pc # "idle" /\ pc \in Calls /\ trial \in accepted
      /\ groups' = groups \cup {new} /\ UNCHANGED <<accepted, metricGroups>>
  BY DEF GroupAccepted, dcgm, Calls
<1>2. Sound(groups')
  BY <1>1 DEF WholeInv, Sound, OneGroup
<1>3. HasFast(groups')
  <2>1. CASE stage = 1
    <3>1. new.stage = 1 /\ Required \subseteq new.fields /\ new \in groups'
      BY <1>1, <2>1 DEF WholeInv
    <3> QED
      BY <3>1 DEF HasFast
  <2>2. CASE stage # 1
    BY <1>1, <2>2 DEF WholeInv, HasFast
  <2> QED
    BY <2>1, <2>2
<1>4. CASE stage = DCP
  <2>1. watcher' = groups' /\ pc' = "idle"
    BY <1>4 DEF GroupAccepted, Install
  <2> QED
    BY <1>1, <1>2, <1>3, <2>1 DEF WholeInv, Sound, HasFast, OneGroup, Calls
<1>5. CASE stage # DCP
  BY <1>1, <1>2, <1>3, <1>5, NextListWhole DEF GroupAccepted
<1> QED
  BY <1>4, <1>5

LEMMA WholeNext == IInv /\ MoreTypes /\ WholeInv /\ Next => WholeInv'
<1> SUFFICES ASSUME IInv, MoreTypes, WholeInv, Next PROVE WholeInv'
  OBVIOUS
<1> USE DEF WholeInv, Sound, HasFast, OneGroup, Calls, dcgm, search
<1>1. CASE EnsureWatcher
  BY <1>1 DEF EnsureWatcher
<1>2. CASE Probe \/ KeepGroup
  <2>1. /\ pc = "probe" /\ pc' = "fieldGroup" /\ fields \subseteq trial'
        /\ UNCHANGED <<accepted, metricGroups, stage, fields, groups, watcher>>
    BY <1>2 DEF Probe, KeepGroup, Create
  <2>2. stage # DCP
    BY <2>1 DEF IInv, CallInv
  <2> QED
    BY <2>1, <2>2
<1>3. CASE SkipGroup
  <2>1. stage # 1
    BY <1>3, FieldAssumption DEF SkipGroup
  <2>2. stage # DCP
    BY <1>3 DEF SkipGroup, IInv, CallInv
  <2>3. /\ pc # "idle" /\ NextStage
        /\ UNCHANGED <<accepted, metricGroups, groups, watcher>>
    BY <1>3 DEF SkipGroup
  <2> QED
    BY <2>1, <2>2, <2>3, NextListWhole
<1>4. CASE QueryProfiling
  <2>1. /\ pc = "profiling" /\ stage = DCP /\ stage # 1
        /\ UNCHANGED <<accepted, metricGroups, stage, fields, groups>>
    BY <1>4, StageNat DEF QueryProfiling, IInv, CallInv, Create, Install
  <2>2. \/ pc' = "idle" /\ watcher' = groups
        \/ pc' = "fieldGroup" /\ watcher' = watcher /\ OneGroup(trial')
    BY <1>4, BestIsOneGroup DEF QueryProfiling, Create, Install, MoreTypes
  <2> QED
    BY <2>1, <2>2
<1>5. CASE FieldGroupCreate \/ CreateGroup \/ AddToGroup
  <2>1. /\ pc \in Calls /\ pc' \in Calls
        /\ UNCHANGED <<accepted, metricGroups, stage, fields, trial, groups, watcher>>
    BY <1>5 DEF FieldGroupCreate, CreateGroup, AddToGroup
  <2> QED
    BY <2>1
<1>6. CASE FieldGroupFails \/ CreateGroupFails \/ WatchFails
  <2>1. pc \in Calls /\ Refused /\ UNCHANGED <<accepted, metricGroups, probing, trial>>
    BY <1>6 DEF FieldGroupFails, CreateGroupFails, WatchFails
  <2> QED
    BY <2>1, RefusedWhole
<1>7. CASE ProbeAccepted
  BY <1>7 DEF ProbeAccepted
<1>8. CASE GroupAccepted
  BY <1>8, GroupAcceptedWhole
<1>9. CASE DestroyWatcher
  BY <1>9 DEF DestroyWatcher
<1> QED
  BY <1>1, <1>2, <1>3, <1>4, <1>5, <1>6, <1>7, <1>8, <1>9 DEF Next, Build

-----------------------------------------------------------------------------
GInv == MoreTypes /\ StackInv /\ CountInv /\ WholeInv

LEMMA GInit == Init => GInv
<1> SUFFICES ASSUME Init PROVE GInv
  OBVIOUS
<1>1. MoreTypes
  BY DEF Init, MoreTypes
<1>2. StackInv
  <2>1. 1 # DCP /\ Len(Candidates[1]) \in Nat
    BY FieldAssumption DEF DCP
  <2> QED
    BY <2>1 DEF Init, StackInv, Chain
<1>3. CountInv
  BY FS_EmptySet DEF Init, CountInv
<1>4. WholeInv
  BY DEF Init, WholeInv, Sound, Calls
<1> QED
  BY <1>1, <1>2, <1>3, <1>4 DEF GInv

LEMMA GNext == IInv /\ IInv' /\ GInv /\ [Next]_vars => GInv'
<1> SUFFICES ASSUME IInv, IInv', GInv, [Next]_vars PROVE GInv'
  OBVIOUS
<1>1. CASE Next
  BY <1>1, MoreTypesNext, StackNext, CountNext, WholeNext DEF GInv
<1>2. CASE UNCHANGED vars
  BY <1>2 DEF vars, GInv, MoreTypes, StackInv, CountInv, WholeInv, Sound, HasFast, OneGroup
<1> QED
  BY <1>1, <1>2

LEMMA GInvariant == Spec => [](IInv /\ GInv)
<1>1. IInv /\ GInv /\ [Next]_vars => (IInv /\ GInv)'
  BY NextInv, GNext
<1> QED
  BY <1>1, InitInv, GInit, PTL DEF Spec

(***************************************************************************)
(* ensureWatcher keeps its types; in particular the batches of addBatch are*)
(* never empty, and DCGM never holds a negative number of groups.          *)
(***************************************************************************)
THEOREM TypeCorrect == Spec => []TypeOK
<1>1. IInv /\ GInv => TypeOK
  <2> SUFFICES ASSUME IInv, GInv PROVE TypeOK
    OBVIOUS
  <2>1. stack \in Seq(Nat \X Nat)
    <3>1. CASE stage = DCP
      BY <3>1 DEF GInv, StackInv
    <3>2. CASE stage # DCP
      BY <3>2 DEF GInv, StackInv, Chain, Batches
    <3> QED
      BY <3>1, <3>2
  <2>2. fieldGroups \in Nat /\ deviceGroups \in Nat
    <3>1. Cardinality(groups) \in Nat /\ Cardinality(watcher) \in Nat
      BY FS_CardinalityType DEF GInv, CountInv
    <3> QED
      BY <3>1 DEF IInv, Types, Calls, GInv, CountInv
  <2> QED
    BY <2>1, <2>2 DEF IInv, Types, Calls, GInv, MoreTypes, TypeOK
<1> QED
  BY <1>1, GInvariant, PTL

(***************************************************************************)
(* createWatcher and destroyFieldWatcher: wherever a call fails, DCGM holds*)
(* between two passes the groups of the watcher and none besides.          *)
(***************************************************************************)
THEOREM GroupsCorrect == Spec => []NoGroupLeaks
<1>1. GInv => NoGroupLeaks
  BY DEF GInv, CountInv, NoGroupLeaks
<1> QED
  BY <1>1, GInvariant, PTL

(***************************************************************************)
(* addBatch: however often a list of n fields is halved, it takes at most  *)
(* 2n - 1 trials.                                                          *)
(***************************************************************************)
THEOREM ProbesCorrect == Spec => []ProbesBounded
<1>1. IInv /\ GInv => ProbesBounded
  <2> SUFFICES ASSUME IInv, GInv, stage # DCP, probes # 0
               PROVE  probes < 2 * Len(Candidates[stage])
    BY DEF ProbesBounded
  <2> DEFINE n == Len(Candidates[stage])
  <2>1. n \in Nat /\ probes \in Nat /\ Chain(stack, n)
    BY ListNat DEF IInv, Types, GInv, MoreTypes, StackInv
  <2>2. CASE stack = <<>>
    <3>1. ~(pc \in Calls /\ probing)
      BY <2>2 DEF IInv, CallInv
    <3>2. probes <= 2 * n - 1
      BY <2>2, <3>1 DEF GInv, StackInv, Budget
    <3> QED
      BY <2>1, <3>2
  <2>3. CASE stack # <<>>
    <3>1. stack \in Seq(Batches) /\ Len(stack) \in Nat /\ 1 \in 1..Len(stack)
      BY <2>1, <2>3 DEF Chain
    <3>2. stack[1] \in Batches
      BY <3>1
    <3>3. stack[1][1] \in Nat
      BY <3>2 DEF Batches
    <3>4. stack[1][1] + (Len(stack) - 1) <= n /\ stack[1][1] <= n
      <4>1. /\ stack[1][1] + (Len(stack) - 1) <= n
            /\ 1 <= stack[1][1] /\ stack[1][1] <= stack[1][2] /\ stack[1][2] <= n
        BY <2>1, <3>1 DEF Chain
      <4>2. stack[1][2] \in Nat
        BY <3>2 DEF Batches
      <4> QED
        BY <2>1, <3>3, <4>1, <4>2
    <3>5. Budget(stack, n) = 2 * stack[1][1] + Len(stack) - 3
      BY <2>3 DEF Budget
    <3>6. Budget(stack, n) \in Int /\ Budget(stack, n) + 1 < 2 * n
      BY <2>1, <3>1, <3>3, <3>4, <3>5
    <3>7. probes <= Budget(stack, n) + 1
      BY <2>1, <3>6 DEF GInv, StackInv
    <3> QED
      BY <2>1, <3>6, <3>7
  <2> QED
    BY <2>2, <2>3
<1> QED
  BY <1>1, GInvariant, PTL

(***************************************************************************)
(* ensureWatcher: a watcher has its fast group with all required fields,   *)
(* DCGM accepts each of its groups, and its DCP fields are of one metric   *)
(* group, for any metric groups that DCGM may report.                      *)
(***************************************************************************)
THEOREM WholeCorrect == Spec => []WatcherIsWhole
<1>1. GInv => WatcherIsWhole
  BY DEF GInv, WholeInv, Sound, HasFast, OneGroup, WatcherIsWhole
<1> QED
  BY <1>1, GInvariant, PTL

=============================================================================
