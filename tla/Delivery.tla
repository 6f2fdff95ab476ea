------------------------------- MODULE Delivery -------------------------------
(***************************************************************************)
(* What becomes of the valid values DCGM records (README.md:297: "computed *)
(* from every DCGM value returned by GetValuesSince"): each one waits, is  *)
(* fetched once, and is counted or lost with the whole sample it is in; or *)
(* is lost unfetched, when it waits until DCGM has forgotten it. A fetch   *)
(* leaves nothing older behind.                                            *)
(***************************************************************************)
EXTENDS Integers

CONSTANTS
    Field,
    Time        \* when values may be recorded

VARIABLES
    waiting,    \* for each field, the times of the values not fetched yet
    taken,      \* fetched, in the sample under construction
    counted,    \* delivered to the windows and the integrals
    lost        \* never delivered

vars == <<waiting, taken, counted, lost>>

Nothing == [f \in Field |-> {}]

With(bag, more) == [f \in Field |-> bag[f] \cup more[f]]

Init == waiting = Nothing /\ taken = Nothing /\ counted = Nothing /\ lost = Nothing

Record(F, t) ==
    /\ \A f \in F : \A u \in waiting[f] \cup taken[f] \cup counted[f] \cup lost[f] : u < t
    /\ waiting' = [f \in Field |-> IF f \in F THEN waiting[f] \cup {t} ELSE waiting[f]]
    /\ UNCHANGED <<taken, counted, lost>>

(* What was recorded before low is forgotten, and what was before high is  *)
(* fetched.                                                                *)
Fetch(F, low, high) ==
    /\ \A f \in F : taken[f] = {}
    /\ waiting' = [f \in Field |-> IF f \in F THEN {t \in waiting[f] : t >= high}
                                              ELSE waiting[f]]
    /\ taken' = [f \in Field |-> IF f \in F THEN {t \in waiting[f] : t >= low /\ t < high}
                                            ELSE taken[f]]
    /\ lost' = [f \in Field |-> IF f \in F THEN lost[f] \cup {t \in waiting[f] : t < low}
                                           ELSE lost[f]]
    /\ UNCHANGED counted

Deliver == counted' = With(counted, taken) /\ taken' = Nothing /\ UNCHANGED <<waiting, lost>>

Drop == lost' = With(lost, taken) /\ taken' = Nothing /\ UNCHANGED <<waiting, counted>>

Next ==
    \/ \E F \in SUBSET Field, t \in Time : Record(F, t)
    \/ \E F \in SUBSET Field, low, high \in Time : low <= high /\ Fetch(F, low, high)
    \/ Deliver
    \/ Drop

Spec == Init /\ [][Next]_vars
=============================================================================
