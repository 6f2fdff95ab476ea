------------------------------ MODULE Readiness ------------------------------
(***************************************************************************)
(* What /ready promises (README.md:291: "returns 200 only when the latest  *)
(* recent collection completed for every discovered GPU"): passes follow   *)
(* one another; any fault, no GPU at all included, spoils the pass it      *)
(* happens in; at its end a pass decides the health, once and for all      *)
(* until the next pass ends, and only one without a fault renews its age.  *)
(***************************************************************************)
EXTENDS Integers

CONSTANT MaxAge     \* how old the last success may be

VARIABLES
    pass,       \* "none", or "clean" or "spoilt" while one is running
    healthy,    \* the latest pass to end was clean
    age         \* ticks since a clean pass ended, saturating at MaxAge + 1

vars == <<pass, healthy, age>>

Init == pass = "none" /\ healthy = FALSE /\ age = MaxAge + 1

Begin == pass = "none" /\ pass' = "clean" /\ UNCHANGED <<healthy, age>>

Fault == pass = "clean" /\ pass' = "spoilt" /\ UNCHANGED <<healthy, age>>

End ==
    /\ pass # "none"
    /\ pass' = "none"
    /\ healthy' = (pass = "clean")
    /\ age' = IF pass = "clean" THEN 0 ELSE age

Tick == age <= MaxAge /\ age' = age + 1 /\ UNCHANGED <<pass, healthy>>

Next == Begin \/ Fault \/ End \/ Tick

Spec == Init /\ [][Next]_vars
=============================================================================
