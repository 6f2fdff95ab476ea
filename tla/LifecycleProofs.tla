--------------------------- MODULE LifecycleProofs ---------------------------
(***************************************************************************)
(* Proofs about Lifecycle: types, and what an exit code of 0 means.        *)
(***************************************************************************)
EXTENDS Lifecycle, TLAPS

(* The server accepts connections only before run has stopped waiting, or  *)
(* after it stopped waiting for a reason that makes the exit code 1; and   *)
(* once the server was shut down without an error nothing is served.       *)
ShutInv ==
    /\ main = "init" => server = "off" /\ scrapes = 0
    /\ main = "wait" => server # "off"
    /\ main = "shutdown" => ctxDone /\ server \in {"draining", "failed"}
    /\ main \in {"close", "cleanup", "exited"} /\ exitCode = 0 =>
         ctxDone /\ server \in {"draining", "failed"} /\ scrapes = 0
    /\ main = "exited" /\ exitCode = 0 => dcgm = "closed"

IInv == TypeOK /\ ShutInv

LEMMA InitInv == Init => IInv
<1> SUFFICES ASSUME Init PROVE IInv
  OBVIOUS
<1>1. scrapes \in 0..MaxScrapes
  BY ScrapesAssumption DEF Init
<1>2. ctxDone \in BOOLEAN /\ collectTick \in BOOLEAN /\ windowTick \in BOOLEAN
  BY DEF Init
<1>3. exitCode \in {0, 1}
  BY DEF Init
<1> QED
  BY <1>1, <1>2, <1>3 DEF Init, IInv, TypeOK, ShutInv

LEMMA MainInv == IInv /\ Main => IInv'
<1> SUFFICES ASSUME IInv, Main PROVE IInv'
  OBVIOUS
<1> USE DEF IInv, TypeOK, ShutInv, loop, http
<1>1. CASE InitFails
  BY <1>1 DEF InitFails
<1>2. CASE Start
  <2>1. TypeOK'
    BY <1>2 DEF Start
  <2>2. ShutInv'
    BY <1>2 DEF Start
  <2> QED
    BY <2>1, <2>2
<1>3. CASE WaitDone
  <2>1. TypeOK'
    BY <1>3 DEF WaitDone
  <2>2. ShutInv'
    BY <1>3 DEF WaitDone
  <2> QED
    BY <2>1, <2>2
<1>4. CASE WaitServerFailed
  BY <1>4 DEF WaitServerFailed
<1>5. CASE ShutDown
  BY <1>5 DEF ShutDown
<1>6. CASE ShutdownTimesOut
  BY <1>6 DEF ShutdownTimesOut
<1>7. CASE Close
  BY <1>7 DEF Close
<1>8. CASE Cleanup
  BY <1>8 DEF Cleanup
<1> QED
  BY <1>1, <1>2, <1>3, <1>4, <1>5, <1>6, <1>7, <1>8 DEF Main

LEMMA RunInv == IInv /\ Run => IInv'
<1> SUFFICES ASSUME IInv, Run PROVE IInv'
  OBVIOUS
<1>1. /\ collector' \in {"off", "sampling", "select", "done"}
      /\ collectTick' \in BOOLEAN /\ windowTick' \in BOOLEAN
      /\ UNCHANGED <<main, exitCode, ctxDone, http, dcgm>>
  BY DEF IInv, TypeOK, Run, CollectTick, WindowTick, CollectReturns,
         SelectCollect, SelectWindow, SelectDone
<1> QED
  BY <1>1 DEF IInv, TypeOK, ShutInv, http

LEMMA HTTPInv == IInv /\ (Signal \/ ServerFails \/ Scrape \/ Answer) => IInv'
<1> SUFFICES ASSUME IInv, Signal \/ ServerFails \/ Scrape \/ Answer PROVE IInv'
  OBVIOUS
<1> USE ScrapesAssumption DEF IInv, TypeOK, ShutInv, loop, http, Running
<1>1. CASE Signal
  BY <1>1 DEF Signal
<1>2. CASE ServerFails
  BY <1>2 DEF ServerFails
<1>3. CASE Scrape
  BY <1>3 DEF Scrape
<1>4. CASE Answer
  BY <1>4 DEF Answer
<1> QED
  BY <1>1, <1>2, <1>3, <1>4

LEMMA NextInv == IInv /\ [Next]_vars => IInv'
<1> SUFFICES ASSUME IInv, [Next]_vars PROVE IInv'
  OBVIOUS
<1>1. CASE UNCHANGED vars
  BY <1>1 DEF vars, IInv, TypeOK, ShutInv
<1> QED
  BY <1>1, MainInv, RunInv, HTTPInv DEF Next

(* The values the goroutines of main.go share stay within their types; in  *)
(* particular no request is answered that was not served.                  *)
THEOREM TypeCorrect == Spec => []TypeOK
<1>1. IInv => TypeOK
  BY DEF IInv
<1> QED
  BY <1>1, InitInv, NextInv, PTL DEF Spec

(* run returns 0 only after a signal, with DCGM closed and no request cut  *)
(* off, wherever the collector is: it may still be inside a pass.          *)
THEOREM ExitCorrect == Spec => []CleanExit
<1>1. IInv => CleanExit
  BY DEF IInv, TypeOK, ShutInv, CleanExit, Running
<1> QED
  BY <1>1, InitInv, NextInv, PTL DEF Spec

=============================================================================
