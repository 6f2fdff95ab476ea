------------------------------ MODULE Lifecycle ------------------------------
(***************************************************************************)
(* The life of the process: run of main.go opens DCGM, starts the collector*)
(* loop Exporter.Run and the HTTP server as goroutines, waits for a signal *)
(* or for the server to fail, shuts the server down and closes DCGM on the *)
(* way out. The collector is not waited for: it may be anywhere, also in a *)
(* DCGM call that never returns, and ends with the process.                *)
(*                                                                         *)
(* A pass is only its beginning and its end here (Collector has the rest). *)
(***************************************************************************)
EXTENDS Integers

CONSTANTS
    MaxScrapes      \* bound: the HTTP requests served at once

ASSUME ScrapesAssumption == MaxScrapes \in Nat

VARIABLES
    main,           \* where run is
    exitCode,       \* what it returns
    ctxDone,        \* the context of the signals is done
    collector,      \* where Exporter.Run is
    collectTick,    \* the channel of collectTicker holds a tick
    windowTick,     \* the channel of windowTicker holds a tick
    server,         \* "off", "listening", "draining", "failed"
    scrapes,        \* HTTP requests being served
    dcgm            \* "none", "open", "closing" (inside Close), "closed"

loop == <<collector, collectTick, windowTick>>
http == <<server, scrapes>>
vars == <<main, exitCode, ctxDone, collector, collectTick, windowTick, server,
          scrapes, dcgm>>

Running == main # "exited"

Init ==
    /\ main = "init" /\ exitCode = 0
    /\ ctxDone = FALSE
    /\ collector = "off" /\ collectTick = FALSE /\ windowTick = FALSE
    /\ server = "off" /\ scrapes = 0
    /\ dcgm = "none"

-----------------------------------------------------------------------------
(***************************************************************************)
(* run                                                                     *)
(***************************************************************************)
InitFails ==
    /\ main = "init"
    /\ main' = "exited" /\ exitCode' = 1
    /\ UNCHANGED <<ctxDone, loop, http, dcgm>>

Start ==
    /\ main = "init"
    /\ main' = "wait"
    /\ collector' = "sampling"          \* Run collects before its first tick
    /\ server' = "listening"
    /\ dcgm' = "open"
    /\ UNCHANGED <<exitCode, ctxDone, collectTick, windowTick, scrapes>>

WaitDone ==
    /\ main = "wait" /\ ctxDone
    /\ main' = "shutdown"
    /\ server' = IF server = "listening" THEN "draining" ELSE server
    /\ UNCHANGED <<exitCode, ctxDone, loop, scrapes, dcgm>>

WaitServerFailed ==
    /\ main = "wait" /\ server = "failed"
    /\ main' = "close" /\ exitCode' = 1
    /\ UNCHANGED <<ctxDone, loop, http, dcgm>>

(* Server.Shutdown returns once no request is left, or after 10 seconds.   *)
ShutDown ==
    /\ main = "shutdown" /\ scrapes = 0
    /\ main' = "close"
    /\ UNCHANGED <<exitCode, ctxDone, loop, http, dcgm>>

TimeOutQuietly ==                       \* mutant: the error of Shutdown is dropped
    /\ main = "shutdown" /\ scrapes > 0
    /\ main' = "close"
    /\ UNCHANGED <<exitCode, ctxDone, loop, http, dcgm>>

ShutdownTimesOut ==
    /\ main = "shutdown" /\ scrapes > 0
    /\ main' = "close" /\ exitCode' = 1
    /\ UNCHANGED <<ctxDone, loop, http, dcgm>>

(* The deferred Close, which holds the mutex of the client; the collector  *)
(* holds it for map accesses only, never in a DCGM call.                   *)
CloseWhenStopped ==                     \* mutant: Close waits for the collector
    /\ main = "close" /\ collector = "done"
    /\ dcgm' = "closing" /\ main' = "cleanup"
    /\ UNCHANGED <<exitCode, ctxDone, loop, http>>

Close ==
    /\ main = "close"
    /\ dcgm' = "closing" /\ main' = "cleanup"
    /\ UNCHANGED <<exitCode, ctxDone, loop, http>>

Cleanup ==
    /\ main = "cleanup"
    /\ dcgm' = "closed" /\ main' = "exited"
    /\ UNCHANGED <<exitCode, ctxDone, loop, http>>

-----------------------------------------------------------------------------
(***************************************************************************)
(* Exporter.Run                                                            *)
(***************************************************************************)
(* A tick that finds the last one still in the channel is dropped.         *)
CollectTick ==
    /\ Running /\ collector \in {"sampling", "select"}
    /\ collectTick' = TRUE
    /\ UNCHANGED <<main, exitCode, ctxDone, collector, windowTick, http, dcgm>>

WindowTick ==
    /\ Running /\ collector \in {"sampling", "select"}
    /\ windowTick' = TRUE
    /\ UNCHANGED <<main, exitCode, ctxDone, collector, collectTick, http, dcgm>>

CollectReturns ==
    /\ Running /\ collector = "sampling"
    /\ collector' = "select"
    /\ UNCHANGED <<main, exitCode, ctxDone, collectTick, windowTick, http, dcgm>>

SelectCollect ==
    /\ Running /\ collector = "select" /\ collectTick
    /\ collectTick' = FALSE
    /\ collector' = "sampling"
    /\ UNCHANGED <<main, exitCode, ctxDone, windowTick, http, dcgm>>

SelectWindowLast ==                     \* mutant: collection goes first
    /\ Running /\ collector = "select" /\ windowTick /\ ~collectTick
    /\ windowTick' = FALSE
    /\ UNCHANGED <<main, exitCode, ctxDone, collector, collectTick, http, dcgm>>

SelectWindow ==
    /\ Running /\ collector = "select" /\ windowTick
    /\ windowTick' = FALSE
    /\ UNCHANGED <<main, exitCode, ctxDone, collector, collectTick, http, dcgm>>

SelectDone ==
    /\ Running /\ collector = "select" /\ ctxDone
    /\ collector' = "done"
    /\ UNCHANGED <<main, exitCode, ctxDone, collectTick, windowTick, http, dcgm>>

-----------------------------------------------------------------------------
(***************************************************************************)
(* The server, its clients and the operator                                *)
(***************************************************************************)
Signal ==
    /\ Running /\ main # "init" /\ ~ctxDone
    /\ ctxDone' = TRUE
    /\ UNCHANGED <<main, exitCode, loop, http, dcgm>>

ServerFails ==
    /\ Running /\ server = "listening"
    /\ server' = "failed"
    /\ UNCHANGED <<main, exitCode, ctxDone, loop, scrapes, dcgm>>

Scrape ==
    /\ Running /\ server = "listening" /\ scrapes < MaxScrapes
    /\ scrapes' = scrapes + 1
    /\ UNCHANGED <<main, exitCode, ctxDone, loop, server, dcgm>>

AnswerAgain ==                          \* mutant: a request is answered twice
    /\ Running /\ server # "off"
    /\ scrapes' = scrapes - 1
    /\ UNCHANGED <<main, exitCode, ctxDone, loop, server, dcgm>>

Answer ==
    /\ Running /\ scrapes > 0
    /\ scrapes' = scrapes - 1
    /\ UNCHANGED <<main, exitCode, ctxDone, loop, server, dcgm>>

-----------------------------------------------------------------------------
Main ==
    \/ InitFails \/ Start
    \/ WaitDone \/ WaitServerFailed
    \/ ShutDown \/ ShutdownTimesOut
    \/ Close \/ Cleanup

Run ==
    \/ CollectTick \/ WindowTick
    \/ CollectReturns
    \/ SelectCollect \/ SelectWindow \/ SelectDone

Next == Main \/ Run \/ Signal \/ ServerFails \/ Scrape \/ Answer

(* The main goroutine is scheduled, select leaves no ready channel out for *)
(* ever, and nothing else is sure: a DCGM call of the collector, a request *)
(* and a signal may all take for ever.                                     *)
Spec == Init /\ [][Next]_vars /\ WF_vars(Main) /\ SF_vars(SelectWindow)

-----------------------------------------------------------------------------
(***************************************************************************)
(* Properties                                                              *)
(***************************************************************************)
(* The types of all variables.                                             *)
TypeOK ==
    /\ main \in {"init", "wait", "shutdown", "close", "cleanup", "exited"}
    /\ exitCode \in {0, 1}
    /\ ctxDone \in BOOLEAN
    /\ collector \in {"off", "sampling", "select", "done"}
    /\ collectTick \in BOOLEAN /\ windowTick \in BOOLEAN
    /\ server \in {"off", "listening", "draining", "failed"}
    /\ scrapes \in 0..MaxScrapes
    /\ dcgm \in {"none", "open", "closing", "closed"}

(* run: a signal ends the process, though a DCGM call of the collector and *)
(* a request being served may hang.                                        *)
StopsAfterSignal == ctxDone ~> ~Running

(* run: the exit code is 0 only when the process was told to stop, DCGM is *)
(* closed and no request was cut off.                                      *)
CleanExit == ~Running /\ exitCode = 0 => ctxDone /\ dcgm = "closed" /\ scrapes = 0

(* Run: as long as passes return, however long they take, the tick that    *)
(* ends a window is served, and so its maxima and averages are published.  *)
WindowIsPublished ==
    []<>(collector = "select") => (windowTick ~> ~windowTick \/ ctxDone \/ main # "wait")

=============================================================================
