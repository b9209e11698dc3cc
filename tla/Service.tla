------------------------------ MODULE Service ------------------------------
(***************************************************************************)
(* A Helpz service as it is built for Unix or for Windows: the same object *)
(* with its worker (ServiceObject) behind the one or the other back end    *)
(* (qtservice/CMakeLists.txt, qtservice/src/qtservice.pri), of which       *)
(* a program has one.                                                      *)
(***************************************************************************)
EXTENDS QtService, QtServiceWin

VARIABLE build             \* the platform

vars == <<unixVars, winVars, build>>

(* The back end that is not built stays as it is.                        *)
Init ==
    /\ UnixInit /\ WinInit
    /\ \/ build = "unix" /\ scm.accepted = serviceFlags({})
       \/ build = "windows"

UnixStep == build = "unix" /\ UnixNext /\ UNCHANGED <<winVars, build>>
WinStep == build = "windows" /\ WinNext /\ UNCHANGED <<unixVars, build>>
Next == UnixStep \/ WinStep

Spec == Init /\ [][Next]_vars /\ UnixFairness /\ WinFairness

-----------------------------------------------------------------------------
(* A service that was started after the last one had ended is reached by   *)
(* its controllers until it is told to stop, also when the last one left   *)
(* its socket file behind.  This includes one that runs by -exec, of which *)
(* the documentation (qtservice.cpp:583) says that it cannot be reached.   *)
ReachableAlone ==
    ~overlap => \A p \in Procs : proc[p].pc = "loop" => path = p /\ proc[p].listening

(* Windows is told RUNNING only of a service whose start() has been called *)
(* and which is not paused, and PAUSED only of one whose pause() has been, *)
(* until it quits: handler() reports a state when the main thread is in    *)
(* it, and not when it was asked to go there.                              *)
ReportsWhatIs ==
    ~sys.quit => /\ scm.state = "RUNNING" => sys.object.service /\ ~sys.paused
                 /\ scm.state = "PAUSED" => sys.object.service /\ sys.paused

(* A service that runs has one worker, through restarts, stops and         *)
(* signals, and the thread of the log to write to; one that does not has   *)
(* none.                                                                   *)
OneWorker ==
    \A o \in {proc[p].object : p \in Procs} \cup {sys.object} :
        o.workers = (IF o.service THEN 1 ELSE 0) /\ (o.service => o.log = "runs")

(* No call hangs in its wait for a reply, which has no time limit on Unix, *)
(* and no thread of a Windows service in its wait for the main thread.     *)
CallReturns ==
    /\ \A c \in Calls : call[c].pc \in {"sent", "stopping"} ~> call[c].pc \in {"refused", "done"}
    /\ \A t \in Threads : sys.thread[t].pc = "waits" ~> sys.thread[t].pc # "waits"

(* A service that was told to stop ends.                                   *)
TerminateEnds ==
    /\ \A p \in Procs : proc[p].pc = "stops" ~> proc[p].pc = "dead"
    /\ sys.quit ~> sys.main = "none" /\ scm.state = "STOPPED"
=============================================================================
