---------------------------- MODULE QtServiceWin ----------------------------
(***************************************************************************)
(* A service on Windows (qtservice/src/qtservice_win.cpp).  Users control  *)
(* it through the service control manager (SCM), which starts its process, *)
(* passes on one control at a time and shows the state that the service    *)
(* reports.  In the process three threads meet: the one that Windows makes *)
(* for serviceMain and the dispatcher both run handler(), which posts an   *)
(* event to the main thread and waits on a condition until it was handled. *)
(*                                                                         *)
(* setStatus reports what it stores, so that reporting the status again at *)
(* the end of handler() changes nothing.  The end of the process follows   *)
(* sysCleanup at once; what threads do with the deleted object until then  *)
(* is left out.                                                            *)
(***************************************************************************)
EXTENDS ServiceObject, Sequences

CONSTANT MaxAsks           \* bound: requests of users and of the system

Asks == 1 .. MaxAsks       \* in the order in which they are made
NoAsk == 0

ASSUME AsksAssumption == MaxAsks \in Nat

VARIABLES scm,             \* the service control manager, about the service
          sys,             \* the process of the service
          ask              \* request -> how far it is

winVars == <<scm, sys, ask>>

Threads == {"serviceMain", "dispatcher"}
NoThread == [pc |-> "none", code |-> "none", from |-> NoAsk]

NoSys == [main |-> "none", quit |-> FALSE, startSemaphore |-> 0, startSemaphore2 |-> 0,
          calledOk |-> TRUE, mutex |-> FALSE, thread |-> [t \in Threads |-> NoThread],
          events |-> <<>>, object |-> NoObject, paused |-> FALSE]

(* The controls that a service with some of the ServiceFlags accepts.      *)
serviceFlags(flags) ==
    (IF "CanBeSuspended" \in flags THEN {"pause", "continue"} ELSE {})
    \cup (IF "CannotBeStopped" \in flags THEN {} ELSE {"stop"})
    \cup (IF "NeedsStopOnShutdown" \in flags THEN {"shutdown"} ELSE {})
Accepted == {serviceFlags(f) : f \in SUBSET {"CanBeSuspended", "CannotBeStopped", "NeedsStopOnShutdown"}}

WinInit ==
    /\ \E a \in Accepted :
          scm = [installed |-> "no", state |-> "STOPPED", accepted |-> a]
    /\ sys = NoSys
    /\ ask = [c \in Asks |-> "new"]

-----------------------------------------------------------------------------
(* Requests to the SCM: QtServiceController *)

IsNewAsk(c) == ask[c] = "new" /\ \A b \in 1 .. c - 1 : ask[b] # "new"
Done(c) == ask' = [ask EXCEPT ![c] = "done"]

(* winServiceInit: without the library, and without the right to open the  *)
(* SCM or the service, every request fails.                                *)
denied(c) == IsNewAsk(c) /\ Done(c) /\ UNCHANGED <<scm, sys>>

(* CreateService, unless it is there already.                              *)
win_install(c) ==
    /\ IsNewAsk(c) /\ scm.installed = "no"
    /\ scm' = [scm EXCEPT !.installed = "yes"]
    /\ Done(c) /\ UNCHANGED sys

(* DeleteService: a service that runs goes when it has ended.              *)
win_uninstall(c) ==
    /\ IsNewAsk(c) /\ scm.installed = "yes"
    /\ scm' = [scm EXCEPT !.installed = IF scm.state = "STOPPED" THEN "no" ELSE "marked"]
    /\ Done(c) /\ UNCHANGED sys

isInstalled == scm.installed # "no"
isRunning == isInstalled /\ scm.state # "STOPPED"

(* -version: the two, and the path, the description and the startup type.  *)
win_version(c) == IsNewAsk(c) /\ Done(c) /\ UNCHANGED <<scm, sys>>

(* StartService: a process for the service, unless it has one.             *)
win_start(c) ==
    /\ IsNewAsk(c) /\ scm.installed = "yes" /\ scm.state = "STOPPED" /\ sys.main = "none"
    /\ scm' = [scm EXCEPT !.state = "START_PENDING"]
    /\ sys' = [sys EXCEPT !.main = "spawned"]
    /\ Done(c)

(* ControlService: not while the service starts, stops or does not run.    *)
TakesControl(code) ==
    /\ isInstalled /\ scm.state \notin {"STOPPED", "START_PENDING", "STOP_PENDING"}
    /\ code \in scm.accepted \cup {"interrogate"} \/ (code = "command" /\ isRunning)

(* stop, pause, resume, sendCommand and sendCommands; the system asks and  *)
(* shuts down.  The request lasts until the handler has returned.          *)
control(c, code) ==
    /\ IsNewAsk(c) /\ TakesControl(code) /\ sys.thread["dispatcher"].pc = "idle"
    /\ sys' = [sys EXCEPT !.thread["dispatcher"] = [pc |-> "locks", code |-> code, from |-> c]]
    /\ ask' = [ask EXCEPT ![c] = "sent"]
    /\ UNCHANGED scm

(* stop() looks ten times for STOPPED, for two seconds.                    *)
poll(c) == ask[c] = "polls" /\ Done(c) /\ UNCHANGED <<scm, sys>>

-----------------------------------------------------------------------------
(* The main thread: QtServiceBasePrivate::start *)

(* sysInit; HandlerThread starts.                                          *)
sysInit ==
    /\ sys.main = "spawned"
    /\ sys' = [sys EXCEPT !.main = "acquires", !.thread["dispatcher"].pc = "begins"]
    /\ UNCHANGED <<scm, ask>>

(* HandlerThread::run: serviceMain gets a thread, or there is an error.    *)
HandlerThread_run ==
    /\ sys.thread["dispatcher"].pc = "begins"
    /\ \/ sys' = [sys EXCEPT !.thread["dispatcher"].pc = "idle", !.thread["serviceMain"].pc = "begins"]
       \/ sys' = [sys EXCEPT !.thread["dispatcher"].pc = "none", !.calledOk = FALSE, !.startSemaphore = @ + 1]
    /\ UNCHANGED <<scm, ask>>

(* serviceMain lets the main thread go on, waits for it, and registers     *)
(* handler().                                                              *)
serviceMain_release ==
    /\ sys.thread["serviceMain"].pc = "begins"
    /\ sys' = [sys EXCEPT !.startSemaphore = @ + 1, !.thread["serviceMain"].pc = "acquires"]
    /\ UNCHANGED <<scm, ask>>
serviceMain_acquire ==
    /\ sys.thread["serviceMain"].pc = "acquires" /\ sys.startSemaphore2 > 0
    /\ sys' = [sys EXCEPT !.startSemaphore2 = @ - 1,
                          !.thread["serviceMain"] = [pc |-> "locks", code |-> "startup", from |-> NoAsk]]
    /\ UNCHANGED <<scm, ask>>

(* The arguments have come: createApplication and the controllerHandler.   *)
run_application ==
    /\ sys.main = "acquires" /\ sys.startSemaphore > 0 /\ sys.calledOk
    /\ sys' = [sys EXCEPT !.main = "loop", !.startSemaphore = @ - 1, !.startSemaphore2 = @ + 1]
    /\ UNCHANGED <<scm, ask>>

(* The process is gone: the SCM sees it stopped.                           *)
Ends ==
    /\ sys' = NoSys
    /\ scm' = [scm EXCEPT !.state = "STOPPED", !.installed = IF @ = "marked" THEN "no" ELSE @]
    /\ ask' = [c \in Asks |-> IF ask[c] = "sent" THEN "done" ELSE ask[c]]

(* start() returns false: no arguments within 20 s, an error of the        *)
(* dispatcher or no application.                                           *)
gives_up == sys.main = "acquires" /\ Ends

-----------------------------------------------------------------------------
(* handler(), in either thread *)

Pending(code) == CASE code = "startup" -> "START_PENDING" [] code = "stop" -> "STOP_PENDING"
                   [] code = "pause" -> "PAUSE_PENDING" [] code = "continue" -> "CONTINUE_PENDING"
                   [] OTHER -> scm.state
Reached(code) == CASE code \in {"startup", "continue"} -> "RUNNING" [] code = "pause" -> "PAUSED"
                   [] OTHER -> scm.state

setStatus(state) == scm' = [scm EXCEPT !.state = state]

(* handler() returns: to the SCM, and to who asked.                        *)
HandlerReturns(t) ==
    LET c == sys.thread[t].from IN
    /\ sys' = [sys EXCEPT !.thread[t] = [NoThread EXCEPT !.pc = IF t = "dispatcher" THEN "idle" ELSE "none"]]
    /\ ask' = IF c = NoAsk THEN ask
              ELSE [ask EXCEPT ![c] = IF sys.thread[t].code = "stop" THEN "polls" ELSE "done"]

interrogate(t) ==
    /\ sys.thread[t].pc = "locks" /\ ~sys.mutex /\ sys.thread[t].code = "interrogate"
    /\ HandlerReturns(t) /\ UNCHANGED scm

(* Under the mutex the pending status is set and the event is posted ...   *)
handler_post(t) ==
    LET code == sys.thread[t].code IN
    /\ sys.thread[t].pc = "locks" /\ ~sys.mutex /\ code # "interrogate"
    /\ setStatus(Pending(code))
    /\ sys' = [sys EXCEPT !.mutex = TRUE, !.thread[t].pc = "posted",
                          !.events = Append(@, IF code = "shutdown" THEN "stop" ELSE code)]
    /\ UNCHANGED ask

(* Mutant of handler_wait: it does not wait.                               *)
handler_wait_Not(t) ==
    /\ sys.thread[t].pc = "posted"
    /\ sys' = [sys EXCEPT !.mutex = FALSE, !.thread[t].pc = "woken"]
    /\ UNCHANGED <<scm, ask>>

(* ... condition.wait gives the mutex back ...                             *)
handler_wait(t) ==
    /\ sys.thread[t].pc = "posted"
    /\ sys' = [sys EXCEPT !.mutex = FALSE, !.thread[t].pc = "waits"]
    /\ UNCHANGED <<scm, ask>>

(* ... and with the mutex again, the status that is reached is set.        *)
handler_woken(t) ==
    /\ sys.thread[t].pc = "woken" /\ ~sys.mutex
    /\ setStatus(Reached(sys.thread[t].code))
    /\ HandlerReturns(t)

-----------------------------------------------------------------------------
(* The event loop of the main thread *)

(* handleCustomEvent: what is asked for, and then the wake-up.             *)
handleCustomEvent ==
    LET code == Head(sys.events) IN
    /\ sys.main = "loop" /\ sys.events # <<>>
    /\ sys' = [sys EXCEPT !.main = "handled", !.events = Tail(@),
                          !.object = CASE code = "startup" -> Started(run(ParamThread(@)))
                                       [] code = "stop" -> LogEnded(Stopped(@)) [] OTHER -> @,
                          !.paused = code = "pause" \/ (@ /\ code # "continue"),
                          !.quit = @ \/ code = "stop"]
    /\ UNCHANGED <<scm, ask>>

(* Mutant of wakeAll: without the mutex.                                   *)
wakeAll_Unlocked ==
    /\ sys.main = "handled"
    /\ sys' = [sys EXCEPT !.main = "loop",
                          !.thread = [t \in Threads |-> IF @[t].pc = "waits" THEN [@[t] EXCEPT !.pc = "woken"] ELSE @[t]]]
    /\ UNCHANGED <<scm, ask>>

wakeAll ==
    /\ sys.main = "handled" /\ ~sys.mutex
    /\ sys' = [sys EXCEPT !.main = "loop",
                          !.thread = [t \in Threads |-> IF @[t].pc = "waits" THEN [@[t] EXCEPT !.pc = "woken"] ELSE @[t]]]
    /\ UNCHANGED <<scm, ask>>

(* The worker is restarted.                                                *)
win_restart ==
    /\ sys.main = "loop" /\ sys.object.service
    /\ sys' = [sys EXCEPT !.object = Restarted(@)]
    /\ UNCHANGED <<scm, ask>>

(* The program changes its flags.                                          *)
win_setServiceFlags ==
    /\ sys.main = "loop" /\ sys.object.service
    /\ \E a \in Accepted : scm' = [scm EXCEPT !.accepted = a]
    /\ UNCHANGED <<sys, ask>>

(* nativeEventFilter: the end of the session ends the loop, but for a      *)
(* logoff.                                                                 *)
end_session ==
    /\ sys.main = "loop" /\ ~sys.quit
    /\ sys' = [sys EXCEPT !.quit = TRUE]
    /\ UNCHANGED <<scm, ask>>

(* executeApplication returns, with events left over or not: STOPPED.      *)
application_returns ==
    /\ sys.main = "loop" /\ sys.quit
    /\ setStatus("STOPPED")
    /\ sys' = [sys EXCEPT !.main = "ends"]
    /\ UNCHANGED ask

(* The handler thread has a second to finish; then sysCleanup, the object  *)
(* of the service goes with the program.                                   *)
sysCleanup == sys.main = "ends" /\ Ends

-----------------------------------------------------------------------------
WinUser(c) ==
    \/ denied(c) \/ win_version(c) \/ win_install(c) \/ win_uninstall(c) \/ win_start(c)
    \/ \E code \in {"stop", "pause", "continue", "command", "interrogate", "shutdown"} : control(c, code)
WinMain == sysInit \/ run_application \/ handleCustomEvent \/ wakeAll \/ application_returns \/ sysCleanup
WinThread(t) == interrogate(t) \/ handler_post(t) \/ handler_wait(t) \/ handler_woken(t)
WinStarts == HandlerThread_run \/ serviceMain_release \/ serviceMain_acquire

WinNext ==
    \/ \E c \in Asks : WinUser(c) \/ poll(c)
    \/ WinMain \/ WinStarts \/ gives_up \/ win_restart \/ win_setServiceFlags \/ end_session
    \/ \E t \in Threads : WinThread(t)

(* The threads of the process run; users and the system need not come.     *)
WinFairness ==
    /\ WF_winVars(WinMain) /\ WF_winVars(WinStarts)
    /\ \A t \in Threads : WF_winVars(WinThread(t))
=============================================================================
