------------------------------ MODULE QtService ------------------------------
(***************************************************************************)
(* A service on Unix and those who control it (qtservice/src/qtservice.cpp,*)
(* qtservice_unix.cpp, qtunixsocket.cpp, qtunixserversocket.cpp).  Every   *)
(* call of the program is a process: with an argument it installs, asks or *)
(* commands the service and ends; without one it starts the service, in    *)
(* another process, unless one answers.  They meet at the path of a Unix   *)
(* socket: whoever binds it is reached, and every service unlinks it when  *)
(* it starts and when it ends.  A signal may end a service at any time,    *)
(* without cleaning up.                                                    *)
(*                                                                         *)
(* The event loop handles one event after the other.  quit() lets it       *)
(* finish the events at hand.  The backlog of five is never full.          *)
(***************************************************************************)
EXTENDS ServiceObject

CONSTANTS None,            \* no process
          MaxCalls,        \* bound: calls of the program by its users
          MaxProcs         \* bound: service processes

Calls == 1 .. MaxCalls     \* in the order in which they are made
Procs == 1 .. MaxProcs

ASSUME BoundsAssumption == MaxCalls \in Nat /\ MaxProcs \in Nat /\ None \notin Procs

VARIABLES installed,       \* the group of the service in the settings
          path,            \* the process that the socket file belongs to
          proc,            \* service process -> its state
          call,            \* call -> its state
          overlap          \* a service was started before the last one had ended

unixVars == <<installed, path, proc, call, overlap>>

NoProc == [pc |-> "none", flags |-> {}, listening |-> FALSE, path |-> FALSE, object |-> NoObject]
NoCall == [pc |-> "new", cmd |-> "none", to |-> None]

UnixInit ==
    /\ installed = FALSE
    /\ path = None
    /\ proc = [p \in Procs |-> NoProc]
    /\ call = [c \in Calls |-> NoCall]
    /\ overlap = FALSE

-----------------------------------------------------------------------------
(* The calls: QtServiceBase::exec *)

IsNew(c) == call[c].pc = "new" /\ \A b \in 1 .. c - 1 : call[b].pc # "new"
Returns(c) == call' = [call EXCEPT ![c] = [NoCall EXCEPT !.pc = "done"]]

(* QtUnixSocket::connectTo: somebody listens at the path.                  *)
CanConnect == path # None /\ proc[path].listening

(* -install, -uninstall: the settings may be out of reach.                 *)
install(c) ==
    /\ IsNew(c)
    /\ \E written \in BOOLEAN : installed' = (installed \/ written)
    /\ Returns(c)
    /\ UNCHANGED <<path, proc, overlap>>
uninstall(c) ==
    /\ IsNew(c)
    /\ \E written \in BOOLEAN : installed' = (installed /\ ~written)
    /\ Returns(c)
    /\ UNCHANGED <<path, proc, overlap>>

(* -version: isInstalled and isRunning.                                    *)
version(c) ==
    /\ IsNew(c)
    /\ Returns(c)
    /\ UNCHANGED <<installed, path, proc, overlap>>

(* sendCmd, up to the wait for the reply.                                  *)
sendCmd(c, cmd) ==
    /\ IF CanConnect
         THEN call' = [call EXCEPT ![c].pc = "sent", ![c].cmd = cmd, ![c].to = path]
         ELSE call' = [call EXCEPT ![c].pc = "refused", ![c].cmd = cmd]
    /\ UNCHANGED <<installed, path, proc, overlap>>

(* -terminate, -pause, -resume, -command, -list, and no argument at all.   *)
Commands == {"terminate", "pause", "resume", "num", "list", "alive"}
command(c) == IsNew(c) /\ \E cmd \in Commands : sendCmd(c, cmd)

(* The connection was refused or closed: the answer is false.              *)
not_answered(c) ==
    /\ call[c].pc = "refused" /\ call[c].cmd # "alive"
    /\ Returns(c)
    /\ UNCHANGED <<installed, path, proc, overlap>>

(* startDetached.                                                          *)
Spawn(c, p) ==
    /\ proc[p].pc = "none" /\ \A q \in 1 .. p - 1 : proc[q].pc # "none"
    /\ proc' = [proc EXCEPT ![p].pc = "spawned"]
    /\ overlap' = (overlap \/ \E q \in 1 .. p - 1 : proc[q].pc # "dead")
    /\ Returns(c)
    /\ UNCHANGED <<installed, path>>

(* QtServiceBasePrivate::start, when nobody has answered "alive".          *)
start(c, p) == call[c].pc = "refused" /\ call[c].cmd = "alive" /\ Spawn(c, p)

(* -exec: becomes the service, without asking whether there is one.        *)
exec_immediately(c, p) == IsNew(c) /\ Spawn(c, p)

(* QtServiceController::start of another program: the two tests, then ...  *)
controller_start(c) ==
    /\ IsNew(c)
    /\ IF installed /\ ~CanConnect
         THEN call' = [call EXCEPT ![c].pc = "refused", ![c].cmd = "alive"]
         ELSE Returns(c)
    /\ UNCHANGED <<installed, path, proc, overlap>>

-----------------------------------------------------------------------------
(* The service: QtServiceBasePrivate::run *)

Becomes(p, pc) == proc' = [proc EXCEPT ![p].pc = pc]

(* Those that wait for p's answer find their connection closed.            *)
HangUp(p) ==
    call' = [c \in Calls |-> IF call[c].pc \in {"sent", "stopping"} /\ call[c].to = p
                               THEN [call[c] EXCEPT !.pc = "refused"] ELSE call[c]]

(* Mutant of unlink_path: the old socket file stays.                       *)
unlink_path_Keeps(p) ==
    /\ proc[p].pc = "spawned"
    /\ Becomes(p, "binds")
    /\ UNCHANGED <<installed, path, call, overlap>>

(* sysInit and createApplication; QtUnixServerSocket::setPath unlinks ...  *)
unlink_path(p) ==
    /\ proc[p].pc = "spawned"
    /\ path' = None
    /\ Becomes(p, "binds")
    /\ UNCHANGED <<installed, call, overlap>>

(* ... and binds, unless there is a socket file again.                     *)
bind_path(p) ==
    /\ proc[p].pc = "binds"
    /\ IF path = None
         THEN /\ path' = p
              /\ proc' = [proc EXCEPT ![p].pc = "starts", ![p].listening = TRUE, ![p].path = TRUE]
         ELSE Becomes(p, "starts") /\ UNCHANGED path
    /\ UNCHANGED <<installed, call, overlap>>

(* The event loop begins with slotStart, posted before it, and so with the *)
(* thread of the log, for which it waits.                                  *)
slotStart(p) ==
    /\ proc[p].pc = "starts"
    /\ proc' = [proc EXCEPT ![p].pc = "waits", ![p].object = ParamThread(@)]
    /\ UNCHANGED <<installed, path, call, overlap>>
log_starts(p) ==
    /\ proc[p].object.log = "starts"
    /\ proc' = [proc EXCEPT ![p].object = run(@)]
    /\ UNCHANGED <<installed, path, call, overlap>>
started(p) ==
    /\ proc[p].pc = "waits" /\ ptr(proc[p].object)
    /\ proc' = [proc EXCEPT ![p].pc = "loop", ![p].object = Started(@)]
    /\ UNCHANGED <<installed, path, call, overlap>>

InLoop(p) == proc[p].pc \in {"loop", "quits"}
Reads(p, c) == InLoop(p) /\ call[c].pc = "sent" /\ call[c].to = p

(* slotReady: a command, and the reply.  terminate first waits in stop()   *)
(* for the thread of the log.                                              *)
terminate(p, c) ==
    /\ Reads(p, c) /\ call[c].cmd = "terminate" /\ proc[p].flags = {}
    /\ proc' = [proc EXCEPT ![p].pc = "stops", ![p].object = Stopped(@)]
    /\ call' = [call EXCEPT ![c].pc = "stopping"]
    /\ UNCHANGED <<installed, path, overlap>>
log_ends(p) ==
    /\ proc[p].object.log = "quits"
    /\ proc' = [proc EXCEPT ![p].object = LogEnded(@)]
    /\ UNCHANGED <<installed, path, call, overlap>>
stopped(p, c) ==
    /\ proc[p].pc = "stops" /\ proc[p].object.log = "none"
    /\ call[c].pc = "stopping" /\ call[c].to = p
    /\ Becomes(p, "quits")
    /\ Returns(c)
    /\ UNCHANGED <<installed, path, overlap>>
list(p, c) ==
    /\ Reads(p, c) /\ call[c].cmd = "list" /\ proc[p].object.service
    /\ proc' = [proc EXCEPT ![p].object = Commanded(@, c)]
    /\ Returns(c)
    /\ UNCHANGED <<installed, path, overlap>>

(* pause(), resume() and processCommand() keep no state; what the flags do *)
(* not allow is answered too.                                              *)
other_command(p, c) ==
    /\ Reads(p, c)
    /\ \/ call[c].cmd \in {"alive", "num", "pause", "resume"}
       \/ call[c].cmd = "terminate" /\ proc[p].flags # {}
    /\ Returns(c)
    /\ UNCHANGED <<installed, path, proc, overlap>>

(* term_handler: stop() and exit(), without sysCleanup.                    *)
Dies(p) ==
    /\ proc' = [proc EXCEPT ![p] = [NoProc EXCEPT !.pc = "dead", !.object = LogEnded(Stopped(proc[p].object))]]
    /\ HangUp(p)
    /\ UNCHANGED <<installed, path, overlap>>
term_handler(p) == proc[p].pc \notin {"none", "dead"} /\ Dies(p)

(* processCommands after stop() uses the null service_.                    *)
list_after_stop(p, c) ==
    Reads(p, c) /\ call[c].cmd = "list" /\ ~proc[p].object.service /\ Dies(p)

(* The worker: it gets its commands, and may ask for its restart.          *)
WorkerEvent(p, o) ==
    /\ proc[p].pc = "loop"
    /\ proc' = [proc EXCEPT ![p].object = o]
    /\ UNCHANGED <<installed, path, call, overlap>>
process_commands(p, c) ==
    c \in proc[p].object.posted /\ WorkerEvent(p, Delivered(proc[p].object, c))
serviceRestart(p) ==
    ~proc[p].object.wants_restart /\ WorkerEvent(p, WantsRestart(proc[p].object))
restart(p) == proc[p].object.wants_restart /\ WorkerEvent(p, Restarted(proc[p].object))

(* The program changes its flags.                                          *)
setServiceFlags(p) ==
    /\ proc[p].pc = "loop"
    /\ \E f \in SUBSET {"CannotBeStopped"} : proc' = [proc EXCEPT ![p].flags = f]
    /\ UNCHANGED <<installed, path, call, overlap>>

(* Mutant of loop_ends: quit() is forgotten.                               *)
loop_ends_Never(p) == FALSE /\ UNCHANGED unixVars

(* executeApplication returns.                                             *)
loop_ends(p) ==
    /\ proc[p].pc = "quits"
    /\ Becomes(p, "closes")
    /\ UNCHANGED <<installed, path, call, overlap>>

(* sysCleanup: the server socket is closed ...                             *)
close(p) ==
    /\ proc[p].pc = "closes"
    /\ proc' = [proc EXCEPT ![p].pc = "unlinks", ![p].listening = FALSE]
    /\ HangUp(p)
    /\ UNCHANGED <<installed, path, overlap>>

(* ... and the file unlinked, whosever it is by now.                       *)
unlink_and_end(p) ==
    /\ proc[p].pc = "unlinks"
    /\ path' = IF proc[p].path THEN None ELSE path
    /\ proc' = [proc EXCEPT ![p] = [NoProc EXCEPT !.pc = "dead", !.object = proc[p].object]]
    /\ UNCHANGED <<installed, call, overlap>>

-----------------------------------------------------------------------------
User(c) ==
    \/ install(c) \/ uninstall(c) \/ version(c) \/ command(c) \/ controller_start(c)
    \/ \E p \in Procs : exec_immediately(c, p)
Goes(c) == not_answered(c) \/ \E p \in Procs : start(c, p)
Runs(p) ==
    \/ unlink_path(p) \/ bind_path(p) \/ slotStart(p) \/ started(p)
    \/ \E c \in Calls : terminate(p, c) \/ stopped(p, c) \/ list(p, c) \/ other_command(p, c) \/ list_after_stop(p, c)
    \/ loop_ends(p) \/ close(p) \/ unlink_and_end(p)

Logs(p) == log_starts(p) \/ log_ends(p)

UnixNext ==
    \/ \E c \in Calls : User(c) \/ Goes(c)
    \/ \E p \in Procs :
          \/ Runs(p) \/ Logs(p) \/ term_handler(p) \/ setServiceFlags(p) \/ serviceRestart(p) \/ restart(p)
          \/ \E c \in Calls : process_commands(p, c)

(* Processes run and the event loop gets round to its sockets; users and   *)
(* signals need not come.                                                  *)
UnixFairness ==
    /\ \A p \in Procs : WF_unixVars(Runs(p)) /\ WF_unixVars(Logs(p))
    /\ \A c \in Calls : WF_unixVars(not_answered(c))

=============================================================================
