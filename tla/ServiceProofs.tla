----------------------------- MODULE ServiceProofs -----------------------------
(***************************************************************************)
(* Theorems about Service, for any number of processes, calls and requests.*)
(*                                                                         *)
(* On Unix the invariant ties the object of a process and the socket file  *)
(* to how far the process is; without overlap at most one process lives.   *)
(* On Windows it follows the two threads that run handler(): until         *)
(* serviceMain has reported RUNNING the dispatcher passes nothing on, so   *)
(* that startup is handled first and once, and after it at most one event  *)
(* is on its way, the dispatcher's.                                        *)
(***************************************************************************)
EXTENDS Service, TLAPS

(* The object, by what is true of it.                                      *)
Object == [service : BOOLEAN, workers : Nat, posted : SUBSET Calls,
           wants_restart : BOOLEAN, log : {"none", "starts", "runs", "quits"}]
Absent(o) == ~o.service /\ o.workers = 0
Present(o) == o.service /\ o.workers = 1 /\ o.log = "runs"

-----------------------------------------------------------------------------
(* Unix *)

Pcs == {"none", "spawned", "binds", "starts", "waits", "loop", "stops", "quits",
        "closes", "unlinks", "dead"}
Alive == Pcs \ {"none", "dead"}
Bound == {"starts", "waits", "loop", "stops", "quits", "closes"}

Proc == [pc : Pcs, flags : SUBSET {"CannotBeStopped"}, listening : BOOLEAN, path : BOOLEAN,
         object : Object]

(* What a process is at each step, by itself.                              *)
LogAt(pc) == CASE pc = "waits" -> {"starts", "runs"} [] pc = "loop" -> {"runs"}
               [] pc = "stops" -> {"quits", "none"} [] OTHER -> {"none"}
ProcOK(r) ==
    /\ r \in Proc
    /\ r.pc = "loop" => Present(r.object)
    /\ r.pc # "loop" => Absent(r.object)
    /\ r.object.log \in LogAt(r.pc)

ProcInv ==
    /\ proc \in [Procs -> Proc] /\ overlap \in BOOLEAN
    /\ \A p \in Procs : ProcOK(proc[p])

(* Processes are started one after the other, and without overlap the last *)
(* one had ended.                                                          *)
OrderInv ==
    \A p, q \in Procs :
       q < p /\ proc[p].pc # "none" => /\ proc[q].pc # "none"
                                       /\ ~overlap => proc[q].pc = "dead"

(* The socket file of a process that is alone is its own.                  *)
PathInv ==
    ~overlap => \A p \in Procs :
       /\ proc[p].pc = "binds" => path = None
       /\ proc[p].pc \in Bound => path = p /\ proc[p].listening

UnixInv == ProcInv /\ OrderInv /\ PathInv

-----------------------------------------------------------------------------
(* Windows *)

Controls == {"stop", "pause", "continue", "command", "interrogate", "shutdown"}
Codes == Controls \cup {"none", "startup"}
InHandler == {"posted", "waits", "woken"}
Thread == [pc : {"none", "begins", "acquires", "idle", "locks"} \cup InHandler, code : Codes,
           from : Asks \cup {NoAsk}]
Sys == [main : {"none", "spawned", "acquires", "loop", "handled", "ends"}, quit : BOOLEAN,
        startSemaphore : Nat, startSemaphore2 : Nat, calledOk : BOOLEAN, mutex : BOOLEAN,
        thread : [Threads -> Thread], events : Seq(Codes), object : Object, paused : BOOLEAN]
Scm == [installed : {"no", "yes", "marked"},
        state : {"STOPPED", "START_PENDING", "RUNNING", "PAUSE_PENDING", "PAUSED",
                 "CONTINUE_PENDING", "STOP_PENDING"},
        accepted : Accepted]

WinTypeInv ==
    /\ scm \in Scm /\ sys \in Sys
    /\ \A t \in Threads : sys.thread[t].pc = "posted" => sys.mutex

ServiceMain == sys.thread["serviceMain"]
Dispatcher == sys.thread["dispatcher"]
Looping == {"loop", "handled", "ends"}

(* Until the main thread has the arguments there is nothing but the two    *)
(* threads that bring them.                                                *)
Starting ==
    /\ ServiceMain.pc \in {"none", "begins", "acquires"}
    /\ Dispatcher.pc \in {"none", "begins", "idle"}
    /\ ServiceMain.pc # "none" => Dispatcher.pc = "idle"
    /\ sys.startSemaphore2 = 0
    /\ sys.startSemaphore > 0 /\ sys.calledOk => ServiceMain.pc = "acquires"
    /\ sys.object = NoObject /\ sys.events = <<>> /\ ~sys.paused /\ ~sys.quit
    /\ scm.state = "START_PENDING"

(* The main thread is in its loop and startup is not handled, ...          *)
NotStarted ==
    /\ \/ ServiceMain.pc = "acquires" /\ sys.events = <<>>
       \/ ServiceMain.pc = "locks" /\ sys.events = <<>> /\ ServiceMain.code = "startup"
       \/ ServiceMain.pc \in {"posted", "waits"} /\ sys.events = <<"startup">> /\ ServiceMain.code = "startup"
    /\ Dispatcher.pc = "idle" /\ sys.main # "handled"
    /\ Absent(sys.object) /\ ~sys.paused
    /\ scm.state \in {"START_PENDING", "STOPPED"} /\ (~sys.quit => scm.state = "START_PENDING")

(* ... is handled, and serviceMain is about to report it, ...              *)
Handled ==
    /\ \/ ServiceMain.pc \in {"posted", "waits"} /\ sys.main = "handled"
       \/ ServiceMain.pc = "woken" /\ sys.main # "handled"
    /\ ServiceMain.code = "startup" /\ Dispatcher.pc = "idle" /\ sys.events = <<>>
    /\ Present(sys.object) /\ ~sys.paused
    /\ scm.state \in {"START_PENDING", "STOPPED"}

(* ... and serviceMain has returned: the dispatcher's event is the one.    *)
Settled == (scm.state = "RUNNING" /\ ~sys.paused) \/ (scm.state = "PAUSED" /\ sys.paused)
Shows ==
    IF Dispatcher.pc \in InHandler /\ Dispatcher.code = "pause"
      THEN scm.state = "PAUSE_PENDING" /\ (sys.events = <<>> => sys.paused)
    ELSE IF Dispatcher.pc \in InHandler /\ Dispatcher.code = "continue"
      THEN scm.state = "CONTINUE_PENDING" /\ (sys.events = <<>> => ~sys.paused)
    ELSE IF Dispatcher.pc \in InHandler /\ Dispatcher.code \in {"stop", "shutdown"}
      THEN sys.events # <<>> /\ (Dispatcher.code = "stop" => scm.state = "STOP_PENDING")
                             /\ (Dispatcher.code # "stop" => Settled)
    ELSE Settled
Serving ==
    /\ ServiceMain.pc = "none"
    /\ \/ Dispatcher.pc = "idle" /\ sys.events = <<>> /\ sys.main # "handled"
       \/ Dispatcher.pc = "locks" /\ sys.events = <<>> /\ sys.main # "handled" /\ Dispatcher.code \in Controls
       \/ /\ Dispatcher.pc \in {"posted", "waits"} /\ sys.main # "handled" /\ Dispatcher.code \in Controls
          /\ sys.events = <<IF Dispatcher.code = "shutdown" THEN "stop" ELSE Dispatcher.code>>
       \/ Dispatcher.pc \in {"posted", "waits"} /\ sys.events = <<>> /\ sys.main = "handled" /\ Dispatcher.code \in Controls
       \/ Dispatcher.pc = "woken" /\ sys.events = <<>> /\ sys.main # "handled" /\ Dispatcher.code \in Controls
    /\ Present(sys.object) \/ (Absent(sys.object) /\ sys.quit)
    /\ sys.quit \/ Shows

WinStage ==
    /\ sys.main = "none" => sys = NoSys /\ scm.state = "STOPPED"
    /\ sys.main = "spawned" => sys = [NoSys EXCEPT !.main = "spawned"] /\ scm.state = "START_PENDING"
    /\ sys.main = "acquires" => Starting
    /\ sys.main \in Looping => NotStarted \/ Handled \/ Serving
    /\ sys.main = "ends" => sys.quit

WinInv == WinTypeInv /\ WinStage

Inv == UnixInv /\ WinInv

-----------------------------------------------------------------------------
(* What the operations of the object do to it. *)

LEMMA NoObjectIs == NoObject \in Object /\ Absent(NoObject) /\ NoObject.log = "none"
  BY DEF NoObject, Object, Absent

LEMMA StartOps ==
    ASSUME NEW o \in Object, Absent(o)
    PROVE  /\ ParamThread(o) \in Object /\ Absent(ParamThread(o)) /\ ParamThread(o).log = "starts"
           /\ run(o) \in Object /\ Absent(run(o)) /\ run(o).log = "runs"
           /\ o.log = "runs" => Started(o) \in Object /\ Present(Started(o))
           /\ Stopped(o) = o
           /\ LogEnded(o) \in Object /\ Absent(LogEnded(o)) /\ LogEnded(o).log = "none"
  <1>1. ParamThread(o) \in Object /\ Absent(ParamThread(o)) /\ ParamThread(o).log = "starts"
    BY DEF Object, Absent, ParamThread
  <1>2. run(o) \in Object /\ Absent(run(o)) /\ run(o).log = "runs"
    BY DEF Object, Absent, run
  <1>3. ASSUME o.log = "runs" PROVE Started(o) \in Object /\ Present(Started(o))
    <2> DEFINE b == [o EXCEPT !.service = TRUE]
    <2>1. b \in Object /\ b.service /\ b.workers = 0 /\ b.log = "runs"
      BY <1>3 DEF Object, Absent
    <2>2. Started(o) = create_worker(b)
      BY DEF Started
    <2> HIDE DEF b
    <2> QED BY <2>1, <2>2 DEF Object, Present, create_worker
  <1>4. Stopped(o) = o
    BY DEF Absent, Stopped
  <1>5. LogEnded(o) \in Object /\ Absent(LogEnded(o)) /\ LogEnded(o).log = "none"
    BY DEF Object, Absent, LogEnded
  <1> QED BY <1>1, <1>2, <1>3, <1>4, <1>5

LEMMA RunOps ==
    ASSUME NEW o \in Object, Present(o)
    PROVE  /\ Stopped(o) \in Object /\ Absent(Stopped(o)) /\ Stopped(o).log = "quits"
           /\ \A c \in Calls : /\ Commanded(o, c) \in Object /\ Present(Commanded(o, c))
                               /\ Delivered(o, c) \in Object /\ Present(Delivered(o, c))
           /\ WantsRestart(o) \in Object /\ Present(WantsRestart(o))
           /\ Restarted(o) \in Object /\ Present(Restarted(o))
  <1>0. /\ delete_worker(o) \in Object /\ delete_worker(o).service
        /\ delete_worker(o).workers = 0 /\ delete_worker(o).log = "runs"
    <2>1. o.workers - 1 = 0
      BY DEF Present
    <2>2. delete_worker(o) = [o EXCEPT !.workers = 0, !.posted = {}, !.wants_restart = FALSE]
      BY <2>1 DEF delete_worker
    <2>3. delete_worker(o) \in Object
      <3>1. \A x \in SUBSET Calls :
               [o EXCEPT !.workers = 0, !.posted = x, !.wants_restart = FALSE] \in Object
        BY DEF Object
      <3> QED BY <2>2, <3>1, Zenon
    <2>4. delete_worker(o).workers = 0 /\ delete_worker(o).log = o.log
      BY <2>2 DEF Object
    <2>5. delete_worker(o).service = o.service
      BY <2>2 DEF Object
    <2> QED BY <2>3, <2>4, <2>5 DEF Present
  <1>1. Stopped(o) \in Object /\ Absent(Stopped(o)) /\ Stopped(o).log = "quits"
    <2> DEFINE b == delete_worker(o)
    <2>1. b \in Object /\ b.workers = 0
      BY <1>0
    <2>2. Stopped(o) = [b EXCEPT !.service = FALSE, !.log = "quits"]
      BY DEF Stopped, Present
    <2> HIDE DEF b
    <2> QED BY <2>1, <2>2 DEF Object, Absent
  <1>2. ASSUME NEW c \in Calls
        PROVE  /\ Commanded(o, c) \in Object /\ Present(Commanded(o, c))
               /\ Delivered(o, c) \in Object /\ Present(Delivered(o, c))
    BY DEF Object, Present, Commanded, Delivered
  <1>3. WantsRestart(o) \in Object /\ Present(WantsRestart(o))
    BY DEF Object, Present, WantsRestart
  <1>4. Restarted(o) \in Object /\ Present(Restarted(o))
    <2> DEFINE b == delete_worker(o)
    <2>1. Restarted(o) = create_worker(b)
      BY DEF Restarted
    <2> HIDE DEF b
    <2>2. b \in Object /\ b.service /\ b.workers = 0 /\ b.log = "runs"
      BY <1>0 DEF b
    <2> QED BY <2>1, <2>2 DEF Object, Present, create_worker
  <1> QED BY <1>1, <1>2, <1>3, <1>4

-----------------------------------------------------------------------------
(* Unix: a step of process p keeps UnixInv when p alone changes, p lived,  *)
(* and p keeps its claim on the socket file.                               *)

StepOf(p) ==
    /\ proc' \in [Procs -> Proc] /\ overlap' = overlap
    /\ \A q \in Procs : q # p => proc'[q] = proc[q]
    /\ proc[p].pc \in Alive /\ proc'[p].pc # "none" /\ ProcOK(proc'[p])
    /\ \/ proc'[p].pc \in {"unlinks", "dead"}
       \/ proc'[p].pc = "binds" /\ path' = None
       \/ proc'[p].pc \in Bound /\ (~overlap => path' = p /\ proc'[p].listening)

LEMMA StepKeeps ==
    ASSUME UnixInv, NEW p \in Procs, StepOf(p)
    PROVE  UnixInv'
  <1> USE DEF UnixInv, StepOf, Alive, Bound
  <1>1. ProcInv'
    BY DEF ProcInv
  <1>2. OrderInv'
    BY DEF OrderInv
  <1>3. PathInv'
    <2> SUFFICES ASSUME ~overlap', NEW q \in Procs
                 PROVE  /\ proc'[q].pc = "binds" => path' = None
                        /\ proc'[q].pc \in Bound => path' = q /\ proc'[q].listening
      BY DEF PathInv
    <2>1. CASE q = p
      BY <2>1
    <2>2. CASE q # p
      <3>1. proc[q].pc \in {"none", "dead"}
        <4>1. q < p \/ p < q
          BY <2>2, BoundsAssumption DEF Procs
        <4> QED BY <2>2, <4>1 DEF OrderInv
      <3> QED BY <2>2, <3>1
    <2> QED BY <2>1, <2>2
  <1> QED BY <1>1, <1>2, <1>3

LEMMA Changed ==
    ASSUME UnixInv, NEW p \in Procs, NEW r, proc' = [proc EXCEPT ![p] = r], ProcOK(r),
           overlap' = overlap, proc[p].pc \in Alive, r.pc # "none",
           \/ r.pc \in {"unlinks", "dead"}
           \/ r.pc = "binds" /\ path' = None
           \/ r.pc \in Bound /\ (~overlap => path' = p /\ r.listening)
    PROVE  UnixInv'
  <1>1. /\ proc' \in [Procs -> Proc] /\ proc'[p] = r
        /\ \A q \in Procs : q # p => proc'[q] = proc[q]
    BY DEF UnixInv, ProcInv, ProcOK
  <1>2. StepOf(p)
    BY <1>1 DEF StepOf
  <1> QED BY <1>2, StepKeeps

(* The socket file and the start.                                          *)
LEMMA BindStep ==
    ASSUME UnixInv, NEW p \in Procs, unlink_path(p) \/ bind_path(p)
    PROVE  UnixInv'
  <1> USE DEF Alive, Bound, Pcs
  <1>0. ProcOK(proc[p]) /\ proc[p] \in Proc
    BY DEF UnixInv, ProcInv, ProcOK
  <1>1. CASE unlink_path(p)
    <2> DEFINE r == [proc[p] EXCEPT !.pc = "binds"]
    <2>1. proc' = [proc EXCEPT ![p] = r]
      BY <1>1 DEF unlink_path, Becomes
    <2>2. r \in Proc /\ r.pc = "binds" /\ r.object = proc[p].object
      BY <1>0 DEF Proc
    <2> HIDE DEF r
    <2>3. ProcOK(r)
      BY <1>0, <1>1, <2>2 DEF unlink_path, ProcOK, LogAt
    <2> QED BY <1>1, <2>1, <2>2, <2>3, Changed DEF unlink_path
  <1>2. CASE bind_path(p) /\ path = None
    <2> DEFINE r == [proc[p] EXCEPT !.pc = "starts", !.listening = TRUE, !.path = TRUE]
    <2>1. proc' = [proc EXCEPT ![p] = r]
      BY <1>2 DEF bind_path
    <2>2. r \in Proc /\ r.pc = "starts" /\ r.object = proc[p].object /\ r.listening
      BY <1>0 DEF Proc
    <2> HIDE DEF r
    <2>3. ProcOK(r)
      BY <1>0, <1>2, <2>2 DEF bind_path, ProcOK, LogAt
    <2> QED BY <1>2, <2>1, <2>2, <2>3, Changed DEF bind_path
  <1>3. CASE bind_path(p) /\ path # None
    <2> DEFINE r == [proc[p] EXCEPT !.pc = "starts"]
    <2>1. proc' = [proc EXCEPT ![p] = r]
      BY <1>3 DEF bind_path, Becomes
    <2>2. r \in Proc /\ r.pc = "starts" /\ r.object = proc[p].object
      BY <1>0 DEF Proc
    <2> HIDE DEF r
    <2>3. ProcOK(r)
      BY <1>0, <1>3, <2>2 DEF bind_path, ProcOK, LogAt
    <2>4. overlap
      BY <1>3 DEF bind_path, UnixInv, PathInv
    <2> QED BY <1>3, <2>1, <2>2, <2>3, <2>4, Changed DEF bind_path
  <1> QED BY <1>1, <1>2, <1>3

(* The object is created, served and destroyed, with the socket file as    *)
(* it is.                                                                  *)
LEMMA ObjectStep ==
    ASSUME UnixInv, NEW p \in Procs, NEW x \in Bound, NEW o \in Object,
           proc' = [proc EXCEPT ![p].pc = x, ![p].object = o] \/
           (proc' = [proc EXCEPT ![p].object = o] /\ x = proc[p].pc),
           proc[p].pc \in Bound, path' = path, overlap' = overlap,
           x = "loop" => Present(o), x # "loop" => Absent(o), o.log \in LogAt(x)
    PROVE  UnixInv'
  <1> USE DEF Alive, Bound, Pcs
  <1>0. ProcOK(proc[p]) /\ proc[p] \in Proc /\ proc \in [Procs -> Proc]
    BY DEF UnixInv, ProcInv, ProcOK
  <1>1. ~overlap => path' = p /\ proc[p].listening
    BY DEF UnixInv, PathInv
  <1>2. PICK r \in Proc : /\ proc' = [proc EXCEPT ![p] = r] /\ r.pc = x /\ r.object = o
                          /\ r.listening = proc[p].listening
    <2>1. CASE proc' = [proc EXCEPT ![p].object = o] /\ x = proc[p].pc
      <3> DEFINE u == [proc[p] EXCEPT !.object = o]
      <3>1. proc' = [proc EXCEPT ![p] = u]
        BY <2>1
      <3>2. u \in Proc /\ u.pc = x /\ u.object = o /\ u.listening = proc[p].listening
        BY <1>0, <2>1 DEF Proc
      <3> HIDE DEF u
      <3> QED BY <3>1, <3>2
    <2>2. CASE proc' = [proc EXCEPT ![p].pc = x, ![p].object = o]
      <3> DEFINE u == [proc[p] EXCEPT !.pc = x, !.object = o]
      <3>1. proc' = [proc EXCEPT ![p] = u]
        BY <1>0, <2>2
      <3>2. u \in Proc /\ u.pc = x /\ u.object = o /\ u.listening = proc[p].listening
        BY <1>0 DEF Proc
      <3> HIDE DEF u
      <3> QED BY <3>1, <3>2
    <2> QED BY <2>1, <2>2
  <1>3. ProcOK(r)
    BY <1>2 DEF ProcOK
  <1> QED BY <1>1, <1>2, <1>3, Changed

LEMMA LifeStep ==
    ASSUME UnixInv, NEW p \in Procs,
           \/ slotStart(p) \/ log_starts(p) \/ started(p) \/ log_ends(p)
           \/ serviceRestart(p) \/ restart(p)
           \/ \E c \in Calls : terminate(p, c) \/ list(p, c) \/ process_commands(p, c)
    PROVE  UnixInv'
  <1> USE DEF Bound
  <1> DEFINE b == proc[p].object
  <1>0. /\ b \in Object /\ b.log \in LogAt(proc[p].pc)
        /\ proc[p].pc = "loop" => Present(b)
        /\ proc[p].pc # "loop" => Absent(b)
    BY DEF UnixInv, ProcInv, ProcOK, Proc
  <1> HIDE DEF b
  <1>1. CASE slotStart(p)
    <2>1. proc' = [proc EXCEPT ![p].pc = "waits", ![p].object = ParamThread(b)]
      BY <1>1 DEF slotStart, b
    <2>2. proc[p].pc = "starts" /\ path' = path /\ overlap' = overlap
      BY <1>1 DEF slotStart
    <2> QED BY <1>0, <2>1, <2>2, StartOps, ObjectStep DEF LogAt
  <1>2. CASE log_starts(p)
    <2>1. proc' = [proc EXCEPT ![p].object = run(b)]
      BY <1>2 DEF log_starts, b
    <2>2. b.log = "starts" /\ path' = path /\ overlap' = overlap
      BY <1>2 DEF log_starts, b
    <2>3. proc[p].pc = "waits"
      BY <1>0, <2>2 DEF LogAt
    <2> QED BY <1>0, <2>1, <2>2, <2>3, StartOps, ObjectStep DEF LogAt
  <1>3. CASE started(p)
    <2>1. proc' = [proc EXCEPT ![p].pc = "loop", ![p].object = Started(b)]
      BY <1>3 DEF started, b
    <2>2. proc[p].pc = "waits" /\ b.log = "runs" /\ path' = path /\ overlap' = overlap
      BY <1>3 DEF started, b, ptr
    <2>3. Started(b) \in Object /\ Present(Started(b))
      BY <1>0, <2>2, StartOps
    <2> QED BY <2>1, <2>2, <2>3, ObjectStep DEF LogAt, Present
  <1>4. CASE log_ends(p)
    <2>1. proc' = [proc EXCEPT ![p].object = LogEnded(b)]
      BY <1>4 DEF log_ends, b
    <2>2. b.log = "quits" /\ path' = path /\ overlap' = overlap
      BY <1>4 DEF log_ends, b
    <2>3. proc[p].pc = "stops"
      BY <1>0, <2>2 DEF LogAt
    <2> QED BY <1>0, <2>1, <2>2, <2>3, StartOps, ObjectStep DEF LogAt
  <1>5. CASE serviceRestart(p) \/ restart(p) \/ \E c \in Calls : process_commands(p, c)
    <2>1. PICK o : WorkerEvent(p, o) /\ (proc[p].pc = "loop" => o \in Object /\ Present(o))
      BY <1>0, <1>5, RunOps DEF serviceRestart, restart, process_commands, b
    <2>2. /\ proc[p].pc = "loop" /\ proc' = [proc EXCEPT ![p].object = o]
          /\ path' = path /\ overlap' = overlap
      BY <2>1 DEF WorkerEvent
    <2> QED BY <2>1, <2>2, ObjectStep DEF LogAt, Present
  <1>6. ASSUME NEW c \in Calls, list(p, c) PROVE UnixInv'
    <2>1. proc' = [proc EXCEPT ![p].object = Commanded(b, c)]
      BY <1>6 DEF list, b
    <2>2. proc[p].pc = "loop" /\ path' = path /\ overlap' = overlap
      BY <1>0, <1>6 DEF list, Reads, InLoop, b, Absent
    <2>3. Commanded(b, c) \in Object /\ Present(Commanded(b, c))
      BY <1>0, <2>2, RunOps
    <2> QED BY <2>1, <2>2, <2>3, ObjectStep DEF LogAt, Present
  <1>7. ASSUME NEW c \in Calls, terminate(p, c) PROVE UnixInv'
    <2>1. proc' = [proc EXCEPT ![p].pc = "stops", ![p].object = Stopped(b)]
      BY <1>7 DEF terminate, b
    <2>2. proc[p].pc \in {"loop", "quits"} /\ path' = path /\ overlap' = overlap
      BY <1>7 DEF terminate, Reads, InLoop
    <2>3. /\ Stopped(b) \in Object /\ Absent(Stopped(b))
          /\ Stopped(b).log \in {"quits", "none"}
      <3>1. CASE proc[p].pc = "loop"
        BY <1>0, <3>1, RunOps
      <3>2. CASE proc[p].pc = "quits"
        BY <1>0, <3>2, StartOps DEF LogAt
      <3> QED BY <2>2, <3>1, <3>2
    <2> QED BY <2>1, <2>2, <2>3, ObjectStep DEF LogAt
  <1> QED BY <1>1, <1>2, <1>3, <1>4, <1>5, <1>6, <1>7

(* The end of a process.                                                   *)
LEMMA EndStep ==
    ASSUME UnixInv, NEW p \in Procs,
           \/ loop_ends(p) \/ close(p) \/ unlink_and_end(p) \/ term_handler(p)
           \/ \E c \in Calls : stopped(p, c) \/ list_after_stop(p, c)
    PROVE  UnixInv'
  <1> USE DEF Alive, Bound, Pcs
  <1>0. ProcOK(proc[p]) /\ proc[p] \in Proc /\ proc[p].pc \in Pcs /\ proc[p].object \in Object
    BY DEF UnixInv, ProcInv, ProcOK, Proc
  <1>1. proc[p].pc \in Bound => (~overlap => path = p /\ proc[p].listening)
    BY DEF UnixInv, PathInv
  <1>2. ASSUME NEW x \in {"quits", "closes"}, Becomes(p, x), path' = path, overlap' = overlap,
               proc[p].pc \in {"stops", "quits"}, proc[p].object.log = "none"
        PROVE  UnixInv'
    <2> DEFINE r == [proc[p] EXCEPT !.pc = x]
    <2>1. proc' = [proc EXCEPT ![p] = r]
      BY <1>2 DEF Becomes
    <2>2. r \in Proc /\ r.pc = x /\ r.object = proc[p].object /\ r.listening = proc[p].listening
      BY <1>0 DEF Proc
    <2> HIDE DEF r
    <2>3. ProcOK(r)
      BY <1>0, <1>2, <2>2 DEF ProcOK, LogAt
    <2> QED BY <1>1, <1>2, <2>1, <2>2, <2>3, Changed
  <1>3. CASE loop_ends(p)
    BY <1>0, <1>2, <1>3 DEF loop_ends, ProcOK, LogAt
  <1>4. ASSUME NEW c \in Calls, stopped(p, c) PROVE UnixInv'
    BY <1>2, <1>4 DEF stopped
  <1>5. CASE close(p)
    <2> DEFINE r == [proc[p] EXCEPT !.pc = "unlinks", !.listening = FALSE]
    <2>1. proc' = [proc EXCEPT ![p] = r]
      BY <1>5 DEF close
    <2>2. r \in Proc /\ r.pc = "unlinks" /\ r.object = proc[p].object
      BY <1>0 DEF Proc
    <2> HIDE DEF r
    <2>3. ProcOK(r)
      BY <1>0, <1>5, <2>2 DEF close, ProcOK, LogAt
    <2> QED BY <1>5, <2>1, <2>2, <2>3, Changed DEF close
  <1>6. ASSUME NEW o \in Object, Absent(o), o.log = "none", proc[p].pc \in Alive, overlap' = overlap,
               proc' = [proc EXCEPT ![p] = [NoProc EXCEPT !.pc = "dead", !.object = o]]
        PROVE  UnixInv'
    <2> DEFINE r == [NoProc EXCEPT !.pc = "dead", !.object = o]
    <2>1. r \in Proc /\ r.pc = "dead" /\ r.object = o
      BY <1>0 DEF Proc, NoProc
    <2>2. proc' = [proc EXCEPT ![p] = r]
      BY <1>6
    <2> HIDE DEF r
    <2>3. ProcOK(r)
      BY <1>6, <2>1 DEF ProcOK, LogAt
    <2> QED BY <1>6, <2>1, <2>2, <2>3, Changed
  <1>7. CASE unlink_and_end(p)
    BY <1>0, <1>6, <1>7 DEF unlink_and_end, ProcOK, LogAt
  <1>8. CASE term_handler(p) \/ \E c \in Calls : list_after_stop(p, c)
    <2> DEFINE o == LogEnded(Stopped(proc[p].object))
    <2>1. o \in Object /\ Absent(o) /\ o.log = "none"
      <3>1. Stopped(proc[p].object) \in Object /\ Absent(Stopped(proc[p].object))
        BY <1>0, StartOps, RunOps DEF ProcOK
      <3> QED BY <3>1, StartOps
    <2>2. proc' = [proc EXCEPT ![p] = [NoProc EXCEPT !.pc = "dead", !.object = o]]
      BY <1>8 DEF term_handler, list_after_stop, Dies
    <2>3. proc[p].pc \in Alive /\ overlap' = overlap
      BY <1>0, <1>8 DEF term_handler, list_after_stop, Dies, Reads, InLoop
    <2> HIDE DEF o
    <2> QED BY <1>6, <2>1, <2>2, <2>3
  <1> QED BY <1>3, <1>4, <1>5, <1>7, <1>8

(* The rest changes no process but a new one, or its flags.                *)
LEMMA CallStep ==
    ASSUME UnixInv, NEW c \in Calls, User(c) \/ Goes(c)
    PROVE  UnixInv'
  <1>1. ASSUME NEW p \in Procs, Spawn(c, p) PROVE UnixInv'
    <2> DEFINE r == [proc[p] EXCEPT !.pc = "spawned"]
    <2>0. ProcOK(proc[p]) /\ proc[p] \in Proc
      BY DEF UnixInv, ProcInv, ProcOK
    <2>1. proc' = [proc EXCEPT ![p] = r]
      BY <1>1 DEF Spawn
    <2>2. r \in Proc /\ r.pc = "spawned" /\ r.object = proc[p].object
      BY <2>0 DEF Proc, Pcs
    <2> HIDE DEF r
    <2>3. ProcOK(r)
      BY <1>1, <2>0, <2>2 DEF Spawn, ProcOK, LogAt
    <2>4. /\ proc' \in [Procs -> Proc] /\ proc'[p] = r
          /\ \A q \in Procs : q # p => proc'[q] = proc[q]
      BY <2>1, <2>2 DEF UnixInv, ProcInv
    <2>5. overlap' \in BOOLEAN
      BY <1>1, Zenon DEF Spawn
    <2>6. ProcInv'
      BY <2>3, <2>4, <2>5 DEF UnixInv, ProcInv
    <2>7. /\ overlap => overlap'
          /\ ~overlap' => \A q \in 1 .. p - 1 : proc[q].pc = "dead"
      BY <1>1 DEF Spawn
    <2>8. \A q \in Procs : q < p => proc[q].pc # "none"
      BY <1>1, BoundsAssumption DEF Spawn, Procs
    <2>9. \A q \in Procs : p < q => proc[q].pc = "none"
      BY <1>1 DEF Spawn, UnixInv, OrderInv
    <2>10. OrderInv'
      <3> SUFFICES ASSUME NEW q \in Procs, NEW w \in Procs, w < q, proc'[q].pc # "none"
                   PROVE  proc'[w].pc # "none" /\ (~overlap' => proc'[w].pc = "dead")
        BY DEF OrderInv
      <3>1. CASE q = p
        BY <2>4, <2>7, <2>8, <3>1, BoundsAssumption DEF Procs
      <3>2. CASE q # p
        <4>1. proc[q].pc # "none"
          BY <2>4, <3>2
        <4>2. w # p
          BY <2>9, <4>1
        <4> QED BY <2>4, <2>7, <3>2, <4>1, <4>2 DEF UnixInv, OrderInv
      <3> QED BY <3>1, <3>2
    <2>11. PathInv'
      BY <1>1, <2>2, <2>4, <2>7 DEF Spawn, UnixInv, PathInv, Bound
    <2> QED BY <2>6, <2>10, <2>11 DEF UnixInv
  <1>2. ASSUME UNCHANGED <<proc, path, overlap>> PROVE UnixInv'
    BY <1>2 DEF UnixInv, ProcInv, OrderInv, PathInv
  <1>3. CASE install(c) \/ uninstall(c) \/ version(c) \/ controller_start(c) \/ not_answered(c)
    BY <1>2, <1>3 DEF install, uninstall, version, controller_start, not_answered
  <1>4. CASE command(c)
    BY <1>2, <1>4 DEF command, sendCmd
  <1> QED BY <1>1, <1>3, <1>4 DEF User, Goes, exec_immediately, start

LEMMA FlagStep ==
    ASSUME UnixInv, NEW p \in Procs, setServiceFlags(p)
    PROVE  UnixInv'
  <1>0. ProcOK(proc[p]) /\ proc[p] \in Proc
    BY DEF UnixInv, ProcInv, ProcOK
  <1>1. PICK f \in SUBSET {"CannotBeStopped"} : proc' = [proc EXCEPT ![p].flags = f]
    BY DEF setServiceFlags
  <1> DEFINE r == [proc[p] EXCEPT !.flags = f]
  <1>2. proc' = [proc EXCEPT ![p] = r]
    BY <1>1
  <1>3. /\ r \in Proc /\ r.pc = proc[p].pc /\ r.object = proc[p].object
        /\ r.listening = proc[p].listening
    BY <1>0 DEF Proc
  <1> HIDE DEF r
  <1>4. ProcOK(r)
    BY <1>0, <1>3 DEF ProcOK
  <1>5. proc[p].pc = "loop" /\ path' = path /\ overlap' = overlap
    BY DEF setServiceFlags
  <1>6. ~overlap => path' = p /\ r.listening
    BY <1>3, <1>5 DEF UnixInv, PathInv, Bound
  <1> QED BY <1>2, <1>3, <1>4, <1>5, <1>6, Changed DEF Alive, Bound, Pcs

LEMMA UnixKeeps ==
    ASSUME UnixInv, UnixNext
    PROVE  UnixInv'
  <1>1. ASSUME NEW c \in Calls, User(c) \/ Goes(c) PROVE UnixInv'
    BY <1>1, CallStep
  <1>2. ASSUME NEW p \in Procs, NEW c \in Calls, other_command(p, c) PROVE UnixInv'
    BY <1>2 DEF other_command, UnixInv, ProcInv, OrderInv, PathInv
  <1>3. ASSUME NEW p \in Procs, Runs(p) PROVE UnixInv'
    BY <1>2, <1>3, BindStep, LifeStep, EndStep DEF Runs
  <1>4. ASSUME NEW p \in Procs, \/ Logs(p) \/ term_handler(p) \/ setServiceFlags(p)
                                \/ serviceRestart(p) \/ restart(p)
                                \/ \E c \in Calls : process_commands(p, c)
        PROVE  UnixInv'
    BY <1>4, LifeStep, EndStep, FlagStep DEF Logs
  <1> QED BY <1>1, <1>3, <1>4 DEF UnixNext

-----------------------------------------------------------------------------
(* Windows: what changes neither the process nor the state. *)

LEMMA NoSysIs == NoSys \in Sys /\ [NoSys EXCEPT !.main = "spawned"] \in Sys
  <1>1. [t \in Threads |-> NoThread] \in [Threads -> Thread]
    BY DEF NoThread, Thread, Codes
  <1>2. <<>> \in Seq(Codes)
    OBVIOUS
  <1> QED BY <1>1, <1>2, NoObjectIs DEF NoSys, Sys

LEMMA SameProcess ==
    ASSUME WinInv, scm' \in Scm, scm'.state = scm.state, sys' = sys
    PROVE  WinInv'
  BY DEF WinInv, WinTypeInv, WinStage, Starting, NotStarted, Handled, Serving, Shows, Settled,
         ServiceMain, Dispatcher

LEMMA AskStep ==
    ASSUME WinInv, NEW c \in Asks,
           denied(c) \/ win_version(c) \/ win_install(c) \/ win_uninstall(c) \/ poll(c)
    PROVE  WinInv'
  <1>1. sys' = sys
    BY DEF denied, win_version, win_install, win_uninstall, poll
  <1>2. scm' \in Scm /\ scm'.state = scm.state
    BY DEF denied, win_version, win_install, win_uninstall, poll, WinInv, WinTypeInv, Scm
  <1> QED BY <1>1, <1>2, SameProcess

LEMMA WinFlagStep ==
    ASSUME WinInv, win_setServiceFlags
    PROVE  WinInv'
  <1>1. scm' \in Scm /\ scm'.state = scm.state /\ sys' = sys
    BY DEF win_setServiceFlags, WinInv, WinTypeInv, Scm
  <1> QED BY <1>1, SameProcess

(* The start and the end of the process.                                   *)
LEMMA ProcessStep ==
    ASSUME WinInv, \/ \E c \in Asks : win_start(c)
                   \/ sysInit \/ gives_up \/ sysCleanup
    PROVE  WinInv'
  <1> USE DEF WinInv, Looping
  <1>1. CASE \E c \in Asks : win_start(c)
    <2>1. sys = NoSys /\ sys' = [NoSys EXCEPT !.main = "spawned"] /\ sys'.main = "spawned"
      BY <1>1 DEF win_start, WinTypeInv, WinStage, NoSys
    <2>2. scm' \in Scm /\ scm'.state = "START_PENDING"
      BY <1>1 DEF win_start, WinTypeInv, Scm
    <2>3. WinTypeInv'
      BY <2>1, <2>2, NoSysIs DEF WinTypeInv, NoSys, NoThread, Threads
    <2>4. WinStage'
      BY <2>1, <2>2 DEF WinStage
    <2> QED BY <2>3, <2>4
  <1>2. CASE sysInit
    <2>1. sys = [NoSys EXCEPT !.main = "spawned"] /\ scm' = scm /\ scm.state = "START_PENDING"
      BY <1>2 DEF sysInit, WinStage
    <2>2. sys' = [NoSys EXCEPT !.main = "acquires", !.thread["dispatcher"].pc = "begins"]
      BY <1>2, <2>1 DEF sysInit, NoSys
    <2>3. /\ sys'.main = "acquires" /\ sys'.events = <<>> /\ sys'.object = NoObject
          /\ sys'.startSemaphore = 0 /\ sys'.startSemaphore2 = 0
          /\ ~sys'.paused /\ ~sys'.quit
          /\ sys'.thread["serviceMain"].pc = "none" /\ sys'.thread["dispatcher"].pc = "begins"
      BY <2>2 DEF NoSys, Threads, NoThread
    <2>4. sys' \in Sys
      <3>1. [[t \in Threads |-> NoThread] EXCEPT !["dispatcher"].pc = "begins"] \in [Threads -> Thread]
        BY DEF NoThread, Thread, Codes, Threads
      <3>2. <<>> \in Seq(Codes)
        OBVIOUS
      <3> QED BY <2>2, <3>1, <3>2, NoObjectIs DEF NoSys, Sys
    <2>5. WinTypeInv'
      BY <2>1, <2>3, <2>4 DEF WinTypeInv, Threads
    <2>6. Starting'
      BY <2>1, <2>3 DEF Starting, ServiceMain, Dispatcher
    <2>7. WinStage'
      BY <2>3, <2>6 DEF WinStage
    <2> QED BY <2>5, <2>7
  <1>3. CASE gives_up \/ sysCleanup
    <2>0. scm \in Scm /\ scm.installed \in {"no", "yes", "marked"}
      BY DEF WinTypeInv, Scm
    <2>1. PICK i \in {"no", "yes", "marked"} :
             sys' = NoSys /\ scm' = [scm EXCEPT !.state = "STOPPED", !.installed = i]
      BY <1>3, <2>0 DEF gives_up, sysCleanup, Ends
    <2>4. scm' \in Scm /\ scm'.state = "STOPPED" /\ sys'.main = "none"
      BY <2>0, <2>1 DEF Scm, NoSys
    <2>2. WinTypeInv'
      BY <2>1, <2>4, NoSysIs DEF WinTypeInv, NoSys, NoThread
    <2>3. WinStage'
      BY <2>1, <2>4 DEF WinStage
    <2> QED BY <2>2, <2>3
  <1> QED BY <1>1, <1>2, <1>3

(* The two threads bring the arguments.                                    *)
LEMMA StartsStep ==
    ASSUME WinInv, WinStarts \/ run_application
    PROVE  WinInv'
  <1> USE DEF WinInv, Looping, Threads
  <1>0. /\ sys \in Sys /\ ServiceMain \in Thread /\ Dispatcher \in Thread
        /\ sys.thread \in [Threads -> Thread] /\ sys.startSemaphore \in Nat
        /\ sys.startSemaphore2 \in Nat
    BY DEF WinTypeInv, Sys, ServiceMain, Dispatcher
  <1>1. CASE HandlerThread_run
    <2>1. sys.main = "acquires" /\ Starting
      BY <1>0, <1>1 DEF HandlerThread_run, WinStage, NoSys, NoThread, Sys,
           NotStarted, Handled, Serving, Dispatcher
    <2>2. ServiceMain.pc = "none" /\ scm' = scm
      BY <1>1, <2>1 DEF HandlerThread_run, Starting, ServiceMain, Dispatcher
    <2>3. CASE sys' = [sys EXCEPT !.thread["dispatcher"].pc = "idle",
                                  !.thread["serviceMain"].pc = "begins"]
      <3>1. sys' \in Sys
        BY <1>0, <2>3 DEF Sys, Thread
      <3>2. /\ sys'.main = sys.main /\ sys'.events = sys.events /\ sys'.object = sys.object
            /\ sys'.startSemaphore2 = sys.startSemaphore2
            /\ sys'.startSemaphore = sys.startSemaphore
        BY <1>0, <2>3 DEF Sys
      <3>3. sys'.calledOk = sys.calledOk /\ sys'.paused = sys.paused /\ sys'.quit = sys.quit
        BY <1>0, <2>3 DEF Sys
      <3>4. ServiceMain'.pc = "begins" /\ Dispatcher'.pc = "idle"
        BY <1>0, <2>3 DEF Sys, Thread, ServiceMain, Dispatcher
      <3>5. Starting'
        BY <2>1, <2>2, <3>2, <3>3, <3>4 DEF Starting
      <3>6. WinTypeInv'
        BY <2>2, <3>1, <3>4 DEF WinTypeInv, ServiceMain, Dispatcher
      <3> QED BY <2>1, <3>2, <3>5, <3>6 DEF WinStage
    <2>4. CASE sys' = [sys EXCEPT !.thread["dispatcher"].pc = "none", !.calledOk = FALSE,
                                  !.startSemaphore = @ + 1]
      <3>1. sys' \in Sys
        <4>1. [sys.thread EXCEPT !["dispatcher"].pc = "none"] \in [Threads -> Thread]
          BY <1>0 DEF Thread
        <4>2. sys.startSemaphore + 1 \in Nat
          BY <1>0
        <4> QED BY <1>0, <2>4, <4>1, <4>2 DEF Sys
      <3>2. /\ sys'.main = sys.main /\ sys'.events = sys.events /\ sys'.object = sys.object
            /\ sys'.startSemaphore2 = sys.startSemaphore2
        BY <1>0, <2>4 DEF Sys
      <3>3. ~sys'.calledOk /\ sys'.paused = sys.paused /\ sys'.quit = sys.quit
        BY <1>0, <2>4 DEF Sys
      <3>4. ServiceMain'.pc = "none" /\ Dispatcher'.pc = "none"
        BY <1>0, <2>2, <2>4 DEF Sys, Thread, ServiceMain, Dispatcher
      <3>5. Starting'
        BY <2>1, <2>2, <3>2, <3>3, <3>4 DEF Starting
      <3>6. WinTypeInv'
        BY <2>2, <3>1, <3>4 DEF WinTypeInv, ServiceMain, Dispatcher
      <3> QED BY <2>1, <3>2, <3>5, <3>6 DEF WinStage
    <2> QED BY <1>1, <2>3, <2>4 DEF HandlerThread_run
  <1>2. CASE serviceMain_release
    <2>1. sys.main = "acquires" /\ Starting
      BY <1>0, <1>2 DEF serviceMain_release, WinStage, NoSys, NoThread, Sys,
           NotStarted, Handled, Serving, ServiceMain
    <2>2. sys' \in Sys
      <3>1. [sys.thread EXCEPT !["serviceMain"].pc = "acquires"] \in [Threads -> Thread]
        BY <1>0 DEF Thread
      <3>2. sys.startSemaphore + 1 \in Nat
        BY <1>0
      <3> QED BY <1>0, <1>2, <3>1, <3>2 DEF serviceMain_release, Sys
    <2>3. /\ sys'.main = sys.main /\ sys'.events = sys.events /\ sys'.object = sys.object
          /\ sys'.startSemaphore2 = sys.startSemaphore2
      BY <1>0, <1>2 DEF serviceMain_release, Sys
    <2>4. sys'.paused = sys.paused /\ sys'.quit = sys.quit
      BY <1>0, <1>2 DEF serviceMain_release, Sys
    <2>5. ServiceMain'.pc = "acquires" /\ Dispatcher'.pc = Dispatcher.pc
      BY <1>0, <1>2 DEF serviceMain_release, Sys, Thread, ServiceMain, Dispatcher
    <2>6. Dispatcher.pc = "idle" /\ scm' = scm
      BY <1>2, <2>1 DEF serviceMain_release, Starting, ServiceMain, Dispatcher
    <2>7. Starting'
      BY <2>1, <2>3, <2>4, <2>5, <2>6 DEF Starting
    <2>8. WinTypeInv'
      BY <2>2, <2>5, <2>6 DEF WinTypeInv, ServiceMain, Dispatcher
    <2> QED BY <2>1, <2>3, <2>7, <2>8 DEF WinStage
  <1>3. CASE run_application
    <2>1. Starting /\ scm' = scm
      BY <1>3 DEF run_application, WinStage
    <2>2. sys' \in Sys
      <3>1. sys.startSemaphore - 1 \in Nat /\ sys.startSemaphore2 + 1 \in Nat
        BY <1>0, <1>3 DEF run_application
      <3> QED BY <1>0, <1>3, <3>1 DEF run_application, Sys
    <2>3. /\ sys'.main = "loop" /\ sys'.events = sys.events /\ sys'.object = sys.object
          /\ sys'.thread = sys.thread
      BY <1>0, <1>3 DEF run_application, Sys
    <2>4. sys'.paused = sys.paused /\ sys'.quit = sys.quit
      BY <1>0, <1>3 DEF run_application, Sys
    <2>5. ServiceMain'.pc = "acquires" /\ Dispatcher'.pc = "idle"
      BY <1>3, <2>1, <2>3 DEF run_application, Starting, ServiceMain, Dispatcher
    <2>6. NotStarted'
      BY <2>1, <2>3, <2>4, <2>5, NoObjectIs DEF NotStarted, Starting
    <2>7. WinTypeInv'
      BY <2>1, <2>2, <2>5 DEF WinTypeInv, ServiceMain, Dispatcher
    <2> QED BY <2>3, <2>6, <2>7 DEF WinStage
  <1>4. CASE serviceMain_acquire
    <2>1. sys.main \in Looping /\ NotStarted /\ scm' = scm
      <3>1. ServiceMain.pc = "acquires" /\ sys.startSemaphore2 # 0 /\ scm' = scm
        BY <1>0, <1>4 DEF serviceMain_acquire, ServiceMain
      <3>2. sys.main \notin {"none", "spawned"}
        BY <3>1 DEF WinStage, NoSys
      <3>3. sys.main # "acquires"
        BY <3>1 DEF WinStage, Starting
      <3> QED BY <1>0, <3>1, <3>2, <3>3 DEF WinStage, NotStarted, Handled, Serving, Sys
    <2>2. sys' \in Sys
      <3>1. sys.startSemaphore2 - 1 \in Nat
        BY <1>0, <1>4 DEF serviceMain_acquire
      <3>2. [sys.thread EXCEPT !["serviceMain"] = [pc |-> "locks", code |-> "startup", from |-> NoAsk]]
               \in [Threads -> Thread]
        BY <1>0 DEF Thread, Codes
      <3> QED BY <1>0, <1>4, <3>1, <3>2 DEF serviceMain_acquire, Sys
    <2>3. sys'.main = sys.main /\ sys'.events = sys.events /\ sys'.object = sys.object
      BY <1>0, <1>4 DEF serviceMain_acquire, Sys
    <2>4. sys'.paused = sys.paused /\ sys'.quit = sys.quit
      BY <1>0, <1>4 DEF serviceMain_acquire, Sys
    <2>5. /\ ServiceMain'.pc = "locks" /\ ServiceMain'.code = "startup"
          /\ Dispatcher' = Dispatcher
      BY <1>0, <1>4 DEF serviceMain_acquire, Sys, ServiceMain, Dispatcher
    <2>6. ServiceMain.pc = "acquires"
      BY <1>4 DEF serviceMain_acquire, ServiceMain
    <2>7. NotStarted'
      BY <2>1, <2>3, <2>4, <2>5, <2>6 DEF NotStarted, Absent
    <2>8. WinTypeInv'
      BY <2>1, <2>2, <2>5 DEF WinTypeInv, NotStarted, ServiceMain, Dispatcher
    <2>9. sys'.main = "ends" => sys'.quit
      BY <2>3, <2>4 DEF WinStage
    <2> QED BY <2>1, <2>3, <2>7, <2>8, <2>9 DEF WinStage
  <1> QED BY <1>1, <1>2, <1>3, <1>4 DEF WinStarts

(* The main thread is in its loop.                                         *)
LEMMA LoopKeeps ==
    ASSUME WinTypeInv', sys'.main \in Looping, sys'.main = "ends" => sys'.quit,
           NotStarted' \/ Handled' \/ Serving'
    PROVE  WinInv'
  BY DEF WinInv, WinStage, Looping

(* A thread that is at work in handler() finds the main thread in its      *)
(* loop.                                                                   *)
LEMMA HandlerInLoop ==
    ASSUME WinInv, NEW t \in Threads, sys.thread[t].pc \in {"locks"} \cup InHandler
    PROVE  /\ sys.main \in Looping
           /\ t = "serviceMain" => /\ ServiceMain.code = "startup"
                                   /\ (ServiceMain.pc = "locks" => NotStarted)
                                   /\ (ServiceMain.pc = "woken" => Handled)
           /\ t = "dispatcher" => Serving /\ Dispatcher.code \in Controls
  <1>1. sys \in Sys
    BY DEF WinInv, WinTypeInv
  <1>2. sys.main \notin {"none", "spawned"}
    BY DEF WinInv, WinStage, NoSys, NoThread, InHandler
  <1>3. sys.main # "acquires"
    BY DEF WinInv, WinStage, Starting, ServiceMain, Dispatcher, Threads, InHandler
  <1>4. sys.main \in Looping
    BY <1>1, <1>2, <1>3 DEF Sys, Looping
  <1>5. CASE t = "serviceMain"
    BY <1>4, <1>5 DEF WinInv, WinStage, NotStarted, Handled, Serving, ServiceMain, InHandler
  <1>6. CASE t = "dispatcher"
    BY <1>4, <1>6 DEF WinInv, WinStage, NotStarted, Handled, Serving, Dispatcher, InHandler
  <1> QED BY <1>4, <1>5, <1>6 DEF Threads

(* A control comes when serviceMain has reported RUNNING.                  *)
LEMMA ControlStep ==
    ASSUME WinInv, NEW c \in Asks, NEW code \in Controls, control(c, code)
    PROVE  WinInv'
  <1> USE DEF Threads
  <1>0. sys \in Sys /\ sys.thread \in [Threads -> Thread]
    BY DEF WinInv, WinTypeInv, Sys
  <1>1. /\ scm.state \notin {"STOPPED", "START_PENDING"} /\ Dispatcher.pc = "idle" /\ scm' = scm
        /\ sys' = [sys EXCEPT !.thread["dispatcher"] = [pc |-> "locks", code |-> code, from |-> c]]
    BY DEF control, TakesControl, Dispatcher
  <1>2. sys.main \in Looping /\ Serving
    <2>1. sys.main \in Looping
      BY <1>0, <1>1 DEF WinInv, WinStage, Starting, Sys, Looping
    <2> QED BY <1>1, <2>1 DEF WinInv, WinStage, NotStarted, Handled
  <1>3. sys' \in Sys
    <2>1. [sys.thread EXCEPT !["dispatcher"] = [pc |-> "locks", code |-> code, from |-> c]]
             \in [Threads -> Thread]
      BY <1>0 DEF Thread, Codes
    <2> QED BY <1>0, <1>1, <2>1 DEF Sys
  <1>4. sys'.main = sys.main /\ sys'.events = sys.events /\ sys'.object = sys.object
    BY <1>0, <1>1 DEF Sys
  <1>5. sys'.paused = sys.paused /\ sys'.quit = sys.quit /\ sys'.mutex = sys.mutex
    BY <1>0, <1>1 DEF Sys
  <1>6. ServiceMain' = ServiceMain /\ Dispatcher'.pc = "locks" /\ Dispatcher'.code = code
    BY <1>0, <1>1 DEF Sys, ServiceMain, Dispatcher
  <1>7. sys'.quit \/ Shows'
    BY <1>1, <1>2, <1>4, <1>5, <1>6 DEF Serving, Shows, Settled, InHandler
  <1>8. Serving'
    BY <1>1, <1>2, <1>4, <1>5, <1>6, <1>7 DEF Serving, Absent, Present
  <1>9. WinTypeInv'
    BY <1>1, <1>2, <1>3, <1>6 DEF WinInv, WinTypeInv, Serving, ServiceMain, Dispatcher
  <1>10. sys'.main = "ends" => sys'.quit
    BY <1>4, <1>5 DEF WinInv, WinStage
  <1> QED BY <1>2, <1>4, <1>8, <1>9, <1>10, LoopKeeps

(* handler() posts, ...                                                    *)
LEMMA PostStep ==
    ASSUME WinInv, NEW t \in Threads, handler_post(t)
    PROVE  WinInv'
  <1> USE DEF Threads
  <1>0. sys \in Sys /\ sys.thread \in [Threads -> Thread] /\ scm \in Scm /\ sys.events \in Seq(Codes)
    BY DEF WinInv, WinTypeInv, Sys
  <1> DEFINE code == sys.thread[t].code
             event == IF code = "shutdown" THEN "stop" ELSE code
  <1>1. /\ sys.thread[t].pc = "locks" /\ code # "interrogate"
        /\ scm' = [scm EXCEPT !.state = Pending(code)]
        /\ sys' = [sys EXCEPT !.mutex = TRUE, !.thread[t].pc = "posted", !.events = Append(@, event)]
    BY DEF handler_post, setStatus
  <1>2. code \in Codes /\ event \in Codes
    BY <1>0 DEF Thread, Codes, Controls
  <1>3. sys' \in Sys
    <2>1. [sys.thread EXCEPT ![t].pc = "posted"] \in [Threads -> Thread]
      BY <1>0 DEF Thread, InHandler
    <2>2. Append(sys.events, event) \in Seq(Codes)
      BY <1>0, <1>2
    <2> HIDE DEF event
    <2> QED BY <1>0, <1>1, <2>1, <2>2 DEF Sys
  <1>4. /\ sys'.main = sys.main /\ sys'.events = Append(sys.events, event)
        /\ sys'.object = sys.object
    BY <1>0, <1>1 DEF Sys
  <1>5. sys'.paused = sys.paused /\ sys'.quit = sys.quit /\ sys'.mutex
    BY <1>0, <1>1 DEF Sys
  <1>6. /\ sys'.thread[t].pc = "posted" /\ sys'.thread[t].code = code
        /\ \A u \in Threads : u # t => sys'.thread[u] = sys.thread[u]
    BY <1>0, <1>1 DEF Sys, Thread
  <1>7. scm' \in Scm /\ scm'.state = Pending(code)
    <2>1. Pending(code) \in {"STOPPED", "START_PENDING", "RUNNING", "PAUSE_PENDING", "PAUSED",
                             "CONTINUE_PENDING", "STOP_PENDING"}
      BY <1>0 DEF Pending, Scm
    <2> QED BY <1>0, <1>1, <2>1 DEF Scm
  <1>8. WinTypeInv'
    BY <1>3, <1>5, <1>7 DEF WinTypeInv
  <1>9. sys.main \in Looping
    BY <1>1, HandlerInLoop
  <1>10. sys'.main = "ends" => sys'.quit
    BY <1>4, <1>5 DEF WinInv, WinStage
  <1>11. CASE t = "serviceMain"
    <2>1. NotStarted /\ code = "startup" /\ sys.events = <<>>
      BY <1>1, <1>11, HandlerInLoop DEF ServiceMain, NotStarted
    <2>2. sys'.events = <<"startup">> /\ scm'.state = "START_PENDING"
      BY <1>4, <1>7, <2>1 DEF Pending
    <2>3. ServiceMain'.pc = "posted" /\ ServiceMain'.code = "startup" /\ Dispatcher' = Dispatcher
      BY <1>6, <1>11, <2>1 DEF ServiceMain, Dispatcher
    <2>4. NotStarted'
      BY <1>4, <1>5, <2>1, <2>2, <2>3 DEF NotStarted, Absent
    <2> QED BY <1>4, <1>8, <1>9, <1>10, <2>4, LoopKeeps
  <1>12. CASE t = "dispatcher"
    <2>1. Serving /\ Dispatcher.code \in Controls /\ Dispatcher.pc = "locks"
      BY <1>1, <1>12, HandlerInLoop DEF Dispatcher
    <2>2. sys.events = <<>> /\ code = Dispatcher.code /\ sys.main # "handled"
      BY <1>12, <2>1 DEF Serving, Dispatcher
    <2>3. sys'.events = <<event>> /\ sys'.events # <<>>
      BY <1>4, <2>2
    <2>4. ServiceMain' = ServiceMain /\ Dispatcher'.pc = "posted" /\ Dispatcher'.code = code
      BY <1>6, <1>12 DEF ServiceMain, Dispatcher
    <2>5. sys.quit \/ Settled
      BY <2>1 DEF Serving, Shows, InHandler
    <2> HIDE DEF code
    <2>6. sys'.quit \/ Shows'
      <3> SUFFICES ASSUME ~sys'.quit PROVE Shows'
        OBVIOUS
      <3>1. Settled
        BY <1>5, <2>5
      <3>2. CASE code \in {"pause", "continue", "stop"}
        BY <1>7, <2>3, <2>4, <3>2 DEF Shows, Pending, InHandler
      <3>3. CASE code \notin {"pause", "continue", "stop"}
        <4>1. scm'.state = scm.state
          BY <1>7, <2>1, <2>2, <3>3 DEF Pending, Controls
        <4>2. Settled'
          BY <1>5, <3>1, <4>1 DEF Settled
        <4> QED BY <2>3, <2>4, <3>3, <4>2 DEF Shows, InHandler
      <3> QED BY <3>2, <3>3
    <2>7. Serving'
      BY <1>4, <1>5, <2>1, <2>2, <2>3, <2>4, <2>6 DEF Serving, Absent, Present
    <2> QED BY <1>4, <1>8, <1>9, <1>10, <2>7, LoopKeeps
  <1> QED BY <1>11, <1>12

(* ... waits, ...                                                          *)
LEMMA WaitStep ==
    ASSUME WinInv, NEW t \in Threads, handler_wait(t)
    PROVE  WinInv'
  <1> USE DEF Threads
  <1>0. sys \in Sys /\ sys.thread \in [Threads -> Thread]
    BY DEF WinInv, WinTypeInv, Sys
  <1>1. /\ sys.thread[t].pc = "posted" /\ scm' = scm
        /\ sys' = [sys EXCEPT !.mutex = FALSE, !.thread[t].pc = "waits"]
    BY DEF handler_wait
  <1>2. sys' \in Sys
    <2>1. [sys.thread EXCEPT ![t].pc = "waits"] \in [Threads -> Thread]
      BY <1>0 DEF Thread, InHandler
    <2> QED BY <1>0, <1>1, <2>1 DEF Sys
  <1>3. sys'.main = sys.main /\ sys'.events = sys.events /\ sys'.object = sys.object
    BY <1>0, <1>1 DEF Sys
  <1>4. sys'.paused = sys.paused /\ sys'.quit = sys.quit
    BY <1>0, <1>1 DEF Sys
  <1>5. /\ sys'.thread[t].pc = "waits" /\ sys'.thread[t].code = sys.thread[t].code
        /\ \A u \in Threads : u # t => sys'.thread[u] = sys.thread[u]
    BY <1>0, <1>1 DEF Sys, Thread
  <1>6. sys.main \in Looping
    BY <1>1, HandlerInLoop DEF InHandler
  <1>7. sys'.main = "ends" => sys'.quit
    BY <1>3, <1>4 DEF WinInv, WinStage
  <1>8. CASE t = "serviceMain"
    <2>1. /\ ServiceMain.pc = "posted" /\ ServiceMain'.pc = "waits"
          /\ ServiceMain'.code = ServiceMain.code /\ Dispatcher' = Dispatcher
      BY <1>1, <1>5, <1>8 DEF ServiceMain, Dispatcher
    <2>2. NotStarted \/ Handled
      BY <1>6, <2>1 DEF WinInv, WinStage, Serving
    <2>3. NotStarted' \/ Handled'
      BY <1>1, <1>3, <1>4, <2>1, <2>2 DEF NotStarted, Handled, Absent, Present
    <2>4. WinTypeInv'
      BY <1>1, <1>2, <2>1, <2>2 DEF WinInv, WinTypeInv, NotStarted, Handled, ServiceMain, Dispatcher
    <2> QED BY <1>3, <1>6, <1>7, <2>3, <2>4, LoopKeeps
  <1>9. CASE t = "dispatcher"
    <2>1. /\ Dispatcher.pc = "posted" /\ Dispatcher'.pc = "waits"
          /\ Dispatcher'.code = Dispatcher.code /\ ServiceMain' = ServiceMain
      BY <1>1, <1>5, <1>9 DEF ServiceMain, Dispatcher
    <2>2. Serving
      BY <1>1, <1>9, HandlerInLoop DEF InHandler
    <2>3. Serving'
      BY <1>1, <1>3, <1>4, <2>1, <2>2
      DEF Serving, Absent, Present, Shows, Settled, InHandler
    <2>4. WinTypeInv'
      BY <1>1, <1>2, <2>1, <2>2 DEF WinInv, WinTypeInv, Serving, ServiceMain, Dispatcher
    <2> QED BY <1>3, <1>6, <1>7, <2>3, <2>4, LoopKeeps
  <1> QED BY <1>8, <1>9

(* ... and returns with the state that is reached; or at once.             *)
LEMMA ReturnStep ==
    ASSUME WinInv, NEW t \in Threads, handler_woken(t) \/ interrogate(t)
    PROVE  WinInv'
  <1> USE DEF Threads
  <1>0. sys \in Sys /\ sys.thread \in [Threads -> Thread] /\ scm \in Scm
    BY DEF WinInv, WinTypeInv, Sys
  <1> DEFINE x == [NoThread EXCEPT !.pc = IF t = "dispatcher" THEN "idle" ELSE "none"]
             code == sys.thread[t].code
  <1>1. sys' = [sys EXCEPT !.thread[t] = x]
    BY DEF handler_woken, interrogate, HandlerReturns
  <1>2. x \in Thread /\ x.pc = IF t = "dispatcher" THEN "idle" ELSE "none"
    BY DEF NoThread, Thread, Codes
  <1> HIDE DEF x
  <1>3. sys' \in Sys
    <2>1. [sys.thread EXCEPT ![t] = x] \in [Threads -> Thread]
      BY <1>0, <1>2
    <2> QED BY <1>0, <1>1, <2>1 DEF Sys
  <1>4. sys'.main = sys.main /\ sys'.events = sys.events /\ sys'.object = sys.object
    BY <1>0, <1>1 DEF Sys
  <1>5. sys'.paused = sys.paused /\ sys'.quit = sys.quit /\ sys'.mutex = sys.mutex
    BY <1>0, <1>1 DEF Sys
  <1>6. sys'.thread[t] = x /\ \A u \in Threads : u # t => sys'.thread[u] = sys.thread[u]
    BY <1>0, <1>1 DEF Sys
  <1>7. /\ sys.thread[t].pc = "woken" => scm' = [scm EXCEPT !.state = Reached(code)]
        /\ sys.thread[t].pc = "locks" => scm' = scm /\ code = "interrogate"
        /\ sys.thread[t].pc \in {"woken", "locks"}
    BY DEF handler_woken, interrogate, setStatus
  <1>8. /\ scm' \in Scm
        /\ sys.thread[t].pc = "woken" => scm'.state = Reached(code)
        /\ sys.thread[t].pc = "locks" => scm'.state = scm.state
    <2>1. Reached(code) \in {"STOPPED", "START_PENDING", "RUNNING", "PAUSE_PENDING", "PAUSED",
                             "CONTINUE_PENDING", "STOP_PENDING"}
      BY <1>0 DEF Reached, Scm
    <2> QED BY <1>0, <1>7, <2>1 DEF Scm
  <1>9. WinTypeInv'
    BY <1>2, <1>3, <1>5, <1>6, <1>8 DEF WinInv, WinTypeInv
  <1>10. sys.main \in Looping
    BY <1>7, HandlerInLoop DEF InHandler
  <1>11. sys'.main = "ends" => sys'.quit
    BY <1>4, <1>5 DEF WinInv, WinStage
  <1>12. CASE t = "serviceMain"
    <2>1. ServiceMain.pc = "woken" /\ Handled /\ code = "startup"
      BY <1>7, <1>12, HandlerInLoop DEF InHandler, ServiceMain
    <2>2. ServiceMain'.pc = "none" /\ Dispatcher' = Dispatcher
      BY <1>2, <1>6, <1>12 DEF ServiceMain, Dispatcher
    <2>3. scm'.state = "RUNNING"
      BY <1>8, <1>12, <2>1 DEF Reached, ServiceMain
    <2>4. Shows'
      BY <1>5, <2>1, <2>2, <2>3 DEF Handled, Shows, Settled, InHandler
    <2>5. Serving'
      BY <1>4, <2>1, <2>2, <2>4 DEF Handled, Serving, Present
    <2> QED BY <1>4, <1>9, <1>10, <1>11, <2>5, LoopKeeps
  <1>13. CASE t = "dispatcher"
    <2>1. /\ Serving /\ code = Dispatcher.code /\ Dispatcher.code \in Controls
          /\ Dispatcher.pc \in {"woken", "locks"}
      BY <1>7, <1>13, HandlerInLoop DEF InHandler, Dispatcher
    <2>2. Dispatcher'.pc = "idle" /\ ServiceMain' = ServiceMain
      BY <1>2, <1>6, <1>13 DEF ServiceMain, Dispatcher
    <2>3. sys.events = <<>> /\ sys.main # "handled"
      BY <2>1 DEF Serving
    <2>4. sys'.quit \/ Settled'
      <3> SUFFICES ASSUME ~sys'.quit PROVE Settled'
        OBVIOUS
      <3>1. Shows
        BY <1>5, <2>1 DEF Serving
      <3>2. CASE Dispatcher.pc = "locks"
        BY <1>5, <1>8, <1>13, <3>1, <3>2 DEF Shows, Settled, InHandler, Dispatcher
      <3>3. CASE Dispatcher.pc = "woken"
        <4>1. scm'.state = Reached(code)
          BY <1>8, <1>13, <3>3 DEF Dispatcher
        <4>2. CASE Dispatcher.code = "pause"
          BY <1>5, <2>1, <2>3, <3>1, <3>3, <4>1, <4>2 DEF Shows, Settled, InHandler, Reached
        <4>3. CASE Dispatcher.code = "continue"
          BY <1>5, <2>1, <2>3, <3>1, <3>3, <4>1, <4>3 DEF Shows, Settled, InHandler, Reached
        <4>4. CASE Dispatcher.code \notin {"pause", "continue"}
          <5>1. Settled
            BY <2>3, <3>1, <3>3, <4>4 DEF Shows, InHandler
          <5>2. scm'.state = scm.state
            BY <2>1, <4>1, <4>4 DEF Reached, Controls
          <5> QED BY <1>5, <5>1, <5>2 DEF Settled
        <4> QED BY <4>2, <4>3, <4>4
      <3> QED BY <2>1, <3>2, <3>3
    <2>5. sys'.quit \/ Shows'
      BY <2>2, <2>4 DEF Shows, InHandler
    <2>6. Serving'
      BY <1>4, <1>5, <2>1, <2>2, <2>3, <2>5 DEF Serving, Present, Absent
    <2> QED BY <1>4, <1>9, <1>10, <1>11, <2>6, LoopKeeps
  <1> QED BY <1>12, <1>13

(* The event loop: the one event that there is ...                         *)
LEMMA EventStep ==
    ASSUME WinInv, handleCustomEvent
    PROVE  WinInv'
  <1> USE DEF Threads
  <1>0. sys \in Sys /\ sys.object \in Object /\ sys.events \in Seq(Codes)
    BY DEF WinInv, WinTypeInv, Sys
  <1> DEFINE code == Head(sys.events)
             o == CASE code = "startup" -> Started(run(ParamThread(sys.object)))
                    [] code = "stop" -> LogEnded(Stopped(sys.object)) [] OTHER -> sys.object
             paused == code = "pause" \/ (sys.paused /\ code # "continue")
             quit == sys.quit \/ code = "stop"
  <1>1. /\ sys.main = "loop" /\ sys.events # <<>> /\ scm' = scm
        /\ sys' = [sys EXCEPT !.main = "handled", !.events = Tail(@), !.object = o,
                              !.paused = paused, !.quit = quit]
    BY DEF handleCustomEvent
  <1>2. paused \in BOOLEAN /\ quit \in BOOLEAN
    BY Zenon
  <1>3. NotStarted \/ Serving
    BY <1>1 DEF WinInv, WinStage, Handled, Looping
  <1>4. \/ code = "startup" /\ NotStarted
        \/ code \in Controls \ {"shutdown"} /\ Serving
    <2>1. CASE NotStarted
      BY <1>1, <2>1 DEF NotStarted
    <2>2. CASE Serving
      <3>1. /\ sys.events = <<IF Dispatcher.code = "shutdown" THEN "stop" ELSE Dispatcher.code>>
            /\ Dispatcher.code \in Controls
        BY <1>1, <2>2 DEF Serving
      <3>2. code = IF Dispatcher.code = "shutdown" THEN "stop" ELSE Dispatcher.code
        BY <3>1
      <3> QED BY <2>2, <3>1, <3>2 DEF Controls
    <2> QED BY <1>3, <2>1, <2>2
  <1>5. Tail(sys.events) = <<>>
    <2>1. PICK e : sys.events = <<e>>
      BY <1>1, <1>3 DEF NotStarted, Serving
    <2>2. Len(sys.events) = 1
      BY <2>1
    <2>3. Tail(sys.events) \in Seq(Codes) /\ Len(Tail(sys.events)) = 0
      <3>1. \A q \in Seq(Codes) : q # <<>> => Tail(q) \in Seq(Codes) /\ Len(Tail(q)) = Len(q) - 1
        OBVIOUS
      <3> QED BY <1>0, <1>1, <2>2, <3>1
    <2>4. \A q \in Seq(Codes) : Len(q) = 0 => q = <<>>
      OBVIOUS
    <2> QED BY <2>3, <2>4
  <1>6. /\ o \in Object
        /\ code = "startup" => Present(o)
        /\ code = "stop" => Absent(o)
        /\ code \notin {"startup", "stop"} => o = sys.object
    <2>1. CASE code = "startup"
      <3>1. Absent(sys.object)
        BY <1>4, <2>1 DEF NotStarted, Controls
      <3> DEFINE a == ParamThread(sys.object)
                 b == run(a)
      <3>2. a \in Object /\ Absent(a)
        BY <1>0, <3>1, StartOps
      <3> HIDE DEF a
      <3>3. b \in Object /\ Absent(b) /\ b.log = "runs"
        BY <3>2, StartOps
      <3>4. o = Started(b)
        BY <2>1 DEF a
      <3> HIDE DEF b, o
      <3> QED BY <2>1, <3>3, <3>4, StartOps
    <2>2. CASE code = "stop"
      <3> DEFINE a == Stopped(sys.object)
      <3>1. Present(sys.object) \/ Absent(sys.object)
        BY <1>4, <2>2 DEF Serving
      <3>2. a \in Object /\ Absent(a)
        BY <1>0, <3>1, RunOps, StartOps
      <3>3. o = LogEnded(a)
        BY <2>2
      <3> HIDE DEF a, o
      <3> QED BY <2>2, <3>2, <3>3, StartOps
    <2>3. CASE code \notin {"startup", "stop"}
      BY <1>0, <2>3
    <2> QED BY <2>1, <2>2, <2>3
  <1> HIDE DEF o
  <1>7. paused <=> (code = "pause" \/ (sys.paused /\ code # "continue"))
    OBVIOUS
  <1>8. quit <=> (sys.quit \/ code = "stop")
    OBVIOUS
  <1> HIDE DEF paused, quit
  <1>9. sys' \in Sys
    <2>1. <<>> \in Seq(Codes)
      OBVIOUS
    <2>2. \A e \in Seq(Codes) : [sys EXCEPT !.main = "handled", !.events = e, !.object = o,
                                            !.paused = paused, !.quit = quit] \in Sys
      BY <1>0, <1>2, <1>6 DEF Sys
    <2> QED BY <1>1, <1>5, <2>1, <2>2, Zenon
  <1>10. sys'.main = "handled" /\ sys'.events = <<>> /\ sys'.object = o /\ sys'.thread = sys.thread
    BY <1>0, <1>1, <1>5 DEF Sys
  <1>11. sys'.paused = paused /\ sys'.quit = quit /\ sys'.mutex = sys.mutex
    BY <1>0, <1>1 DEF Sys
  <1>12. ServiceMain' = ServiceMain /\ Dispatcher' = Dispatcher
    BY <1>10 DEF ServiceMain, Dispatcher
  <1>13. WinTypeInv'
    BY <1>1, <1>9, <1>10, <1>11 DEF WinInv, WinTypeInv
  <1>14. CASE code = "startup"
    <2>1. NotStarted /\ ServiceMain.pc \in {"posted", "waits"} /\ ServiceMain.code = "startup"
      BY <1>1, <1>4, <1>14 DEF NotStarted, Controls
    <2>2. ~sys'.paused
      BY <1>7, <1>11, <1>14, <2>1 DEF NotStarted
    <2>3. Handled'
      BY <1>1, <1>6, <1>10, <1>12, <1>14, <2>1, <2>2 DEF NotStarted, Handled
    <2> QED BY <1>10, <1>13, <2>3, LoopKeeps DEF Looping
  <1>15. CASE code # "startup"
    <2>1. /\ Serving /\ Dispatcher.pc \in {"posted", "waits"} /\ Dispatcher.code \in Controls
          /\ code = IF Dispatcher.code = "shutdown" THEN "stop" ELSE Dispatcher.code
      BY <1>1, <1>4, <1>15 DEF Serving
    <2> HIDE DEF code
    <2>2. Present(sys'.object) \/ (Absent(sys'.object) /\ sys'.quit)
      BY <1>6, <1>8, <1>10, <1>11, <1>15, <2>1 DEF Serving
    <2>3. sys'.quit \/ Shows'
      <3> SUFFICES ASSUME ~sys'.quit PROVE Shows'
        OBVIOUS
      <3>1. Shows /\ code # "stop"
        BY <1>8, <1>11, <2>1 DEF Serving
      <3>2. Dispatcher.code = code
        BY <2>1, <3>1
      <3>3. CASE code = "pause"
        BY <1>1, <1>7, <1>11, <1>12, <2>1, <3>1, <3>2, <3>3 DEF Shows, InHandler
      <3>4. CASE code = "continue"
        BY <1>1, <1>7, <1>11, <1>12, <2>1, <3>1, <3>2, <3>4 DEF Shows, InHandler
      <3>5. CASE code \notin {"pause", "continue"}
        <4>1. Settled
          BY <2>1, <3>1, <3>2, <3>5 DEF Shows, InHandler
        <4>2. Settled'
          BY <1>1, <1>7, <1>11, <3>5, <4>1 DEF Settled
        <4> QED BY <1>12, <2>1, <3>1, <3>2, <3>5, <4>2 DEF Shows, InHandler
      <3> QED BY <3>3, <3>4, <3>5
    <2>4. Serving'
      BY <1>10, <1>12, <2>1, <2>2, <2>3 DEF Serving
    <2> QED BY <1>10, <1>13, <2>4, LoopKeeps DEF Looping
  <1> QED BY <1>14, <1>15

(* ... and the wake-up of who posted it.                                   *)
LEMMA WakeStep ==
    ASSUME WinInv, wakeAll
    PROVE  WinInv'
  <1> USE DEF Threads
  <1>0. sys \in Sys /\ sys.thread \in [Threads -> Thread]
    BY DEF WinInv, WinTypeInv, Sys
  <1> DEFINE th == [t \in Threads |-> IF sys.thread[t].pc = "waits"
                                        THEN [sys.thread[t] EXCEPT !.pc = "woken"] ELSE sys.thread[t]]
  <1>1. /\ sys.main = "handled" /\ ~sys.mutex /\ scm' = scm
        /\ sys' = [sys EXCEPT !.main = "loop", !.thread = th]
    BY DEF wakeAll
  <1>2. th \in [Threads -> Thread]
    BY <1>0 DEF Thread, InHandler
  <1>3. \A t \in Threads : /\ th[t].code = sys.thread[t].code
                           /\ th[t].pc = IF sys.thread[t].pc = "waits" THEN "woken" ELSE sys.thread[t].pc
    BY <1>0 DEF Thread
  <1> HIDE DEF th
  <1>4. sys' \in Sys
    BY <1>0, <1>1, <1>2 DEF Sys
  <1>5. sys'.main = "loop" /\ sys'.events = sys.events /\ sys'.object = sys.object /\ sys'.thread = th
    BY <1>0, <1>1 DEF Sys
  <1>6. sys'.paused = sys.paused /\ sys'.quit = sys.quit /\ sys'.mutex = sys.mutex
    BY <1>0, <1>1 DEF Sys
  <1>7. /\ ServiceMain'.code = ServiceMain.code /\ Dispatcher'.code = Dispatcher.code
        /\ ServiceMain'.pc = IF ServiceMain.pc = "waits" THEN "woken" ELSE ServiceMain.pc
        /\ Dispatcher'.pc = IF Dispatcher.pc = "waits" THEN "woken" ELSE Dispatcher.pc
    BY <1>3, <1>5 DEF ServiceMain, Dispatcher
  <1>8. ServiceMain.pc # "posted" /\ Dispatcher.pc # "posted"
    BY <1>1 DEF WinInv, WinTypeInv, ServiceMain, Dispatcher
  <1>9. WinTypeInv'
    BY <1>1, <1>4, <1>7, <1>8 DEF WinInv, WinTypeInv, ServiceMain, Dispatcher
  <1>10. Handled \/ Serving
    BY <1>1 DEF WinInv, WinStage, NotStarted, Looping
  <1>11. CASE Handled
    <2>1. Handled'
      BY <1>1, <1>5, <1>6, <1>7, <1>8, <1>11 DEF Handled, Present
    <2> QED BY <1>5, <1>9, <2>1, LoopKeeps DEF Looping
  <1>12. CASE Serving
    <2>1. /\ ServiceMain'.pc = "none" /\ Dispatcher.pc = "waits" /\ Dispatcher'.pc = "woken"
          /\ sys.events = <<>> /\ Dispatcher.code \in Controls
      BY <1>1, <1>7, <1>8, <1>12 DEF Serving
    <2>2. sys'.quit \/ Shows'
      BY <1>1, <1>5, <1>6, <1>7, <1>12, <2>1 DEF Serving, Shows, Settled, InHandler
    <2>3. Serving'
      BY <1>5, <1>6, <1>7, <1>12, <2>1, <2>2 DEF Serving, Present, Absent
    <2> QED BY <1>5, <1>9, <2>3, LoopKeeps DEF Looping
  <1> QED BY <1>10, <1>11, <1>12

(* The worker is restarted, the loop is told to end, and ends.             *)
LEMMA LoopStep ==
    ASSUME WinInv, win_restart \/ end_session \/ application_returns
    PROVE  WinInv'
  <1>0. sys \in Sys /\ scm \in Scm /\ sys.object \in Object
    BY DEF WinInv, WinTypeInv, Sys
  <1>1. sys.main = "loop" /\ (NotStarted \/ Handled \/ Serving)
    BY DEF win_restart, end_session, application_returns, WinInv, WinStage, Looping
  <1>2. CASE win_restart
    <2>1. Present(sys.object)
      BY <1>1, <1>2 DEF win_restart, NotStarted, Handled, Serving, Absent
    <2> DEFINE o == Restarted(sys.object)
    <2>2. o \in Object /\ Present(o)
      BY <1>0, <2>1, RunOps
    <2>3. sys' = [sys EXCEPT !.object = o] /\ scm' = scm
      BY <1>2 DEF win_restart
    <2> HIDE DEF o
    <2>4. sys' \in Sys
      BY <1>0, <2>2, <2>3 DEF Sys
    <2>5. /\ sys'.main = sys.main /\ sys'.events = sys.events /\ sys'.thread = sys.thread
          /\ sys'.object = o
      BY <1>0, <2>3 DEF Sys
    <2>6. sys'.paused = sys.paused /\ sys'.quit = sys.quit /\ sys'.mutex = sys.mutex
      BY <1>0, <2>3 DEF Sys
    <2>7. WinTypeInv'
      BY <2>3, <2>4, <2>5, <2>6 DEF WinInv, WinTypeInv
    <2>8. ServiceMain' = ServiceMain /\ Dispatcher' = Dispatcher
      BY <2>5 DEF ServiceMain, Dispatcher
    <2>9. ~NotStarted
      BY <2>1 DEF NotStarted, Absent, Present
    <2>10. Handled => Handled'
      BY <2>2, <2>3, <2>5, <2>6, <2>8 DEF Handled
    <2>11. Serving => Serving'
      BY <2>2, <2>3, <2>5, <2>6, <2>8 DEF Serving, Shows, Settled
    <2> QED BY <1>1, <2>5, <2>7, <2>9, <2>10, <2>11, LoopKeeps DEF Looping
  <1>3. CASE end_session \/ application_returns
    <2>1. /\ sys'.main \in {"loop", "ends"} /\ sys'.events = sys.events
          /\ sys'.object = sys.object /\ sys'.thread = sys.thread
      BY <1>0, <1>1, <1>3 DEF end_session, application_returns, Sys
    <2>2. sys'.paused = sys.paused /\ sys'.mutex = sys.mutex
      BY <1>0, <1>3 DEF end_session, application_returns, Sys
    <2>3. sys'.quit
      BY <1>0, <1>3 DEF end_session, application_returns, Sys
    <2>4. sys' \in Sys
      BY <1>0, <1>3 DEF end_session, application_returns, Sys
    <2>5. scm' \in Scm /\ scm'.state \in {scm.state, "STOPPED"}
      BY <1>0, <1>3 DEF end_session, application_returns, setStatus, Scm
    <2>6. WinTypeInv'
      BY <2>1, <2>2, <2>4, <2>5 DEF WinInv, WinTypeInv
    <2>7. ServiceMain' = ServiceMain /\ Dispatcher' = Dispatcher
      BY <2>1 DEF ServiceMain, Dispatcher
    <2>8. NotStarted => NotStarted'
      BY <2>1, <2>2, <2>3, <2>5, <2>7 DEF NotStarted, Absent
    <2>9. Handled => Handled'
      BY <1>1, <2>1, <2>2, <2>5, <2>7 DEF Handled, Present
    <2>10. Serving => Serving'
      BY <1>1, <2>1, <2>3, <2>7 DEF Serving, Present, Absent
    <2> QED BY <1>1, <2>1, <2>3, <2>6, <2>8, <2>9, <2>10, LoopKeeps DEF Looping
  <1> QED BY <1>2, <1>3

LEMMA WinKeeps ==
    ASSUME WinInv, WinNext
    PROVE  WinInv'
  <1>1. ASSUME NEW c \in Asks, WinUser(c) \/ poll(c) PROVE WinInv'
    BY <1>1, AskStep, ProcessStep, ControlStep DEF WinUser, Controls
  <1>2. CASE WinMain
    BY <1>2, ProcessStep, StartsStep, EventStep, WakeStep, LoopStep DEF WinMain
  <1>3. ASSUME NEW t \in Threads, WinThread(t) PROVE WinInv'
    BY <1>3, ReturnStep, PostStep, WaitStep DEF WinThread
  <1>4. CASE WinStarts \/ gives_up \/ win_restart \/ win_setServiceFlags \/ end_session
    BY <1>4, StartsStep, ProcessStep, LoopStep, WinFlagStep
  <1> QED BY <1>1, <1>2, <1>3, <1>4 DEF WinNext

-----------------------------------------------------------------------------
(* Both. *)

LEMMA InitInv == Init => Inv
  <1> SUFFICES ASSUME Init PROVE Inv
    OBVIOUS
  <1>1. ProcInv
    <2>1. NoProc \in Proc /\ ProcOK(NoProc)
      BY NoObjectIs DEF NoProc, Proc, Pcs, ProcOK, LogAt
    <2> QED BY <2>1 DEF Init, UnixInit, ProcInv
  <1>2. OrderInv /\ PathInv
    BY DEF Init, UnixInit, OrderInv, PathInv, NoProc, Bound
  <1>3. WinInv
    <2>1. sys = NoSys /\ sys.main = "none"
      BY DEF Init, WinInit, NoSys
    <2>2. scm \in Scm /\ scm.state = "STOPPED"
      BY DEF Init, WinInit, Scm
    <2>3. WinTypeInv
      BY <2>1, <2>2, NoSysIs DEF WinTypeInv, NoSys, NoThread
    <2>4. WinStage
      BY <2>1, <2>2 DEF WinStage, Looping
    <2> QED BY <2>3, <2>4 DEF WinInv
  <1> QED BY <1>1, <1>2, <1>3 DEF Inv, UnixInv

LEMMA NextInv == Inv /\ [Next]_vars => Inv'
  <1> SUFFICES ASSUME Inv, [Next]_vars PROVE Inv'
    OBVIOUS
  <1>1. ASSUME UNCHANGED unixVars PROVE UnixInv'
    BY <1>1 DEF Inv, UnixInv, ProcInv, OrderInv, PathInv, unixVars
  <1>2. ASSUME UNCHANGED winVars PROVE WinInv'
    <2>1. scm' = scm /\ sys' = sys /\ scm' \in Scm
      BY <1>2 DEF winVars, Inv, WinInv, WinTypeInv
    <2> QED BY <2>1, SameProcess DEF Inv
  <1>3. CASE UnixStep
    BY <1>2, <1>3, UnixKeeps DEF UnixStep, Inv
  <1>4. CASE WinStep
    BY <1>1, <1>4, WinKeeps DEF WinStep, Inv
  <1>5. CASE UNCHANGED vars
    BY <1>1, <1>2, <1>5 DEF vars, Inv
  <1> QED BY <1>3, <1>4, <1>5 DEF Next

(* The invariant holds.                                                    *)
THEOREM InvHolds == Spec => []Inv
  BY InitInv, NextInv, PTL DEF Spec

(* A service that was started after the last one had ended owns the socket *)
(* file while its loop runs, however many came and died before.            *)
THEOREM ServiceIsReachable == Spec => []ReachableAlone
  <1>1. Inv => ReachableAlone
    BY DEF Inv, UnixInv, PathInv, ReachableAlone, Bound
  <1> QED BY InvHolds, <1>1, PTL

(* Windows hears RUNNING and PAUSED of what is so.                         *)
THEOREM ReportIsTrue == Spec => []ReportsWhatIs
  <1>1. Inv => ReportsWhatIs
    <2> SUFFICES ASSUME Inv, ~sys.quit, scm.state \in {"RUNNING", "PAUSED"}
                 PROVE  /\ sys.object.service
                        /\ scm.state = "RUNNING" => ~sys.paused
                        /\ scm.state = "PAUSED" => sys.paused
      BY DEF ReportsWhatIs
    <2>1. sys \in Sys
      BY DEF Inv, WinInv, WinTypeInv
    <2>2. sys.main \in Looping
      BY <2>1 DEF Inv, WinInv, WinStage, Starting, Looping, Sys
    <2>3. Serving
      BY <2>2 DEF Inv, WinInv, WinStage, NotStarted, Handled
    <2>4. Shows
      BY <2>3 DEF Serving
    <2>5. Settled
      BY <2>4 DEF Shows, Settled
    <2> QED BY <2>3, <2>5 DEF Serving, Present, Settled
  <1> QED BY InvHolds, <1>1, PTL

(* A service that runs has one worker, and one that does not has none.     *)
THEOREM WorkerIsOne == Spec => []OneWorker
  <1>1. Inv => OneWorker
    <2> SUFFICES ASSUME Inv PROVE OneWorker
      OBVIOUS
    <2>1. \A p \in Procs : Present(proc[p].object) \/ Absent(proc[p].object)
      BY DEF Inv, UnixInv, ProcInv, ProcOK
    <2>2. Present(sys.object) \/ Absent(sys.object)
      <3>1. sys \in Sys
        BY DEF Inv, WinInv, WinTypeInv
      <3>2. CASE sys.main \in Looping
        BY <3>2 DEF Inv, WinInv, WinStage, NotStarted, Handled, Serving
      <3>3. CASE sys.main \notin Looping
        <4>1. sys.object = NoObject
          BY <3>1, <3>3 DEF Inv, WinInv, WinStage, Starting, NoSys, Sys, Looping
        <4> QED BY <4>1, NoObjectIs
      <3> QED BY <3>2, <3>3
    <2> QED BY <2>1, <2>2 DEF OneWorker, Present, Absent
  <1> QED BY InvHolds, <1>1, PTL
=============================================================================
