---------------------------- MODULE ServiceObject ----------------------------
(***************************************************************************)
(* Helpz::Service (Service/service.cpp, service.h): the Object that        *)
(* Base::start creates and Base::stop destroys, with its worker.  Commands *)
(* for the worker, and the worker's wish to be restarted, are queued in    *)
(* the event loop; an event for an object that is deleted goes with it.    *)
(* The Object also keeps a thread for the log, a ParamThread               *)
(* (Base/simplethread.h): it waits for the object of that thread to be     *)
(* created before it creates the worker, and for the thread to end after   *)
(* it has deleted it.                                                      *)
(***************************************************************************)
EXTENDS Naturals

(* Before Base::start: service_ is null.                                   *)
NoObject == [service |-> FALSE, workers |-> 0, posted |-> {}, wants_restart |-> FALSE,
             log |-> "none"]

create_worker(o) == [o EXCEPT !.workers = @ + 1]
delete_worker(o) == [o EXCEPT !.workers = @ - 1, !.posted = {}, !.wants_restart = FALSE]

(* Object::Object: log_thread_->start(); the thread creates its object and *)
(* keeps the promise of ptr() ...                                          *)
ParamThread(o) == [o EXCEPT !.log = "starts"]
run(o) == [o EXCEPT !.log = "runs"]
ptr(o) == o.log = "runs"

(* ... then the worker is created, and Base::start has its service_.       *)
Started(o) == create_worker([o EXCEPT !.service = TRUE])

(* Base::stop: service_.reset(), a second time without effect.  ~Object    *)
(* deletes the worker and tells the thread of the log to quit ...          *)
Stopped(o) == IF o.service THEN [delete_worker(o) EXCEPT !.service = FALSE, !.log = "quits"] ELSE o

(* ... which ends, or is terminated after 15 s.                            *)
LogEnded(o) == [o EXCEPT !.log = "none"]

(* Object::processCommands posts the command.                              *)
Commanded(o, c) == [o EXCEPT !.posted = @ \cup {c}]
Delivered(o, c) == [o EXCEPT !.posted = @ \ {c}]

(* Mutant of Restarted: the old worker is not deleted.                     *)
Restarted_KeepsOld(o) == create_worker([o EXCEPT !.posted = {}, !.wants_restart = FALSE])

(* serviceRestart() is queued, then Object::restart.                       *)
WantsRestart(o) == [o EXCEPT !.wants_restart = TRUE]
Restarted(o) == create_worker(delete_worker(o))
=============================================================================
