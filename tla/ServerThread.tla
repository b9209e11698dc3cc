----------------------------- MODULE ServerThread -----------------------------
(***************************************************************************)
(* Server_Thread: the thread that creates the io_context and the Server,   *)
(* lends itself to the io_context together with receive_thread_count - 1   *)
(* additional threads, and takes everything down again                     *)
(* (DTLS/dtls_server_thread.cpp, dtls_server.cpp,                          *)
(* dtls_server_controller.cpp, Base/simplethread.h).                       *)
(*                                                                         *)
(* The owner creates it, asks for server(), which waits for the promise    *)
(* run() keeps, and destroys it; when the Server could not be created it   *)
(* joins before that, as a finished thread's io_context_ is gone.  Reading *)
(* promises_ and asking it for its future is one step.                     *)
(*                                                                         *)
(* server_ is never reset: an exception after it was stored, in run() or   *)
(* in a handler of thread 0, destroys the Server behind the owner's back   *)
(* (threw).  Nor does the destructor wait until run() is through with      *)
(* promises_.  What then touches a freed object goes on, or kills the      *)
(* process, which Connection's ServerDies may do at any time.              *)
(***************************************************************************)
EXTENDS Naturals

CONSTANTS IoThreads,       \* the additional threads, 1 .. receive_thread_count - 1
          MaxStarts        \* bound: Server_Thread objects created

ASSUME StartsAssumption == MaxStarts \in Nat

VARIABLES spc,             \* where run() is
          io_context,      \* io_context_
          promises,        \* promises_: there, null, or freed by the destructor
          future,          \* what its future holds
          server,          \* the Server that server_ points to
          io,              \* additional thread -> what it does
          sowner,          \* the owner
          starts,          \* Server_Thread objects created so far
          threw            \* history: an exception came after server_ was stored

serverVars == <<spc, io_context, promises, future, server, io, sowner, starts, threw>>

NoThreads == [t \in IoThreads |-> "none"]

ServerInit ==
    /\ spc = "none" /\ io_context = "wild" /\ promises = "null" /\ future = "unset"
    /\ server = "null" /\ io = NoThreads /\ threw = FALSE
    /\ sowner = "none" /\ starts = 0

(* There is no Server_Thread object any more.                              *)
NoServerThread ==
    /\ spc' = "none" /\ io_context' = "wild" /\ promises' = "null" /\ future' = "unset"
    /\ server' = "null" /\ io' = NoThreads /\ threw' = FALSE
    /\ sowner' = "none"

-----------------------------------------------------------------------------
(* The owner.  The constructor starts run(); io_context_ has no value yet. *)
Server_Thread ==
    /\ sowner = "none" /\ starts < MaxStarts
    /\ starts' = starts + 1
    /\ spc' = "begin" /\ io_context' = "wild" /\ promises' = "there" /\ future' = "unset"
    /\ server' = "null" /\ io' = NoThreads /\ threw' = FALSE
    /\ sowner' = "calling"

(* server() waits for the promise while there is no Server ...             *)
server_waits ==
    /\ sowner = "calling" /\ server = "null" /\ promises = "there"
    /\ sowner' = "waiting"
    /\ UNCHANGED <<spc, io_context, promises, future, server, io, starts, threw>>

(* ... returns it, at once or when the promise is kept ...                 *)
server_returns ==
    /\ \/ sowner = "calling" /\ server # "null"
       \/ sowner = "waiting" /\ future = "true"
    /\ sowner' = "using"
    /\ UNCHANGED <<spc, io_context, promises, future, server, io, starts, threw>>

(* ... throws when that is kept with false, or returns null when it was    *)
(* kept before the call: join() is all that is left to do.                 *)
server_fails ==
    /\ \/ sowner = "calling" /\ server = "null" /\ promises = "null"
       \/ sowner = "waiting" /\ future = "false"
    /\ sowner' = "joining"
    /\ UNCHANGED <<spc, io_context, promises, future, server, io, starts, threw>>

(* ~Server_Thread: deletes promises_ if run() has not done so yet, calls   *)
(* stop() ...                                                              *)
server_stop ==
    /\ sowner = "using"
    /\ sowner' = "joining"
    /\ promises' = IF promises = "there" THEN "freed" ELSE promises
    /\ io_context' = IF io_context = "open" THEN "stopped" ELSE io_context
    /\ UNCHANGED <<spc, future, server, io, starts, threw>>

(* ... and join().                                                         *)
server_join ==
    /\ sowner = "joining" /\ spc = "done"
    /\ NoServerThread
    /\ UNCHANGED starts

-----------------------------------------------------------------------------
(* run() *)

create_io_context ==
    /\ spc = "begin"
    /\ spc' = "context" /\ io_context' = "open"
    /\ UNCHANGED <<promises, future, server, io, sowner, starts, threw>>

(* Tools, or Server::Server when the port is taken, throws.                *)
create_server_throws ==
    /\ spc = "context"
    /\ spc' = "failed"
    /\ UNCHANGED <<io_context, promises, future, server, io, sowner, starts, threw>>

(* The Server is there: server_ ...                                        *)
create_server ==
    /\ spc = "context"
    /\ spc' = "stored" /\ server' = "alive"
    /\ UNCHANGED <<io_context, promises, future, io, sowner, starts, threw>>

(* ... the promise ...                                                     *)
set_value ==
    /\ spc = "stored"
    /\ spc' = "kept" /\ future' = "true"
    /\ UNCHANGED <<io_context, promises, server, io, sowner, starts, threw>>

delete_promises ==
    /\ spc = "kept"
    /\ spc' = "receive" /\ promises' = "null"
    /\ UNCHANGED <<io_context, future, server, io, sowner, starts, threw>>

(* ... the first receive ...                                               *)
start_receive ==
    /\ spc = "receive"
    /\ spc' = "threads"
    /\ UNCHANGED <<io_context, promises, future, server, io, sowner, starts, threw>>

(* ... the additional threads, one after the other ...                     *)
start_thread(t) ==
    /\ spc = "threads" /\ io[t] = "none"
    /\ io' = [io EXCEPT ![t] = "run"]
    /\ UNCHANGED <<spc, io_context, promises, future, server, sowner, starts, threw>>

(* ... and run_context(0).                                                 *)
run_context_0 ==
    /\ spc = "threads" /\ \A t \in IoThreads : io[t] # "none"
    /\ spc' = "run"
    /\ UNCHANGED <<io_context, promises, future, server, io, sowner, starts, threw>>

(* Mutant of handler_throws: the exception stops the io_context.           *)
handler_throws_Stops(t) ==
    /\ io[t] = "run"
    /\ io' = [io EXCEPT ![t] = "finished"]
    /\ io_context' = "stopped"
    /\ UNCHANGED <<spc, promises, future, server, sowner, starts, threw>>

(* An exception in a handler ends its thread only.                         *)
handler_throws(t) ==
    /\ io[t] = "run"
    /\ io' = [io EXCEPT ![t] = "finished"]
    /\ UNCHANGED <<spc, io_context, promises, future, server, sowner, starts, threw>>

(* run_context returns, after the handler it is in: the additional         *)
(* threads' ...                                                            *)
run_context(t) ==
    /\ io_context # "open" /\ io[t] = "run"
    /\ io' = [io EXCEPT ![t] = "finished"]
    /\ UNCHANGED <<spc, io_context, promises, future, server, sowner, starts, threw>>

(* ... and thread 0's, which destroys the Server: ~Server_Controller ends  *)
(* the record threads and closes every client.                             *)
destroy_server ==
    /\ spc = "run" /\ io_context = "stopped"
    /\ server' = "destroyed"
    /\ spc' = "failed"
    /\ UNCHANGED <<io_context, promises, future, io, sowner, starts, threw>>

(* start_receive, the creation of a thread or a handler of thread 0        *)
(* throws: the Server is destroyed, and the io_context not yet stopped.    *)
run_throws ==
    /\ spc \in {"receive", "threads", "run"}
    /\ server' = "destroyed" /\ threw' = TRUE
    /\ spc' = "failed"
    /\ UNCHANGED <<io_context, promises, future, io, sowner, starts>>

(* Mutant of fail_promise: a Server that could not be created is not       *)
(* reported.                                                               *)
fail_promise_Silent ==
    /\ spc = "failed"
    /\ spc' = "failing" /\ promises' = "null"
    /\ UNCHANGED <<io_context, future, server, io, sowner, starts, threw>>

(* After the try block, reached with and without an error: a promise that  *)
(* was not kept is kept with false ...                                     *)
fail_promise ==
    /\ spc = "failed"
    /\ spc' = "failing"
    /\ future' = IF promises = "there" THEN "false" ELSE future
    /\ promises' = "null"
    /\ UNCHANGED <<io_context, server, io, sowner, starts, threw>>

stop_io_context ==
    /\ spc = "failing"
    /\ spc' = "join" /\ io_context' = "stopped"
    /\ UNCHANGED <<promises, future, server, io, sowner, starts, threw>>

(* ... and the io_context goes after the last thread in it.                *)
delete_io_context ==
    /\ spc = "join" /\ \A t \in IoThreads : io[t] \in {"none", "finished"}
    /\ io_context' = "deleted" /\ spc' = "done"
    /\ UNCHANGED <<promises, future, server, io, sowner, starts, threw>>

(* Thread 0's steps that nothing but the processor holds up.               *)
RunGoesOn ==
    \/ create_io_context \/ set_value \/ delete_promises \/ start_receive
    \/ (\E t \in IoThreads : start_thread(t)) \/ run_context_0
    \/ fail_promise \/ stop_io_context \/ delete_io_context
ServerRunStep ==
    \/ RunGoesOn \/ create_server_throws
    \/ \E t \in IoThreads : handler_throws(t) \/ run_context(t)
OwnerGoesOn == server_waits \/ server_returns \/ server_fails \/ server_join
ServerOwnerStep == Server_Thread \/ server_stop \/ OwnerGoesOn

-----------------------------------------------------------------------------
(* What server() has returned can be used until the owner destroys the     *)
(* Server_Thread: the Server exists and its io_context is not stopped,     *)
(* whatever the handlers of the additional threads throw, unless run() or  *)
(* a handler of thread 0 has thrown.                                       *)
ReturnedIsAlive ==
    sowner = "using" /\ ~threw => server = "alive" /\ io_context = "open"

(* Nobody waits for nothing: a server() that waits has its answer, or the  *)
(* promise exists and run() has yet to come to one of the two places that  *)
(* keep it; and it is kept with true only for a Server that was stored.    *)
WaitIsAnswered ==
    /\ sowner = "waiting" =>
         \/ future # "unset"
         \/ promises = "there" /\ spc \in {"begin", "context", "stored", "failed"}
    /\ future = "true" => server # "null"
=============================================================================
