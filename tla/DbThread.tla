------------------------------- MODULE DbThread -------------------------------
(***************************************************************************)
(* DB::Thread (Database/db_thread.cpp): a queue of tasks, the threads that *)
(* take them off it, and the futures their callers hold.  What is done     *)
(* under mutex_ is one step.                                               *)
(***************************************************************************)
EXTENDS Naturals, Sequences, FiniteSets, Functions

CONSTANTS MaxThreads,      \* bound: thread_count
          MaxTasks         \* bound: calls of add, add_query and add_pending_query

Workers == 1 .. MaxThreads
Tasks == 1 .. MaxTasks     \* in the order of the calls

ASSUME ThreadAssumption == MaxThreads \in Nat \ {0} /\ MaxTasks \in Nat

VARIABLES threads,         \* thread_list_
          pc,              \* worker -> where its run() is
          data_queue,      \* data_queue_
          break_flag,      \* break_flag_
          future,          \* task -> what its future says
          owner            \* the Thread object: in use, being destroyed, gone

threadVars == <<threads, pc, data_queue, break_flag, future, owner>>

(* Thread::Thread: thread_count threads.                                   *)
ThreadInit ==
    /\ \E thread_count \in Workers : threads = 1 .. thread_count
    /\ pc = [w \in Workers |-> IF w \in threads THEN "test" ELSE "none"]
    /\ data_queue = <<>>
    /\ break_flag = FALSE
    /\ future = [t \in Tasks |-> "none"]
    /\ owner = "using"

IsNew(t) == future[t] = "none" /\ \A s \in 1 .. t - 1 : future[s] # "none"

Sleeping == {w \in threads : pc[w] = "sleep"}
NotifyAll == [w \in Workers |-> IF w \in Sleeping THEN "wait" ELSE pc[w]]

(* notify_one: one of those asleep, if there is one.                       *)
NotifyOne ==
    IF Sleeping = {} THEN UNCHANGED pc ELSE \E w \in Sleeping : pc' = [pc EXCEPT ![w] = "wait"]

-----------------------------------------------------------------------------
(* Mutant of add_task: nobody is told.                                     *)
add_task_Silent(t) ==
    /\ owner = "using" /\ IsNew(t)
    /\ data_queue' = Append(data_queue, t)
    /\ future' = [future EXCEPT ![t] = "queued"]
    /\ UNCHANGED <<threads, pc, break_flag, owner>>

(* add_task, also after stop(): nothing looks at break_flag_.              *)
add_task(t) ==
    /\ owner = "using" /\ IsNew(t)
    /\ data_queue' = Append(data_queue, t)
    /\ future' = [future EXCEPT ![t] = "queued"]
    /\ NotifyOne
    /\ UNCHANGED <<threads, break_flag, owner>>

(* add_pending_query without sql: a future without a state.                *)
add_nothing(t) ==
    /\ owner = "using" /\ IsNew(t)
    /\ future' = [future EXCEPT ![t] = "invalid"]
    /\ UNCHANGED <<threads, pc, data_queue, break_flag, owner>>

(* Mutant of StopWakes: only one thread is woken.                          *)
StopWakes_One == NotifyOne

StopWakes == pc' = NotifyAll

(* stop, by the owner, who then goes on ...                                *)
stop ==
    /\ owner = "using" /\ ~break_flag
    /\ break_flag' = TRUE
    /\ StopWakes
    /\ UNCHANGED <<threads, data_queue, future, owner>>

(* ... or in the destructor.                                               *)
destroy ==
    /\ owner = "using"
    /\ break_flag' = TRUE
    /\ StopWakes
    /\ owner' = "joining"
    /\ UNCHANGED <<threads, data_queue, future>>

(* Every thread was joined: the queue is destroyed, and with it the        *)
(* promises of the tasks that are left in it.                              *)
destroyed ==
    /\ owner = "joining" /\ \A w \in threads : pc[w] = "ended"
    /\ owner' = "gone"
    /\ future' = [t \in Tasks |-> IF t \in Range(data_queue) THEN "broken" ELSE future[t]]
    /\ data_queue' = <<>>
    /\ UNCHANGED <<threads, pc, break_flag>>

-----------------------------------------------------------------------------
(* run: the test of break_flag_, which is not under mutex_.                *)
test_break_flag(w) ==
    /\ pc[w] = "test"
    /\ pc' = [pc EXCEPT ![w] = IF break_flag THEN "ended" ELSE "wait"]
    /\ UNCHANGED <<threads, data_queue, break_flag, future, owner>>

(* The wait: it ends with break_flag_ set or something in the queue.       *)
wait(w) ==
    /\ pc[w] = "wait"
    /\ break_flag \/ data_queue = <<>>
    /\ pc' = [pc EXCEPT ![w] = IF break_flag THEN "ended" ELSE "sleep"]
    /\ UNCHANGED <<threads, data_queue, break_flag, future, owner>>

take_task(w) ==
    /\ pc[w] = "wait" /\ ~break_flag /\ data_queue # <<>>
    /\ pc' = [pc EXCEPT ![w] = "task"]
    /\ future' = [future EXCEPT ![Head(data_queue)] = "running"]
    /\ data_queue' = Tail(data_queue)
    /\ UNCHANGED <<threads, break_flag, owner>>

(* The packaged_task is over, with or without an exception.                *)
task_ends(w, t, how) ==
    /\ pc' = [pc EXCEPT ![w] = "test"]
    /\ future' = [future EXCEPT ![t] = how]
    /\ UNCHANGED <<threads, data_queue, break_flag, owner>>
=============================================================================
