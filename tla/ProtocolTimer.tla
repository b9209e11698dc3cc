---------------------------- MODULE ProtocolTimer ----------------------------
(***************************************************************************)
(* Protocol_Timer (Network/net_protocol_timer.cpp): one thread that calls  *)
(* on_protocol_timeout of its emiter when a time point given to add() is   *)
(* reached.  Every node of a controller shares one timer.                  *)
(*                                                                         *)
(* add() and stop() run on any thread, each under mutex_.  The timer       *)
(* thread sleeps on a condition variable with mutex_ released and emits    *)
(* with mutex_ released; what it does while it holds mutex_ is one step.   *)
(* A call of add() stands for the endpoint and data that it carries.       *)
(***************************************************************************)
EXTENDS Naturals, Functions

CONSTANTS Calls,           \* calls of add()
          Slack,           \* the 10 ms after now that still count as due
          MaxTime,         \* bound: the clock
          NoTime           \* "no deadline"

ASSUME SlackAssumption == Slack \in Nat
ASSUME TimeAssumption == MaxTime \in Nat /\ NoTime \notin Nat

VARIABLES now,             \* the system clock
          items,           \* items_: time point -> the call that came first
          new_timeout_flag,
          break_flag,
          pc,              \* where the timer thread is
          deadline,        \* the time point it sleeps until
          clients,         \* items taken out, still to be emitted, by time
          asked,           \* call -> its time point, once made
          emitted          \* call -> how often it was emitted

timerVars == <<now, items, new_timeout_flag, break_flag, pc, deadline, clients,
               asked, emitted>>

Time == 0 .. MaxTime

TimerInit ==
    /\ now = 0
    /\ items = [t \in {} |-> NoTime]
    /\ new_timeout_flag = FALSE
    /\ break_flag = FALSE
    /\ pc = "loop"
    /\ deadline = NoTime
    /\ clients = [t \in {} |-> NoTime]
    /\ asked = [c \in Calls |-> NoTime]
    /\ emitted = [c \in Calls |-> 0]

-----------------------------------------------------------------------------
(* Mutant of add(): the flag is not raised.                                *)
add_WithoutFlag(c, t) ==
    /\ asked[c] = NoTime
    /\ asked' = [asked EXCEPT ![c] = t]
    /\ items' = IF t \in DOMAIN items
                  THEN items
                  ELSE [u \in DOMAIN items \cup {t} |-> IF u = t THEN c ELSE items[u]]
    /\ UNCHANGED <<now, new_timeout_flag, break_flag, pc, deadline, clients, emitted>>

(* add(): items_ is a map, so a time point it already has is not replaced  *)
(* and the new item is gone.                                               *)
add(c, t) ==
    /\ asked[c] = NoTime
    /\ asked' = [asked EXCEPT ![c] = t]
    /\ items' = IF t \in DOMAIN items
                  THEN items
                  ELSE [u \in DOMAIN items \cup {t} |-> IF u = t THEN c ELSE items[u]]
    /\ new_timeout_flag' = TRUE
    /\ UNCHANGED <<now, break_flag, pc, deadline, clients, emitted>>

stop ==
    /\ ~break_flag
    /\ break_flag' = TRUE
    /\ UNCHANGED <<now, items, new_timeout_flag, pc, deadline, clients, asked,
                   emitted>>

(* The loop's guard, read without mutex_.                                  *)
CheckBreak ==
    /\ pc = "loop"
    /\ pc' = IF break_flag THEN "done" ELSE "lock"
    /\ UNCHANGED <<now, items, new_timeout_flag, break_flag, deadline, clients,
                   asked, emitted>>

IsFirst(t, S) == t \in S /\ \A u \in S : t <= u

(* wait() or wait_until() the first time point, fixed here.                *)
StartWait ==
    /\ pc = "lock"
    /\ \/ DOMAIN items = {} /\ deadline' = NoTime
       \/ \E t \in DOMAIN items : IsFirst(t, DOMAIN items) /\ deadline' = t
    /\ pc' = "waiting"
    /\ UNCHANGED <<now, items, new_timeout_flag, break_flag, clients, asked,
                   emitted>>

(* Mutant of Notified: the wait's predicate forgets the flag of stop().    *)
Notified_IgnoresStop == new_timeout_flag

Notified == break_flag \/ new_timeout_flag
Reached == deadline # NoTime /\ now >= deadline

(* Mutant of DueItems: once the wait times out everything counts as due.   *)
DueItems_All == DOMAIN items

(* The predicate or the clock ends the wait.  Only when the predicate is   *)
(* still false is it a timeout, and only then are due items taken out.     *)
DueItems == {t \in DOMAIN items : now + Slack >= t}
Taken == IF Notified THEN {} ELSE DueItems

(* Mutant of ItemsLeft: what is taken out is not erased.                   *)
ItemsLeft_All == DOMAIN items

ItemsLeft == DOMAIN items \ Taken

Wake ==
    /\ pc = "waiting" /\ (Notified \/ Reached)
    /\ IF break_flag
         THEN /\ pc' = "done"
              /\ UNCHANGED <<items, new_timeout_flag, clients>>
         ELSE /\ new_timeout_flag' = FALSE
              /\ clients' = Restrict(items, Taken)
              /\ items' = Restrict(items, ItemsLeft)
              /\ pc' = "emit"
    /\ UNCHANGED <<now, break_flag, deadline, asked, emitted>>

(* on_protocol_timeout for the first of the items taken out; a stop() does *)
(* not cut this loop short.                                                *)
Emit ==
    /\ pc = "emit"
    /\ \E t \in DOMAIN clients :
         /\ IsFirst(t, DOMAIN clients)
         /\ emitted' = [emitted EXCEPT ![clients[t]] = @ + 1]
         /\ clients' = Restrict(clients, DOMAIN clients \ {t})
    /\ UNCHANGED <<now, items, new_timeout_flag, break_flag, pc, deadline, asked>>

EmitDone ==
    /\ pc = "emit" /\ DOMAIN clients = {}
    /\ pc' = "loop"
    /\ UNCHANGED <<now, items, new_timeout_flag, break_flag, deadline, clients,
                   asked, emitted>>

TimerThread == CheckBreak \/ StartWait \/ Wake \/ Emit \/ EmitDone

TimePasses ==
    /\ now < MaxTime
    /\ now' = now + 1
    /\ UNCHANGED <<items, new_timeout_flag, break_flag, pc, deadline, clients,
                   asked, emitted>>

TimerNext ==
    \/ \E c \in Calls : \E t \in Time : add(c, t)
    \/ stop
    \/ TimerThread
    \/ TimePasses

(* The timer thread is scheduled and time passes; callers promise nothing. *)
TimerSpec == TimerInit /\ [][TimerNext]_timerVars /\ WF_timerVars(TimerThread) /\ WF_timerVars(TimePasses)

-----------------------------------------------------------------------------
TypeOK ==
    /\ now \in Time
    /\ DOMAIN items \subseteq Time /\ items \in [DOMAIN items -> Calls]
    /\ new_timeout_flag \in BOOLEAN
    /\ break_flag \in BOOLEAN
    /\ pc \in {"loop", "lock", "waiting", "emit", "done"}
    /\ deadline \in Time \cup {NoTime}
    /\ DOMAIN clients \subseteq Time /\ clients \in [DOMAIN clients -> Calls]
    /\ asked \in [Calls -> Time \cup {NoTime}]
    /\ emitted \in [Calls -> Nat]

(* No wake-up is lost: while the timer thread sleeps, an item due before   *)
(* the time it sleeps until has its new_timeout_flag_ still up, so that    *)
(* the thread looks at items_ again before that item is late.              *)
NoLostWakeup ==
    pc = "waiting" =>
       \A t \in DOMAIN items :
          deadline = NoTime \/ t < deadline => new_timeout_flag

(* An item leaves items_ at most Slack before its time point, and is kept  *)
(* under the time point its caller gave.                                   *)
NeverEarly ==
    /\ \A t \in DOMAIN items : asked[items[t]] = t
    /\ \A t \in DOMAIN clients : asked[clients[t]] = t /\ t <= now + Slack
    /\ \A c \in Calls : emitted[c] > 0 => asked[c] # NoTime /\ asked[c] <= now + Slack

(* A call of add() has at most one emission, made, pending or to come.     *)
EmittedOnce ==
    /\ \A t \in DOMAIN items : emitted[items[t]] = 0
    /\ \A t \in DOMAIN clients : emitted[clients[t]] = 0
    /\ \A t \in DOMAIN items, u \in DOMAIN clients : items[t] # clients[u]
    /\ \A c \in Calls : emitted[c] <= 1

(* Every item on the list is emitted, unless stop() comes first.           *)
EventuallyEmitted ==
    \A c \in Calls :
       (\E t \in DOMAIN items : items[t] = c) ~> (emitted[c] = 1 \/ break_flag)

(* After stop() the thread ends, so that join() returns, wherever the      *)
(* thread was when the flag was set.                                       *)
StopEnds == break_flag ~> pc = "done"

(* Whatever was taken out of items_ is emitted, even after a stop().       *)
NothingDropped == pc \in {"loop", "lock", "waiting", "done"} => DOMAIN clients = {}

(* The inductive invariant.                                                *)
TimerInv == TypeOK /\ NoLostWakeup /\ NeverEarly /\ EmittedOnce /\ NothingDropped
==============================================================================
