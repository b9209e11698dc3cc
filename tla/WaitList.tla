------------------------------ MODULE WaitList ------------------------------
(***************************************************************************)
(* The life of an outgoing Message_Item that waits for an answer           *)
(* (Network/net_protocol.cpp, net_message_item.cpp, net_protocol_sender.cpp,*)
(* and the posting done by DTLS/dtls_node.cpp).                            *)
(*                                                                         *)
(* The application builds a message with answer(), timeout() and finally() *)
(* callbacks; sending it posts a job to the io_context.  The io thread     *)
(* gives it an id, sends the packet and, if the message may still be       *)
(* answered, puts it on waiting_messages_ and registers a timer.  The      *)
(* record thread takes it off for an answer or a fragment query, the timer *)
(* thread when it is due; every message is reachable from one place at a   *)
(* time, and finally() runs when nothing refers to it any more.            *)
(*                                                                         *)
(* Times are counted down: a due time of 0 is reached, an end_in of 0      *)
(* means end_time_ <= now.  The payload is left out.                       *)
(***************************************************************************)
EXTENDS Integers, Sequences, FiniteSets, Functions

CONSTANTS Msgs,            \* messages the application sends
          Large,           \* those longer than fragment_size from the start
          Medium,          \* those longer than half of it
          IdCount,         \* number of message ids, 2^8 in the code
          NoId,
          Lifetime,        \* from now to end_time_
          ResendTimeout,   \* resend_timeout_
          PopSlack,        \* the 20 ms of pop_waiting_messages
          TimerSlack,      \* the 10 ms of Protocol_Timer::run
          MaxParts,        \* bound: fragment queries the peer sends
          MaxEmits,        \* bound: pending calls of on_protocol_timeout
          PromptIo         \* the io thread takes a message before its end_time_

ASSUME MsgsAssumption ==
    IsFiniteSet(Msgs) /\ Large \subseteq Medium /\ Medium \subseteq Msgs
ASSUME IdsAssumption == IdCount \in Nat \ {0} /\ NoId \notin 0 .. IdCount - 1
ASSUME TimesAssumption ==
    /\ Lifetime \in Nat \ {0} /\ ResendTimeout \in Nat \ {0}
    /\ PopSlack \in Nat /\ TimerSlack \in 0 .. PopSlack
    /\ MaxParts \in Nat /\ MaxEmits \in Nat \ {0}
    /\ PromptIo \in BOOLEAN

VARIABLES created,         \* messages handed to send_message
          io_queue,        \* messages posted to the io_context
          waiting,         \* waiting_messages_: message -> its time_point
          end_in,          \* end_time_ of a message
          msg_id,          \* id_
          repeated,        \* messages with the REPEATED flag, fragment_size_ halved
          next_tx_msg_id,  \* next_tx_msg_id_
          timers,          \* this protocol's items of Protocol_Timer
          emits,           \* on_protocol_timeout calls still to be run
          net,             \* what is in flight for a message
          parts,           \* fragment queries the peer may still send
          answered,        \* message -> messages whose answer its answer_func_ got
          timed_out,       \* message -> how often timeout_func_ was called
          open,            \* the node has a protocol and an active DTLS channel
          \* history
          dropped,         \* messages let go without a callback
          crossed,         \* messages in flight while another had the same id
          untimed          \* messages without a timer for their time_point

vars == <<created, io_queue, waiting, end_in, msg_id, repeated, next_tx_msg_id,
          timers, emits, net, parts, answered, timed_out, open,
          dropped, crossed, untimed>>

Waiting == DOMAIN waiting
Queued == Range(io_queue)

Init ==
    /\ created = {}
    /\ io_queue = <<>>
    /\ waiting = <<>>
    /\ end_in = [m \in Msgs |-> 0]
    /\ msg_id = [m \in Msgs |-> NoId]
    /\ repeated = {}
    /\ next_tx_msg_id = 0
    /\ timers = {}
    /\ emits = 0
    /\ net = [m \in Msgs |-> "nothing"]
    /\ parts = [m \in Msgs |-> IF m \in Medium THEN MaxParts ELSE 0]
    /\ answered = [m \in Msgs |-> {}]
    /\ timed_out = [m \in Msgs |-> 0]
    /\ open = TRUE
    /\ dropped = {} /\ crossed = {} /\ untimed = {}

-----------------------------------------------------------------------------
(* Protocol::send_message gives the message to the writer, which posts it. *)
PostedTo(queue, m) == Append(queue, m)

(* answer() and timeout() set the callbacks and end_time_; the destructor  *)
(* of Protocol_Sender hands the message to send_message.                   *)
send_message(m) ==
    /\ open /\ m \notin created
    /\ created' = created \cup {m}
    /\ end_in' = [end_in EXCEPT ![m] = Lifetime]
    /\ io_queue' = PostedTo(io_queue, m)
    /\ UNCHANGED <<waiting, msg_id, repeated, next_tx_msg_id, timers, emits,
                   net, parts, answered, timed_out, dropped, crossed, untimed, open>>

(* Mutant of Without: nothing is taken off the list.                       *)
Without_Keeps(ms) == waiting

Without(ms) == [m \in Waiting \ ms |-> waiting[m]]

(* pop_waiting_message: the waiting message with this id, if any.  All     *)
(* messages have the same cmd, so that pop_waiting_answer sees the id only.*)
WithId(id) == {m \in Waiting : msg_id'[m] = id}

(* Mutant of add_to_waiting: a message with the same id stays.             *)
add_to_waiting_KeepsSameId(m, due) ==
    /\ waiting' = [x \in Waiting \cup {m} |-> IF x = m THEN due ELSE waiting[x]]
    /\ UNCHANGED dropped

(* add_to_waiting: a waiting message with the same id is thrown out, and   *)
(* so is the new one if its time_point is the key of another entry.  Times *)
(* are coarser here than in the code, so equal ones may or may not clash.  *)
add_to_waiting(m, due) ==
    LET same == WithId(msg_id'[m])
        rest == Without(same)
        evicted == dropped \cup (same \ {m})
    IN  \/ /\ waiting' = [x \in DOMAIN rest \cup {m} |-> IF x = m THEN due ELSE rest[x]]
           /\ dropped' = evicted
        \/ /\ \E x \in DOMAIN rest : rest[x] = due
           /\ waiting' = rest
           /\ dropped' = evicted \cup {m}

(* data_device_->size() > fragment_size(), with the size as it now is.     *)
IsFragmented(m) == m \in Large \/ (m \in Medium /\ m \in repeated)

NextTxId == (next_tx_msg_id + 1) % IdCount

(* The packet goes out.  Ids are used again without a look at what is on   *)
(* its way: an answer or a query for another message of the same id may    *)
(* still arrive, and if this one is too late to wait, its own answer meets *)
(* another that waits.                                                     *)
SendPacket(m, id, waits) ==
    LET others == {x \in Msgs \ {m} : msg_id[x] = id}
    IN  /\ net' = [net EXCEPT ![m] = IF IsFragmented(m) THEN "fragment" ELSE "plain"]
        /\ crossed' = crossed \cup {x \in others : net[x] # "nothing"}
                              \cup IF ~waits /\ others \cap Waiting # {} THEN {m} ELSE {}

(* add_timeout_at: the item is kept unless the time point is taken, by     *)
(* another node's item or by a FRAGMENT item of this one.                  *)
RegisterTimer(m, due) ==
    \/ timers' = timers \cup {due} /\ untimed' = untimed \ {m}
    \/ UNCHANGED timers /\ untimed' = untimed \cup {m}

(* prepare_packet_to_send on the io thread, called by Node::write_impl,    *)
(* which does nothing once the node is closed.                             *)
prepare_packet_to_send ==
    /\ io_queue # <<>>
    /\ LET m == io_queue[1]
           id == IF msg_id[m] = NoId THEN next_tx_msg_id ELSE msg_id[m]
           end == IF IsFragmented(m) THEN Lifetime ELSE end_in[m]
           due == IF ResendTimeout < end THEN ResendTimeout ELSE end
       IN IF open
            THEN /\ msg_id' = [msg_id EXCEPT ![m] = id]
                 /\ next_tx_msg_id' = IF msg_id[m] = NoId
                                        THEN NextTxId
                                        ELSE next_tx_msg_id
                 /\ end_in' = [end_in EXCEPT ![m] = end]
                 /\ SendPacket(m, id, end > 0)
                 /\ IF end > 0
                      THEN add_to_waiting(m, due) /\ RegisterTimer(m, due)
                      ELSE /\ dropped' = dropped \cup {m}
                           /\ UNCHANGED <<waiting, timers, untimed>>
            ELSE UNCHANGED <<msg_id, next_tx_msg_id, end_in, net, waiting, timers,
                             dropped, crossed, untimed>>
    /\ io_queue' = Tail(io_queue)
    /\ UNCHANGED <<created, repeated, emits, parts, answered, timed_out,
                   open>>

-----------------------------------------------------------------------------
(* The network and the peer: a packet is lost, or the peer, which has the  *)
(* whole message, answers.                                                 *)
LosePacket(m) ==
    /\ net[m] # "nothing"
    /\ net' = [net EXCEPT ![m] = "nothing"]
    /\ UNCHANGED <<created, io_queue, waiting, end_in, msg_id, repeated,
                   next_tx_msg_id, timers, emits, parts, answered, timed_out,
                   dropped, crossed, untimed, open>>

PeerAnswers(m) ==
    /\ net[m] = "plain" \/ (net[m] = "fragment" /\ parts[m] = 0)
    /\ net' = [net EXCEPT ![m] = "answer"]
    /\ UNCHANGED <<created, io_queue, waiting, end_in, msg_id, repeated,
                   next_tx_msg_id, timers, emits, parts, answered, timed_out,
                   dropped, crossed, untimed, open>>

(* An answer arrives: pop_waiting_answer takes the waiting message with    *)
(* this id off the list, its answer_func_ runs, and the message goes.      *)
process_answer(m) ==
    /\ open /\ net[m] = "answer"
    /\ UNCHANGED msg_id
    /\ LET found == WithId(msg_id[m])
       IN /\ waiting' = Without(found)
          /\ answered' = [x \in Msgs |-> IF x \in found THEN answered[x] \cup {m}
                                                        ELSE answered[x]]
    /\ net' = [net EXCEPT ![m] = "nothing"]
    /\ UNCHANGED <<created, io_queue, end_in, repeated, next_tx_msg_id,
                   timers, emits, parts, timed_out, dropped, crossed, untimed, open>>

(* Mutant of PutBack: a message the peer has completely is forgotten.      *)
PutBack_Forgets(found) == waiting' = Without(found) /\ UNCHANGED <<dropped, untimed>>

(* A message that expects an answer goes back to the list, with a new      *)
(* time_point; add_timeout_at is not called on that path.                  *)
PutBack(found) ==
    IF found = {} THEN UNCHANGED <<waiting, dropped, untimed>>
                  ELSE \E x \in found :
                          /\ add_to_waiting(x, end_in[x])
                          /\ untimed' = untimed \cup {x}

(* process_fragment_query: the peer wants another part, so the message is  *)
(* posted again, or it has them all, and the message goes back to the list *)
(* until end_time_.                                                        *)
process_fragment_query(m) ==
    /\ open /\ net[m] = "fragment"
    /\ UNCHANGED msg_id
    /\ LET found == WithId(msg_id[m])
       IN IF parts[m] > 0
            THEN /\ waiting' = Without(found)
                 /\ IF found = {} THEN UNCHANGED io_queue
                                  ELSE \E x \in found : io_queue' = PostedTo(io_queue, x)
                 /\ net' = [net EXCEPT ![m] = "nothing"]
                 /\ parts' = [parts EXCEPT ![m] = @ - 1]
                 /\ UNCHANGED <<dropped, untimed>>
            ELSE /\ PutBack(found)
                 /\ net' = [net EXCEPT ![m] = "answer"]
                 /\ UNCHANGED <<io_queue, parts>>
    /\ UNCHANGED <<created, end_in, repeated, next_tx_msg_id, timers, emits,
                   answered, timed_out, crossed, open>>

-----------------------------------------------------------------------------
(* Mutant of FireTimers: the timeout is not passed on.                     *)
FireTimers_Forgets ==
    /\ 0 \in timers /\ emits < MaxEmits
    /\ timers' = {t \in timers : t > TimerSlack}
    /\ UNCHANGED <<created, io_queue, waiting, end_in, msg_id, repeated,
                   next_tx_msg_id, emits, net, parts, answered, timed_out,
                   dropped, crossed, untimed, open>>

(* Protocol_Timer: once its first item is due, every item due within the   *)
(* slack becomes a call of on_protocol_timeout.                            *)
FireTimers ==
    /\ 0 \in timers /\ emits < MaxEmits
    /\ emits' = emits + Cardinality({t \in timers : t <= TimerSlack})
    /\ timers' = {t \in timers : t > TimerSlack}
    /\ UNCHANGED <<created, io_queue, waiting, end_in, msg_id, repeated,
                   next_tx_msg_id, net, parts, answered, timed_out, dropped, crossed, untimed,
                   open>>

(* process_wait_list: the messages pop_waiting_messages takes off the list *)
(* are sent again while end_time_ lies ahead and time out otherwise.       *)
Popped == {m \in Waiting : waiting[m] <= PopSlack}

Again == {m \in Popped : end_in[m] > 0}

(* Mutant of Left: a message to be sent again stays on the list.           *)
Left_KeepsAgain == Without(Popped \ Again)

Left == Without(Popped)

(* The list is kept by time_point.  Times that are equal here are not in   *)
(* the code, and in either order.                                          *)
InDueOrder(s) == \A i, j \in DOMAIN s : i < j => waiting[s[i]] <= waiting[s[j]]

process_wait_list ==
    /\ emits > 0
    /\ emits' = emits - 1
    /\ IF open
         THEN /\ waiting' = Left
              /\ \E s \in Bijection(1 .. Cardinality(Again), Again) :
                    InDueOrder(s) /\ io_queue' = io_queue \o s
              /\ timed_out' = [m \in Msgs |-> IF m \in Popped \ Again
                                                THEN timed_out[m] + 1 ELSE timed_out[m]]
              /\ repeated' = repeated \cup Again
         ELSE UNCHANGED <<waiting, io_queue, timed_out, repeated>>
    /\ UNCHANGED <<created, end_in, msg_id, next_tx_msg_id, timers, net,
                   parts, answered, dropped, crossed, untimed, open>>

CountDown(t) == IF t > 0 THEN t - 1 ELSE 0

Tick ==
    /\ (\E m \in created : end_in[m] > 0) \/ (\E t \in timers : t > 0)
    /\ PromptIo => \A m \in Queued : end_in[m] > 1
    /\ end_in' = [m \in Msgs |-> CountDown(end_in[m])]
    /\ waiting' = [m \in Waiting |-> CountDown(waiting[m])]
    /\ timers' = {CountDown(t) : t \in timers}
    /\ UNCHANGED <<created, io_queue, msg_id, repeated, next_tx_msg_id, emits,
                   net, parts, answered, timed_out, dropped, crossed, untimed, open>>

(* Node::close drops the protocol, and with it the waiting messages.       *)
close ==
    /\ open
    /\ open' = FALSE
    /\ waiting' = <<>>
    /\ UNCHANGED <<created, io_queue, end_in, msg_id, repeated,
                   next_tx_msg_id, timers, emits, net, parts, answered,
                   timed_out, dropped, crossed, untimed>>

Next ==
    \/ \E m \in Msgs : \/ send_message(m)
                       \/ LosePacket(m) \/ PeerAnswers(m)
                       \/ process_answer(m) \/ process_fragment_query(m)
    \/ prepare_packet_to_send
    \/ FireTimers \/ process_wait_list \/ Tick
    \/ close

(* The io thread and the timer thread run, time passes; the network and    *)
(* the peer promise nothing.                                               *)
Fairness ==
    /\ WF_vars(prepare_packet_to_send)
    /\ WF_vars(FireTimers)
    /\ WF_vars(process_wait_list)
    /\ WF_vars(Tick)

Spec == Init /\ [][Next]_vars /\ Fairness

-----------------------------------------------------------------------------
(* finally_func_ has run: nothing refers to the message any more.          *)
Released(m) == m \in created /\ m \notin Queued /\ m \notin Waiting

(* A message is in one place only: queued once or waiting, never both.     *)
OneHome ==
    /\ \A i, j \in 1 .. Len(io_queue) : i # j => io_queue[i] # io_queue[j]
    /\ Queued \cap Waiting = {}

(* How often a message has been answered, timed out or dropped.            *)
Outcomes(m) ==
    timed_out[m] + Cardinality(answered[m]) + Cardinality({m} \cap dropped)

(* Of answer_func_ and timeout_func_ at most one runs, and only once, and  *)
(* a message whose callback has run is never sent again.                   *)
OneOutcome == \A m \in Msgs : Outcomes(m) <= 1 /\ (Outcomes(m) = 1 => Released(m))

(* While the node is open no message vanishes: it is let go because it was *)
(* answered, timed out, or dropped where prepare_packet_to_send and        *)
(* add_to_waiting drop one.                                                *)
NoneVanishes == open => \A m \in Msgs : Released(m) => Outcomes(m) = 1

(* The answer an answer_func_ gets is the answer to its own message,       *)
(* through resends, queries, evictions and used-up ids.  Only the answer   *)
(* to a message that was in flight while another had its id goes astray.   *)
AnswerIsMine == \A m \in Msgs : answered[m] \subseteq {m} \cup crossed

(* Every short message is let go in the end: finally_func_ runs, whatever  *)
(* the network does and however late the io thread is, unless it waits     *)
(* without a timer: the time point was taken, or a query put it back.      *)
EventuallyReleased ==
    \A m \in Msgs \ Medium : m \in created ~> (Released(m) \/ m \in untimed)

(* A message that is neither answered nor cut off by close(), and that     *)
(* never waits without a timer, has its timeout_func_ called.              *)
EventuallyCalledBack ==
    \A m \in Msgs :
       m \in created ~>
          (answered[m] # {} \/ timed_out[m] > 0 \/ ~open \/ m \in untimed)
=============================================================================
