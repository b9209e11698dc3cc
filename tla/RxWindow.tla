------------------------------ MODULE RxWindow ------------------------------
(***************************************************************************)
(* The receive window of Net::Protocol (Network/net_protocol.cpp): which   *)
(* incoming packets internal_process_message lets through, from the first  *)
(* byte of the handler to the point where the message is dispatched.       *)
(*                                                                         *)
(* One sender numbers its messages with an 8-bit counter and sends some of *)
(* them again with the REPEATED flag.  A long message goes in fragments:   *)
(* the first is its original, the others, sent when the receiver asks for  *)
(* them, carry the same old id without that flag.  The packets travel      *)
(* through a channel that loses them but keeps their order.  The receiver  *)
(* keeps the next id it expects and lost_msg_list_, the ids it has skipped *)
(* or has an incomplete message of, each with a time.  The width of the    *)
(* counter, the window of 100 ids and the 10 seconds are parameters.  A    *)
(* message is the number of times next_tx_msg_id_ was incremented before   *)
(* it; the receiver only sees that number modulo IdCount.  Which bytes of  *)
(* a long message are there is FragmentTransfer's: here a fragment         *)
(* completes its message or does not.                                      *)
(*                                                                         *)
(* A fragment that is not in the past of the window, because the counter   *)
(* has wrapped since its message began or because it is more than Window   *)
(* ids behind, is taken for a new message: fill_lost_msg lists messages    *)
(* that have been dispatched, forgets some that have not, and moves        *)
(* next_rx_msg_id_ back.  strayed records that this has happened.          *)
(***************************************************************************)
EXTENDS Integers, Sequences, Functions

CONSTANTS IdCount,         \* how many ids there are: 2^8 in the code
          Window,          \* 100 in the code
          LostTtl,         \* how long a skipped id is remembered: 10 s
          Long,            \* messages that go in fragments
          Rate,            \* bound: messages sent in one unit of time
          RepeatSpan,      \* bound: messages sent while one is repeated or in transfer
          MaxGap,          \* bound: messages in a row whose original is lost
          Start,           \* bound: messages exchanged before, all received
          ChannelCap,      \* bound: packets in flight
          MaxSent,         \* bound: messages sent altogether
          MaxTime          \* bound: units of time

ASSUME IdsAssumption ==
    /\ IdCount \in Nat /\ Window \in Nat /\ 0 < Window /\ 2 * Window < IdCount
ASSUME TimesAssumption == LostTtl \in Nat \ {0} /\ Rate \in Nat \ {0}
ASSUME BoundsAssumption ==
    /\ RepeatSpan \in Nat /\ MaxGap \in Nat /\ ChannelCap \in Nat
    /\ MaxSent \in Nat /\ MaxTime \in Nat /\ Start \in 0 .. MaxSent
    /\ Long \subseteq 0 .. MaxSent - 1

(* The load under which an id stands for one message at a time: the code   *)
(* has nothing to tell a message from the one IdCount before it.  A        *)
(* message is repeated, and a transfer over, before the new ones come      *)
(* within Window of its id, and its entry of the list is forgotten before  *)
(* its id comes round.                                                     *)
ASSUME LoadAssumption ==
    /\ RepeatSpan + Rate + MaxGap + Window <= IdCount
    /\ MaxGap + Rate * (LostTtl + 1) <= IdCount
    /\ RepeatSpan + Rate * (LostTtl + 1) <= IdCount

VARIABLES sent,            \* messages sent so far; next_tx_msg_id_ is sent % IdCount
          sent_in_unit,    \* how many of them in the current unit of time
          channel,         \* packets in flight, oldest first
          now,             \* the receiver's clock
          next_rx_msg_id,  \* next_rx_msg_id_
          lost_msg_list,   \* lost_msg_list_: id -> time it was skipped
          begun,           \* long messages some fragment of which was let through
          \* history
          head,            \* messages before the newest original received
          dispatched,      \* message -> how often it was dispatched: 2 is more than once
          strayed          \* a fragment of an old message was taken for a new one

vars == <<sent, sent_in_unit, channel, now, next_rx_msg_id, lost_msg_list,
          begun, head, dispatched, strayed>>
receiver == <<next_rx_msg_id, lost_msg_list, begun, head, dispatched, strayed>>

Message == 0 .. MaxSent - 1

Init ==
    /\ sent = Start /\ sent_in_unit = 0
    /\ channel = <<>>
    /\ now = 0
    /\ next_rx_msg_id = Start % IdCount
    /\ lost_msg_list = <<>>
    /\ begun = {}
    /\ head = Start
    /\ dispatched = [m \in Message |-> IF m < Start THEN 1 ELSE 0]
    /\ strayed = FALSE

-----------------------------------------------------------------------------
(* prepare_packet_to_send for a message without an id: all of it, or the   *)
(* first fragment.                                                         *)
Send ==
    /\ sent < MaxSent /\ Len(channel) < ChannelCap /\ sent_in_unit < Rate
    /\ channel' = Append(channel, [msg |-> sent, kind |-> "original"])
    /\ sent' = sent + 1
    /\ sent_in_unit' = sent_in_unit + 1
    /\ UNCHANGED <<now, receiver>>

(* process_wait_list sends a waiting message again: same id, REPEATED.     *)
(* The flag stays on the message, so later fragments of it carry it too.   *)
Repeat(m) ==
    /\ m < sent /\ sent - m <= RepeatSpan /\ Len(channel) < ChannelCap
    /\ channel' = Append(channel, [msg |-> m, kind |-> "repeated"])
    /\ UNCHANGED <<sent, sent_in_unit, now, receiver>>

(* process_fragment_query sends the fragment that was asked for: same id,  *)
(* no flag.                                                                *)
Continue(m) ==
    /\ m \in begun /\ m < head /\ sent - m <= RepeatSpan /\ Len(channel) < ChannelCap
    /\ channel' = Append(channel, [msg |-> m, kind |-> "continued"])
    /\ UNCHANGED <<sent, sent_in_unit, now, receiver>>

Lose ==
    /\ channel # <<>>
    /\ channel[1].kind = "original" => channel[1].msg - head < MaxGap
    /\ channel' = Tail(channel)
    /\ UNCHANGED <<sent, sent_in_unit, now, receiver>>

(* A unit is some seconds: no packet is in flight from one to the next.    *)
Tick ==
    /\ now < MaxTime /\ channel = <<>>
    /\ now' = now + 1
    /\ sent_in_unit' = 0
    /\ UNCHANGED <<sent, channel, receiver>>

-----------------------------------------------------------------------------
Age(id) == now - lost_msg_list[id]

(* is_lost_message: the id was skipped less than 10 s ago.                 *)
is_lost_message(id) == id \in DOMAIN lost_msg_list /\ Age(id) < LostTtl

(* Mutant of WithoutId: a lost message that arrives stays on the list.     *)
WithoutId_Keeps(id) == lost_msg_list

WithoutId(id) == Restrict(lost_msg_list, DOMAIN lost_msg_list \ {id})

(* fill_lost_msg, first loop: what stays in the list.  Both bounds carry   *)
(* the same offset of 255 in the code, so the range is only ever cut when  *)
(* id - Window wraps.                                                      *)
Kept(id) ==
    {i \in DOMAIN lost_msg_list :
        Age(i) <= LostTtl /\ ~((id - Window) % IdCount > i /\ i > id)}

(* Mutant of FillFrom: the clamp is off by one.                            *)
FillFrom_OffByOne(id) ==
    IF id >= next_rx_msg_id + Window THEN id - Window + 1 ELSE next_rx_msg_id

(* ... and the ids the last loop adds, counting from the expected one or,  *)
(* for a long gap that does not wrap, from Window ids before the new one.  *)
FillFrom(id) == IF id > next_rx_msg_id + Window THEN id - Window ELSE next_rx_msg_id
Skipped(id) ==
    {(FillFrom(id) + k) % IdCount : k \in 0 .. ((id - FillFrom(id)) % IdCount) - 1}

fill_lost_msg(id) ==
    [i \in Kept(id) \cup Skipped(id) |-> IF i \in Kept(id) THEN lost_msg_list[i] ELSE now]

(* An incomplete message is expected, from now: list is what is listed.    *)
Refreshed(list, id) ==
    [i \in DOMAIN list \cup {id} |-> IF i = id THEN now ELSE list[i]]

(* The packet is let through and list is what the window has left: the     *)
(* message is dispatched if it is complete, and the first fragment never   *)
(* completes it.                                                           *)
Dispatch(p, list) ==
    /\ p.msg \in Long => p.kind # "original"
    /\ dispatched' = [dispatched EXCEPT ![p.msg] = IF @ = 0 THEN 1 ELSE 2]
    /\ lost_msg_list' = list
    /\ UNCHANGED begun

AwaitRest(p, list, id) ==
    /\ p.msg \in Long
    /\ begun' = begun \cup {p.msg}
    /\ lost_msg_list' = Refreshed(list, id)
    /\ UNCHANGED dispatched

LetThrough(p, list, id) ==
    /\ head' = IF p.kind = "original" THEN p.msg + 1 ELSE head
    /\ Dispatch(p, list) \/ AwaitRest(p, list, id)

(* Mutant of InPast: the window is not limited, so an id that has wrapped  *)
(* always lies in the past.                                                *)
InPast_Unlimited(id) == id < next_rx_msg_id

InPast(id) == id < next_rx_msg_id /\ next_rx_msg_id - id < Window

(* The first branch, for a repeated packet or an id shortly before the     *)
(* expected one: is_lost_message erases the id even when it is too old.    *)
ProcessPast(p, id) ==
    /\ p.kind = "repeated" \/ InPast(id)
    /\ IF is_lost_message(id) \/ p.kind # "repeated"
         THEN LetThrough(p, WithoutId(id), id)
         ELSE lost_msg_list' = WithoutId(id) /\ UNCHANGED <<begun, head, dispatched>>
    /\ UNCHANGED <<next_rx_msg_id, strayed>>

IsGap(id) == id > next_rx_msg_id \/ next_rx_msg_id - id > Window

(* The second branch, for everything else.                                 *)
ProcessNew(p, id) ==
    /\ ~(p.kind = "repeated" \/ InPast(id))
    /\ IF IsGap(id)
         THEN /\ LetThrough(p, fill_lost_msg(id), id)
              /\ next_rx_msg_id' = (id + 1) % IdCount
              /\ strayed' = (strayed \/ p.kind = "continued")
         ELSE /\ LetThrough(p, lost_msg_list, id)
              /\ next_rx_msg_id' = IF id >= next_rx_msg_id
                                     THEN (id + 1) % IdCount ELSE next_rx_msg_id
              /\ UNCHANGED strayed

internal_process_message ==
    /\ channel # <<>>
    /\ LET p == channel[1]
           id == p.msg % IdCount
       IN ProcessPast(p, id) \/ ProcessNew(p, id)
    /\ channel' = Tail(channel)
    /\ UNCHANGED <<sent, sent_in_unit, now>>

(* process_wait_list on the FRAGMENT timer: a message with missing parts   *)
(* is expected, if it is not already.  Parts that were removed meanwhile   *)
(* only make the step one of fewer.                                        *)
FragmentTimer(m) ==
    /\ m \in begun /\ sent - m <= RepeatSpan
    /\ m % IdCount \notin DOMAIN lost_msg_list
    /\ lost_msg_list' = Refreshed(lost_msg_list, m % IdCount)
    /\ UNCHANGED <<sent, sent_in_unit, channel, now, next_rx_msg_id, begun, head,
                   dispatched, strayed>>

Next ==
    \/ Send
    \/ \E m \in Message : Repeat(m)
    \/ \E m \in Long : Continue(m) \/ FragmentTimer(m)
    \/ Lose
    \/ Tick
    \/ internal_process_message

Spec == Init /\ [][Next]_vars

-----------------------------------------------------------------------------
(* No message that goes in one packet is dispatched twice, however often   *)
(* it is repeated and wherever the counter wraps, as long as no fragment   *)
(* of an old message was taken for a new one.  (FragmentTransfer's         *)
(* DeliveredOnce is about the long ones.)                                  *)
AtMostOnce == ~strayed => \A m \in Message \ Long : dispatched[m] <= 1

(* The expected id is that of the message after the newest one received,   *)
(* across wrap-around and gaps.  A fragment that is taken for a new        *)
(* message moves it back, and the next original puts it right again.       *)
ExpectsNext ==
    [][head' # head \/ ~strayed' => next_rx_msg_id' = head' % IdCount]_vars

(* A message that is skipped goes on the list with the time it was skipped *)
(* and stays there, so that a repeat is let through, until it is           *)
(* dispatched, too old or more than Window messages before the newest one: *)
(* neither another gap, a wrap of the ids nor a fragment takes it off, as  *)
(* long as no fragment is taken for a new message.                         *)
StaysExpected(m) ==
    LET id == m % IdCount IN
    ~strayed' /\ m < head' /\ head' - m <= Window + 1 /\ dispatched'[m] = 0
    => /\ m < head /\ is_lost_message(id) => id \in DOMAIN lost_msg_list'
       /\ m >= head => id \in DOMAIN lost_msg_list' /\ lost_msg_list'[id] = now
SkippedIsExpected == [][\A m \in Message : StaysExpected(m)]_vars
=============================================================================
