--------------------------- MODULE FragmentTransfer ---------------------------
(***************************************************************************)
(* The transfer of one long message between two Net::Protocol objects      *)
(* (Network/net_protocol.cpp): announcement, fragments, fragment queries,  *)
(* the receiver's FRAGMENT timer and the sender's resends.                 *)
(*                                                                         *)
(* The sender keeps one Message_Item without callbacks, the receiver at    *)
(* most one Fragmented_Message and what the receive window knows of the    *)
(* message's id.  Packets are lost but stay in order.  Of the missing      *)
(* parts only the set of missing bytes is kept (FragmentParts shows that   *)
(* this is what part_vect_ represents).  Times are left out: a timer may   *)
(* go off whenever it is armed, or, with ShortRoundTrip, whenever nothing  *)
(* is on its way any more.                                                 *)
(*                                                                         *)
(* Where next_rx_msg_id_ stands to the message's id is kept as a place:    *)
(* before it, past it, past it with the wrap of the counter in between, or *)
(* 100 ids and more ahead.  In the last two a fragment without REPEATED is *)
(* taken for a new message; strayed records that this has happened, to     *)
(* this message or, with an effect on it, to another.  RxWindow has the    *)
(* ids themselves.                                                         *)
(***************************************************************************)
EXTENDS Naturals, Sequences, FiniteSets, FiniteSetsExt

CONSTANTS FullSize,        \* data_device_->size(), in bytes of the model
          FirstSizes,      \* what fragment_size_ of the fresh message may be
          MinTx,           \* its lower bound, 32 in the code
          MinRx,           \* lower bound of max_fragment_size_, 128 in the code
          MaxData,         \* HELPZ_MAX_MESSAGE_DATA_SIZE
          MaxPacket,       \* HELPZ_MAX_PACKET_DATA_SIZE
          NetCap,          \* bound: packets in flight in one direction
          ShortRoundTrip,  \* no timer goes off before the answer it waits for
          Outages          \* ten seconds may pass without a fragment

ASSUME SizesAssumption ==
    /\ FullSize \in Nat \ {0} /\ FirstSizes \subseteq 1 .. MaxPacket
    /\ MinTx \in 1 .. MaxPacket /\ MinRx \in 1 .. MaxData
    /\ MaxData \in Nat /\ MaxPacket \in Nat /\ MaxData <= MaxPacket
ASSUME NetAssumption ==
    NetCap \in Nat \ {0} /\ ShortRoundTrip \in BOOLEAN /\ Outages \in BOOLEAN

VARIABLES tx,              \* the sender's message: queued for io, waiting or gone
          fragment_size,   \* its fragment_size_
          pos,             \* its data_device_->pos()
          repeated,        \* its REPEATED flag
          to_rx, to_tx,    \* packets in flight, oldest first
          missing,         \* bytes the Fragmented_Message lacks, {} without one
          max_fragment,    \* its max_fragment_size_
          lost,            \* the id in lost_msg_list_: "no", "fresh" or "old"
          window,          \* next_rx_msg_id_ to the id: before, past, wrapped, behind
          delivered,       \* how often process_message got the message: 2 is more
          strayed          \* history: an old fragment was taken for a new message

txvars == <<tx, fragment_size, pos, repeated>>
rxvars == <<missing, max_fragment, lost, window, delivered, strayed>>
vars == <<txvars, to_rx, to_tx, rxvars>>

Byte == 0 .. FullSize - 1
Smaller(a, b) == IF a < b THEN a ELSE b
Larger(a, b) == IF a > b THEN a ELSE b

(* Protocol_Sender's destructor leaves the device at its end.              *)
Init ==
    /\ tx = "queued" /\ fragment_size \in FirstSizes /\ pos = FullSize
    /\ repeated = FALSE
    /\ to_rx = <<>> /\ to_tx = <<>>
    /\ missing = {} /\ max_fragment = MaxData
    /\ lost = "no" /\ window = "before"
    /\ delivered = 0 /\ strayed = FALSE

-----------------------------------------------------------------------------
(* The sender.                                                             *)
IsFragmented == FullSize > fragment_size

(* set_fragment_size *)
Clamped(size) == Smaller(Larger(size, MinTx), MaxPacket)

(* prepare_packet_to_send: a fragment from the device's position on, or,   *)
(* at the end of the device, an announcement with the fragment size; the   *)
(* whole message if it fits.  Reading moves the position.  A fragmented    *)
(* message always waits, a whole one only until its end_time_.             *)
SendPart ==
    /\ tx = "queued" /\ Len(to_rx) < NetCap
    /\ LET from == IF IsFragmented THEN pos ELSE 0
           len == Smaller(fragment_size, FullSize - from)
       IN /\ to_rx' = Append(to_rx,
                [kind |-> IF IsFragmented THEN "fragment" ELSE "plain",
                 pos |-> from, len |-> len, size |-> fragment_size,
                 repeated |-> repeated])
          /\ pos' = from + len
    /\ tx' \in IF IsFragmented THEN {"waiting"} ELSE {"waiting", "gone"}
    /\ UNCHANGED <<fragment_size, repeated, to_tx, rxvars>>

(* Nothing that could still bring an answer is under way.                  *)
Quiet == to_rx = <<>> /\ to_tx = <<>> /\ tx # "queued"

(* process_wait_list: before end_time_, which every fragment sent moves    *)
(* ahead of the resend timeout, the message is sent again ...              *)
Resend ==
    /\ tx = "waiting" /\ (ShortRoundTrip => Quiet)
    /\ tx' = "queued"
    /\ fragment_size' = Clamped(fragment_size \div 2)
    /\ repeated' = TRUE
    /\ UNCHANGED <<pos, to_rx, to_tx, rxvars>>

(* ... and after it dropped, which only a whole message comes to.          *)
GiveUp ==
    /\ tx = "waiting" /\ ~IsFragmented /\ (ShortRoundTrip => Quiet)
    /\ tx' = "gone"
    /\ UNCHANGED <<fragment_size, pos, repeated, to_rx, to_tx, rxvars>>

Removal == [kind |-> "remove", pos |-> 0, len |-> 0, size |-> 0, repeated |-> FALSE]

(* process_fragment_query: send the part asked for, or, when the message   *)
(* is not on the wait list or the query lies at its end, drop it and have  *)
(* the receiver do the same.                                               *)
ProcessQuery ==
    /\ to_tx # <<>> /\ Len(to_rx) < NetCap
    /\ LET q == to_tx[1]
       IN IF tx = "waiting" /\ q.pos < FullSize
            THEN /\ tx' = "queued"
                 /\ fragment_size' = Clamped(q.len)
                 /\ pos' = q.pos
                 /\ UNCHANGED to_rx
            ELSE /\ tx' = IF tx = "waiting" THEN "gone" ELSE tx
                 /\ to_rx' = Append(to_rx, Removal)
                 /\ UNCHANGED <<fragment_size, pos>>
    /\ to_tx' = Tail(to_tx)
    /\ UNCHANGED <<repeated, rxvars>>

(* The sender's application sends a newer, short message.                  *)
Newer == [Removal EXCEPT !.kind = "newer"]

SendNewer ==
    /\ window = "before" /\ Len(to_rx) < NetCap /\ (tx # "queued" \/ repeated)
    /\ to_rx' = Append(to_rx, Newer)
    /\ UNCHANGED <<txvars, to_tx, rxvars>>

-----------------------------------------------------------------------------
(* The receiver.                                                           *)
Start(S) == Min(S)
RunLength(S) == Min({n \in 1 .. FullSize : Start(S) + n \notin S})

(* get_next_part *)
NextPart(S, size) == [pos |-> Start(S), len |-> Smaller(RunLength(S), size)]
Done == [pos |-> FullSize, len |-> 0]

Grown(size) ==
    IF size < MaxData THEN Smaller(size + size \div 5, MaxData) ELSE size

(* Mutants of LetThrough: repeats always pass, repeats never pass.         *)
LetThrough_All(p) == TRUE
LetThrough_NoRepeats(p) == ~p.repeated

(* The window of internal_process_message: a repeated packet is let        *)
(* through only if its id counts as lost, any other always.                *)
LetThrough(p) == ~p.repeated \/ lost = "fresh"

(* The branch of is_lost_message, which takes the id off the list.         *)
InPast(p) == p.repeated \/ window = "past"

(* In the other branch fill_lost_msg forgets the id if its entry is old,   *)
(* with the Fragmented_Message, and next_rx_msg_id_ becomes the id's       *)
(* successor, which for the last id is the first one.  Exactly 100 ids     *)
(* ahead nothing happens.                                                  *)
WindowAfter(p) ==
    CASE InPast(p) -> {window}
      [] ~InPast(p) /\ window = "behind" -> {"past", "wrapped", "behind"}
      [] OTHER -> {"past", "wrapped"}
Forgets(p, w) == ~InPast(p) /\ w # "behind" /\ lost = "old"
LostAfter(p, w) == IF InPast(p) \/ Forgets(p, w) THEN "no" ELSE lost
MissingAfter(p, w) == IF Forgets(p, w) THEN {} ELSE missing
StraysWith(p) == ~InPast(p) /\ window # "before"

Once(n) == Smaller(n + 1, 2)

Drop ==
    /\ to_rx # <<>> /\ to_rx[1].kind \in {"fragment", "plain"}
    /\ ~LetThrough(to_rx[1])
    /\ to_rx' = Tail(to_rx)
    /\ lost' = "no"
    /\ UNCHANGED <<txvars, to_tx, missing, max_fragment, window, delivered, strayed>>

(* A whole message is dispatched; a Fragmented_Message of the same id      *)
(* stays.                                                                  *)
ProcessPlain ==
    /\ to_rx # <<>> /\ to_rx[1].kind = "plain" /\ LetThrough(to_rx[1])
    /\ \E w \in WindowAfter(to_rx[1]) :
         /\ window' = w
         /\ lost' = LostAfter(to_rx[1], w)
         /\ missing' = MissingAfter(to_rx[1], w)
    /\ strayed' = (strayed \/ StraysWith(to_rx[1]))
    /\ to_rx' = Tail(to_rx)
    /\ delivered' = Once(delivered)
    /\ UNCHANGED <<txvars, to_tx, max_fragment>>

(* A fragment: create the Fragmented_Message if there is none, add the     *)
(* data, then dispatch and erase it when it is complete, or ask for more.  *)
ProcessFragment ==
    /\ to_rx # <<>> /\ to_rx[1].kind = "fragment" /\ LetThrough(to_rx[1])
    /\ Len(to_tx) < NetCap
    /\ \E w \in WindowAfter(to_rx[1]) :
         LET p == to_rx[1]
             announced == IF p.pos = FullSize /\ p.size <= MaxPacket
                            THEN p.size ELSE MaxData
             known == MissingAfter(p, w)
             size == IF known = {} THEN announced ELSE max_fragment
             before == IF known = {} THEN Byte ELSE known
             after == before \ (p.pos .. p.pos + p.len - 1)
         IN /\ window' = w
            /\ IF after = {}
                 THEN /\ delivered' = Once(delivered)
                      /\ missing' = {}
                      /\ lost' = LostAfter(p, w)
                      /\ to_tx' = Append(to_tx, Done)
                      /\ max_fragment' = MaxData
                 ELSE /\ missing' = after
                      /\ max_fragment' = Grown(size)
                      /\ lost' = "fresh"
                      /\ to_tx' = Append(to_tx, NextPart(after, Grown(size)))
                      /\ UNCHANGED delivered
    /\ strayed' = (strayed \/ StraysWith(to_rx[1]))
    /\ to_rx' = Tail(to_rx)
    /\ UNCHANGED txvars

(* The FRAGMENT timer of process_wait_list.                                *)
FragmentTimer ==
    /\ missing # {} /\ Len(to_tx) < NetCap /\ (ShortRoundTrip => Quiet)
    /\ max_fragment' = Larger(max_fragment \div 2, MinRx)
    /\ lost' = IF lost = "no" THEN "fresh" ELSE lost
    /\ to_tx' = Append(to_tx, NextPart(missing, max_fragment'))
    /\ UNCHANGED <<txvars, to_rx, missing, window, delivered, strayed>>

(* REMOVE_FRAGMENT *)
ProcessRemove ==
    /\ to_rx # <<>> /\ to_rx[1].kind = "remove"
    /\ to_rx' = Tail(to_rx)
    /\ missing' = {}
    /\ max_fragment' = MaxData
    /\ UNCHANGED <<txvars, to_tx, lost, window, delivered, strayed>>

(* A newer message shows the gap: fill_lost_msg puts the id on the list.   *)
ProcessNewer ==
    /\ to_rx # <<>> /\ to_rx[1].kind = "newer"
    /\ to_rx' = Tail(to_rx)
    /\ IF window = "before"
         THEN lost' = "fresh" /\ window' \in {"past", "wrapped"}
         ELSE UNCHANGED <<lost, window>>
    /\ UNCHANGED <<txvars, to_tx, missing, max_fragment, delivered, strayed>>

(* Messages of others, or newer ones of this sender, move the window on.   *)
WindowMoves ==
    /\ \/ window = "past" /\ window' \in {"wrapped", "behind"}
       \/ window = "wrapped" /\ window' = "behind"
    /\ UNCHANGED <<txvars, to_rx, to_tx, missing, max_fragment, lost, delivered, strayed>>

(* A fragment of another message is taken for a new message: that, or the  *)
(* next newer message, makes fill_lost_msg list ids that are not lost.     *)
AnotherStrays ==
    /\ window # "before"
    /\ window' \in {"past", "wrapped", "behind"}
    /\ lost' = "fresh"
    /\ missing' = IF lost = "old" THEN {} ELSE missing
    /\ max_fragment' = IF lost = "old" THEN MaxData ELSE max_fragment
    /\ strayed' = TRUE
    /\ UNCHANGED <<txvars, to_rx, to_tx, delivered>>

LoseToRx ==
    /\ to_rx # <<>>
    /\ to_rx' = Tail(to_rx)
    /\ UNCHANGED <<txvars, to_tx, rxvars>>

LoseToTx ==
    /\ to_tx # <<>>
    /\ to_tx' = Tail(to_tx)
    /\ UNCHANGED <<txvars, to_rx, rxvars>>

(* Ten seconds pass without a part: the id no longer counts as lost, and   *)
(* the next gap makes fill_lost_msg forget the Fragmented_Message too.     *)
LostIdAges ==
    /\ Outages /\ lost = "fresh"
    /\ lost' = "old"
    /\ UNCHANGED <<txvars, to_rx, to_tx, missing, max_fragment, window, delivered, strayed>>

(* So does a gap 100 ids ahead, with a fresh id too.                       *)
GapForgets ==
    /\ lost = "old" \/ (lost = "fresh" /\ window = "behind")
    /\ lost' = "no"
    /\ missing' = {}
    /\ max_fragment' = MaxData
    /\ UNCHANGED <<txvars, to_rx, to_tx, window, delivered, strayed>>

Sender == SendPart \/ Resend \/ GiveUp \/ ProcessQuery \/ SendNewer
Receiver == Drop \/ ProcessPlain \/ ProcessFragment \/ ProcessRemove \/ ProcessNewer

Next ==
    \/ Sender
    \/ Receiver
    \/ FragmentTimer
    \/ LoseToRx \/ LoseToTx
    \/ LostIdAges \/ GapForgets
    \/ WindowMoves \/ AnotherStrays

(* Both ends run and their timers go off; the network does not lose every  *)
(* query for a position or every fragment from it; and now and then the    *)
(* application sends something.                                            *)
Fairness ==
    /\ WF_vars(SendPart) /\ WF_vars(Resend) /\ WF_vars(FragmentTimer)
    /\ WF_vars(Drop)
    /\ \A b \in 0 .. FullSize :
         /\ SF_vars(ProcessQuery /\ to_tx[1].pos = b)
         /\ SF_vars(ProcessFragment /\ to_rx[1].pos = b)
    /\ SF_vars(SendNewer) /\ SF_vars(ProcessNewer)

Spec == Init /\ [][Next]_vars /\ Fairness

-----------------------------------------------------------------------------
(* The receiver's application gets the message at most once, whatever is   *)
(* lost and resent and wherever the window has moved, as long as no old    *)
(* fragment was taken for a new message.                                   *)
DeliveredOnce == ~strayed => delivered <= 1

(* A message that is fragmented from the start arrives in the end,         *)
(* whichever packets are lost, unless ten seconds pass without a part or   *)
(* the window moves 100 ids ahead of it.                                   *)
EventuallyDelivered ==
    IsFragmented =>
        <>(delivered > 0) \/ <>(lost = "old") \/ <>(window = "behind")
=============================================================================
