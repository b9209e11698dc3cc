---------------------------- MODULE RxWindowProofs ----------------------------
(***************************************************************************)
(* Theorems about RxWindow, for any width of the counter, any window and   *)
(* any load that LoadAssumption allows.                                    *)
(*                                                                         *)
(* The originals in flight are the messages from some f to the newest one, *)
(* in order, and f is at most MaxGap after the newest one received         *)
(* (ChannelInv).  The expected id belongs to a message b at most a         *)
(* transfer before that (ExpectInv), so an original is never taken for a   *)
(* message of the past, and the expected id follows it.  While no fragment *)
(* has strayed b is the newest message itself, and an id on the list       *)
(* stands for a message that was skipped and not dispatched, or for a long *)
(* one, sent so shortly before (ListInv) that a repeat with that id, no    *)
(* older than RepeatInv says, is a repeat of that message.                 *)
(***************************************************************************)
EXTENDS RxWindow, TLAPS

Packet == [msg : Message, kind : {"original", "continued", "repeated"}]

TypeInv ==
    /\ sent \in 0 .. MaxSent /\ sent_in_unit \in 0 .. Rate /\ now \in Nat /\ head \in 0 .. sent
    /\ channel \in Seq(Packet)
    /\ \A i \in DOMAIN lost_msg_list : lost_msg_list[i] \in 0 .. now
    /\ begun \subseteq Long
    /\ dispatched \in [Message -> 0 .. 2]
    /\ strayed \in BOOLEAN

(* The originals in flight are those from f on.                            *)
InFlight(f) ==
    /\ \A i \in DOMAIN channel : channel[i].kind = "original" => channel[i].msg \in f .. sent - 1
    /\ \A m \in f .. sent - 1 : \E i \in DOMAIN channel : channel[i].kind = "original" /\ channel[i].msg = m
    /\ \A i, j \in DOMAIN channel :
          i < j /\ channel[i].kind = "original" /\ channel[j].kind = "original" => channel[i].msg < channel[j].msg
ChannelInv == \E f \in head .. sent : f <= head + MaxGap /\ InFlight(f)

(* A packet that is not an original is of a message shortly before; a      *)
(* continuation is of a long one that has been received.                   *)
RepeatInv ==
    \A i \in DOMAIN channel :
       /\ channel[i].kind # "original" => /\ channel[i].msg < sent
                                          /\ sent - channel[i].msg <= RepeatSpan + sent_in_unit
       /\ channel[i].kind = "continued" => channel[i].msg \in Long /\ channel[i].msg < head

UnitInv == sent - sent_in_unit <= head + MaxGap

(* The expected id is that of a message b shortly before the one after the *)
(* newest, even if a fragment has moved it back.                           *)
Expected(b) == b <= head /\ head - b < RepeatSpan + Rate /\ next_rx_msg_id = b % IdCount
ExpectInv == \E b \in Int : Expected(b) /\ (~strayed => b = head)

OnceInv ==
    \A m \in Message : /\ m \notin Long => dispatched[m] <= 1
                       /\ m >= head => dispatched[m] = 0

BegunInv == \A m \in begun : m < head

(* i on the list stands for m: a skipped message or a long one.            *)
Slack == IF MaxGap >= RepeatSpan THEN MaxGap ELSE RepeatSpan
StandsFor(i, m) ==
    /\ m % IdCount = i /\ m < head /\ (dispatched[m] = 0 \/ m \in Long)
    /\ sent - m <= Slack + sent_in_unit + Rate * Age(i)
ListInv ==
    \A i \in DOMAIN lost_msg_list :
       Age(i) <= LostTtl => \E m \in Message : StandsFor(i, m)

(* What a fragment that is taken for a new message destroys.               *)
Clean == OnceInv /\ BegunInv /\ ListInv

Inv == /\ TypeInv /\ ChannelInv /\ RepeatInv /\ UnitInv /\ ExpectInv
       /\ ~strayed => Clean

LEMMA SlackIs ==
    /\ Slack \in Nat /\ MaxGap <= Slack /\ RepeatSpan <= Slack
    /\ Slack + Rate * (LostTtl + 1) <= IdCount
  BY BoundsAssumption, LoadAssumption DEF Slack

-----------------------------------------------------------------------------
(* Ids: what there is to say about % IdCount. *)

LEMMA ModRange == \A x \in Int : x % IdCount \in 0 .. IdCount - 1
  BY IdsAssumption

LEMMA ModSplit == \A x \in Int : \E q \in Int : x = IdCount * q + (x % IdCount)
  <1>0. IdCount \in Nat /\ IdCount > 0
    BY IdsAssumption
  <1>1. \A x \in Int : x = IdCount * (x \div IdCount) + (x % IdCount) /\ x \div IdCount \in Int
    BY <1>0
  <1> QED BY <1>1

LEMMA ModSmall == \A x \in 0 .. IdCount - 1 : x % IdCount = x
  BY IdsAssumption

LEMMA Multiple ==
    ASSUME NEW k \in Int, -IdCount < IdCount * k, IdCount * k < IdCount
    PROVE  k = 0
  <1>1. CASE k > 0
    <2>1. IdCount * k >= IdCount
      BY <1>1, IdsAssumption
    <2> QED BY <2>1, IdsAssumption
  <1>2. CASE k < 0
    <2>1. IdCount * k <= -IdCount
      BY <1>2, IdsAssumption
    <2> QED BY <2>1, IdsAssumption
  <1> QED BY <1>1, <1>2

LEMMA ModUnique ==
    ASSUME NEW q \in Int, NEW k \in Int, NEW r \in 0 .. IdCount - 1, NEW t \in 0 .. IdCount - 1,
           IdCount * q + r = IdCount * k + t
    PROVE  r = t
  <1>1. IdCount * (q - k) = t - r
    BY IdsAssumption
  <1>2. q - k = 0
    BY <1>1, Multiple, IdsAssumption
  <1> QED BY <1>1, <1>2, IdsAssumption

(* Two messages less than IdCount apart have different ids.                *)
LEMMA SameId ==
    ASSUME NEW x \in Int, NEW y \in Int, x % IdCount = y % IdCount,
           x - y < IdCount, y - x < IdCount
    PROVE  x = y
  <1>1. PICK q \in Int : y = IdCount * q + (y % IdCount)
    BY ModSplit
  <1>2. PICK k \in Int : x = IdCount * k + (x % IdCount)
    BY ModSplit
  <1>3. y - x = IdCount * (q - k)
    BY <1>1, <1>2, IdsAssumption, ModRange
  <1>4. q - k = 0
    BY <1>3, Multiple, IdsAssumption
  <1> QED BY <1>3, <1>4, IdsAssumption

LEMMA ModAdd ==
    ASSUME NEW h \in Int, NEW g \in Int
    PROVE  (h + g) % IdCount = ((h % IdCount) + g) % IdCount
  <1>1. PICK q \in Int : h = IdCount * q + (h % IdCount)
    BY ModSplit
  <1>2. PICK k \in Int : h + g = IdCount * k + ((h + g) % IdCount)
    BY ModSplit
  <1>3. PICK j \in Int : (h % IdCount) + g = IdCount * j + (((h % IdCount) + g) % IdCount)
    BY ModRange, ModSplit
  <1>4. IdCount * k + ((h + g) % IdCount) = IdCount * (q + j) + (((h % IdCount) + g) % IdCount)
    <2>1. IdCount * (q + j) = IdCount * q + IdCount * j
      BY IdsAssumption
    <2>2. h % IdCount \in Int /\ ((h % IdCount) + g) % IdCount \in Int
      BY ModRange
    <2>3. IdCount * q \in Int /\ IdCount * j \in Int
      BY IdsAssumption
    <2> QED BY <1>1, <1>2, <1>3, <2>1, <2>2, <2>3
  <1>5. (h + g) % IdCount \in 0 .. IdCount - 1 /\ ((h % IdCount) + g) % IdCount \in 0 .. IdCount - 1
    BY ModRange
  <1> QED BY <1>4, <1>5, ModUnique

LEMMA NextId == \A x \in Int : (x + 1) % IdCount = ((x % IdCount) + 1) % IdCount
  BY ModAdd

(* The id of a message g after the message with id n, or before it.        *)
LEMMA ModShift ==
    ASSUME NEW h \in Int, NEW g \in Int, -IdCount < g, g < IdCount
    PROVE  LET n == h % IdCount
           IN  (h + g) % IdCount = IF n + g >= IdCount THEN n + g - IdCount
                                   ELSE IF n + g < 0 THEN n + g + IdCount ELSE n + g
  <1> DEFINE n == h % IdCount
  <1>0. n \in 0 .. IdCount - 1 /\ (h + g) % IdCount \in 0 .. IdCount - 1
    BY ModRange
  <1>1. PICK q \in Int : h = IdCount * q + n
    BY ModSplit
  <1>2. PICK k \in Int : h + g = IdCount * k + ((h + g) % IdCount)
    BY ModSplit
  <1> HIDE DEF n
  <1>3. CASE n + g >= IdCount
    <2>1. IdCount * k + ((h + g) % IdCount) = IdCount * (q + 1) + (n + g - IdCount)
      BY <1>0, <1>1, <1>2, IdsAssumption
    <2>2. n + g - IdCount \in 0 .. IdCount - 1
      BY <1>0, <1>3, IdsAssumption
    <2> QED BY <1>0, <1>3, <2>1, <2>2, ModUnique DEF n
  <1>4. CASE n + g < 0
    <2>1. IdCount * k + ((h + g) % IdCount) = IdCount * (q - 1) + (n + g + IdCount)
      BY <1>0, <1>1, <1>2, IdsAssumption
    <2>2. n + g + IdCount \in 0 .. IdCount - 1
      BY <1>0, <1>4, IdsAssumption
    <2> QED BY <1>0, <1>4, <2>1, <2>2, ModUnique, IdsAssumption DEF n
  <1>5. CASE n + g \in 0 .. IdCount - 1
    <2>1. IdCount * k + ((h + g) % IdCount) = IdCount * q + (n + g)
      BY <1>0, <1>1, <1>2, IdsAssumption
    <2> QED BY <1>0, <1>5, <2>1, ModUnique, IdsAssumption DEF n
  <1> QED BY <1>0, <1>3, <1>4, <1>5, IdsAssumption

-----------------------------------------------------------------------------
(* The channel. *)

LEMMA TailIs ==
    ASSUME NEW S, NEW q \in Seq(S), q # <<>>
    PROVE  /\ DOMAIN q = 1 .. Len(q) /\ Len(q) \in Nat \ {0} /\ q[1] \in S
           /\ Tail(q) \in Seq(S) /\ DOMAIN Tail(q) = 1 .. Len(q) - 1
           /\ \A i \in 1 .. Len(q) - 1 : Tail(q)[i] = q[i + 1]
  OBVIOUS

LEMMA AppendIs ==
    ASSUME NEW S, NEW q \in Seq(S), NEW x \in S
    PROVE  /\ Append(q, x) \in Seq(S) /\ DOMAIN q = 1 .. Len(q) /\ Len(q) \in Nat
           /\ DOMAIN Append(q, x) = 1 .. Len(q) + 1
           /\ \A i \in 1 .. Len(q) : Append(q, x)[i] = q[i]
           /\ Append(q, x)[Len(q) + 1] = x
  OBVIOUS

(* The first original in flight is the oldest.                             *)
LEMMA FirstOriginal ==
    ASSUME TypeInv, NEW f \in head .. sent, InFlight(f), channel # <<>>, channel[1].kind = "original"
    PROVE  channel[1].msg = f /\ f < sent
  <1>1. DOMAIN channel = 1 .. Len(channel) /\ Len(channel) \in Nat \ {0}
    BY TailIs DEF TypeInv
  <1>2. channel[1].msg \in f .. sent - 1
    BY <1>1 DEF InFlight
  <1>3. f \in f .. sent - 1
    BY <1>2 DEF TypeInv
  <1>4. PICK i \in DOMAIN channel : channel[i].kind = "original" /\ channel[i].msg = f
    BY <1>3 DEF InFlight
  <1>5. i = 1 \/ channel[1].msg < f
    BY <1>1, <1>4 DEF InFlight
  <1> QED BY <1>2, <1>3, <1>4, <1>5 DEF TypeInv

LEMMA TailInFlight ==
    ASSUME TypeInv, NEW f \in head .. sent, InFlight(f), channel # <<>>,
           channel' = Tail(channel), sent' = sent
    PROVE  /\ channel[1].kind # "original" => InFlight(f)'
           /\ channel[1].kind = "original" => InFlight(f + 1)'
  <1>1. /\ DOMAIN channel = 1 .. Len(channel) /\ Len(channel) \in Nat \ {0}
        /\ DOMAIN channel' = 1 .. Len(channel) - 1
        /\ \A i \in DOMAIN channel' : channel'[i] = channel[i + 1] /\ i + 1 \in DOMAIN channel
    BY TailIs DEF TypeInv
  <1>2. \A i \in DOMAIN channel : i # 1 => i - 1 \in DOMAIN channel' /\ channel'[i - 1] = channel[i]
    BY <1>1
  <1>3. \A i, j \in DOMAIN channel' : i < j /\ channel'[i].kind = "original" /\ channel'[j].kind = "original"
                                      => channel'[i].msg < channel'[j].msg
    BY <1>1 DEF InFlight
  <1>4. CASE channel[1].kind # "original"
    <2>1. \A i \in DOMAIN channel' : channel'[i].kind = "original" => channel'[i].msg \in f .. sent - 1
      BY <1>1 DEF InFlight
    <2>2. \A m \in f .. sent - 1 :
             \E i \in DOMAIN channel' : channel'[i].kind = "original" /\ channel'[i].msg = m
      <3> SUFFICES ASSUME NEW m \in f .. sent - 1
                   PROVE  \E i \in DOMAIN channel' : channel'[i].kind = "original" /\ channel'[i].msg = m
        OBVIOUS
      <3>1. PICK i \in DOMAIN channel : channel[i].kind = "original" /\ channel[i].msg = m
        BY DEF InFlight
      <3> QED BY <1>2, <1>4, <3>1
    <2> QED BY <1>3, <1>4, <2>1, <2>2 DEF InFlight
  <1>5. CASE channel[1].kind = "original"
    <2>0. channel[1].msg = f /\ f \in Int /\ sent \in Int
      BY <1>5, FirstOriginal DEF TypeInv
    <2>1. \A i \in DOMAIN channel' : channel'[i].kind = "original" => channel'[i].msg \in f + 1 .. sent - 1
      <3> SUFFICES ASSUME NEW i \in DOMAIN channel', channel'[i].kind = "original"
                   PROVE  channel'[i].msg \in f + 1 .. sent - 1
        OBVIOUS
      <3>1. channel'[i] = channel[i + 1] /\ i + 1 \in DOMAIN channel /\ 1 \in DOMAIN channel /\ 1 < i + 1
        BY <1>1
      <3>2. channel[i + 1].msg \in f .. sent - 1 /\ f < channel[i + 1].msg
        BY <1>5, <2>0, <3>1 DEF InFlight
      <3> QED BY <2>0, <3>1, <3>2
    <2>2. \A m \in f + 1 .. sent - 1 :
             \E i \in DOMAIN channel' : channel'[i].kind = "original" /\ channel'[i].msg = m
      <3> SUFFICES ASSUME NEW m \in f + 1 .. sent - 1
                   PROVE  \E i \in DOMAIN channel' : channel'[i].kind = "original" /\ channel'[i].msg = m
        OBVIOUS
      <3>1. m \in f .. sent - 1 /\ m # f
        BY <2>0
      <3>2. PICK i \in DOMAIN channel : channel[i].kind = "original" /\ channel[i].msg = m
        BY <3>1 DEF InFlight
      <3>3. i # 1
        BY <2>0, <3>1, <3>2
      <3> QED BY <1>2, <3>2, <3>3
    <2> QED BY <1>3, <1>5, <2>1, <2>2 DEF InFlight
  <1> QED BY <1>4, <1>5

LEMMA AppendInFlight ==
    ASSUME TypeInv, NEW f \in head .. sent, InFlight(f), NEW x \in Packet,
           channel' = Append(channel, x), sent' \in Nat,
           \/ x.kind # "original" /\ sent' = sent
           \/ x.kind = "original" /\ x.msg = sent /\ sent' = sent + 1
    PROVE  InFlight(f)'
  <1>0. f \in Int /\ sent \in Int /\ f <= sent
    BY DEF TypeInv
  <1>1. /\ DOMAIN channel = 1 .. Len(channel) /\ Len(channel) \in Nat
        /\ DOMAIN channel' = 1 .. Len(channel) + 1
        /\ \A i \in DOMAIN channel : channel'[i] = channel[i] /\ i \in DOMAIN channel'
        /\ channel'[Len(channel) + 1] = x
    BY AppendIs DEF TypeInv
  <1>2. \A i \in DOMAIN channel' : i \in DOMAIN channel \/ (i = Len(channel) + 1 /\ channel'[i] = x)
    BY <1>1
  <1>3. \A i \in DOMAIN channel' : channel'[i].kind = "original" => channel'[i].msg \in f .. sent' - 1
    <2> SUFFICES ASSUME NEW i \in DOMAIN channel', channel'[i].kind = "original"
                 PROVE  channel'[i].msg \in f .. sent' - 1
      OBVIOUS
    <2>1. CASE i \in DOMAIN channel
      <3>1. channel[i].msg \in f .. sent - 1 /\ channel'[i] = channel[i]
        BY <1>1, <2>1 DEF InFlight
      <3> QED BY <1>0, <3>1
    <2>2. CASE channel'[i] = x
      BY <1>0, <2>2
    <2> QED BY <1>2, <2>1, <2>2
  <1>4. \A m \in f .. sent' - 1 : \E i \in DOMAIN channel' : channel'[i].kind = "original" /\ channel'[i].msg = m
    <2> SUFFICES ASSUME NEW m \in f .. sent' - 1
                 PROVE  \E i \in DOMAIN channel' : channel'[i].kind = "original" /\ channel'[i].msg = m
      OBVIOUS
    <2>1. CASE m \in f .. sent - 1
      <3>1. PICK i \in DOMAIN channel : channel[i].kind = "original" /\ channel[i].msg = m
        BY <2>1 DEF InFlight
      <3> QED BY <1>1, <3>1
    <2>2. CASE m \notin f .. sent - 1
      <3>1. sent' # sent
        BY <2>2
      <3>2. x.kind = "original" /\ x.msg = sent /\ sent' = sent + 1
        BY <3>1
      <3>3. m = sent
        BY <1>0, <2>2, <3>2
      <3> QED BY <1>1, <3>2, <3>3
    <2> QED BY <2>1, <2>2
  <1>5. \A i, j \in DOMAIN channel' : i < j /\ channel'[i].kind = "original" /\ channel'[j].kind = "original"
                                      => channel'[i].msg < channel'[j].msg
    <2> SUFFICES ASSUME NEW i \in DOMAIN channel', NEW j \in DOMAIN channel', i < j,
                        channel'[i].kind = "original", channel'[j].kind = "original"
                 PROVE  channel'[i].msg < channel'[j].msg
      OBVIOUS
    <2>1. i \in DOMAIN channel /\ channel'[i] = channel[i]
      BY <1>1
    <2>2. CASE j \in DOMAIN channel
      BY <1>1, <2>1, <2>2 DEF InFlight
    <2>3. CASE channel'[j] = x
      <3>1. channel[i].msg \in f .. sent - 1 /\ x.msg = sent
        BY <2>1, <2>3 DEF InFlight
      <3> QED BY <1>0, <2>1, <2>3, <3>1
    <2> QED BY <1>2, <2>2, <2>3
  <1> QED BY <1>3, <1>4, <1>5 DEF InFlight

(* What a step that is not the receiver's does to its side.                *)
LEMMA ReceiverSame ==
    ASSUME TypeInv, ExpectInv, ~strayed => Clean, UNCHANGED now, UNCHANGED receiver,
           NEW k \in {0, 1}, sent' = sent + k, sent_in_unit' = sent_in_unit + k
    PROVE  ExpectInv' /\ (~strayed => Clean)'
  <1>0. UNCHANGED <<next_rx_msg_id, lost_msg_list, begun, head, dispatched, strayed>>
    BY DEF receiver
  <1>1. ExpectInv'
    BY <1>0 DEF ExpectInv, Expected
  <1>2. ASSUME ~strayed' PROVE Clean'
    <2>0. ~strayed /\ OnceInv /\ BegunInv /\ ListInv
      BY <1>0, <1>2 DEF Clean
    <2>1. OnceInv' /\ BegunInv'
      BY <1>0, <2>0 DEF OnceInv, BegunInv
    <2>2. ListInv'
      <3> SUFFICES ASSUME NEW i \in DOMAIN lost_msg_list, Age(i) <= LostTtl
                   PROVE  \E m \in Message : StandsFor(i, m)'
        BY <1>0 DEF ListInv, Age
      <3>1. PICK m \in Message : StandsFor(i, m)
        BY <2>0 DEF ListInv
      <3>2. Age(i)' = Age(i) /\ Rate * Age(i) \in Int /\ m \in Int
        BY <1>0, TimesAssumption DEF Age, TypeInv, Message
      <3> DEFINE a == Rate * Age(i)
      <3>3. sent' - m <= Slack + sent_in_unit' + a
        <4>1. sent - m <= Slack + sent_in_unit + a /\ a \in Int
          BY <3>1, <3>2 DEF StandsFor
        <4>2. sent \in Int /\ sent_in_unit \in Int
          BY DEF TypeInv
        <4>3. m \in Int /\ Slack \in Int
          BY <3>2, SlackIs
        <4> HIDE DEF a
        <4> QED BY <4>1, <4>2, <4>3
      <3>4. StandsFor(i, m)'
        BY <1>0, <3>1, <3>2, <3>3 DEF StandsFor
      <3> QED BY <3>4
    <2> QED BY <2>1, <2>2 DEF Clean
  <1> QED BY <1>1, <1>2

LEMMA SendStep ==
    ASSUME Inv, Send
    PROVE  Inv'
  <1> USE DEF Inv
  <1> DEFINE x == [msg |-> sent, kind |-> "original"]
  <1>1. x \in Packet /\ x.kind = "original" /\ x.msg = sent
    BY BoundsAssumption DEF Send, TypeInv, Packet, Message
  <1>2. channel' = Append(channel, x) /\ sent' = sent + 1 /\ sent_in_unit' = sent_in_unit + 1
    BY DEF Send
  <1> HIDE DEF x
  <1>3. channel' \in Seq(Packet)
    BY <1>1, <1>2, AppendIs DEF TypeInv
  <1>4. TypeInv'
    BY <1>2, <1>3, BoundsAssumption, TimesAssumption DEF TypeInv, Send, receiver
  <1>5. ChannelInv'
    <2>1. PICK f \in head .. sent : f <= head + MaxGap /\ InFlight(f)
      BY DEF ChannelInv
    <2>2. InFlight(f)'
      <3>1. sent' \in Nat
        BY <1>4 DEF TypeInv
      <3> QED BY <1>1, <1>2, <2>1, <3>1, AppendInFlight
    <2>3. f \in head' .. sent' /\ head' = head
      BY <1>2, <1>4 DEF Send, TypeInv, receiver
    <2> QED BY <2>1, <2>2, <2>3 DEF ChannelInv
  <1>6. RepeatInv'
    <2> SUFFICES ASSUME NEW i \in DOMAIN channel', channel'[i].kind # "original"
                 PROVE  /\ channel'[i].msg < sent'
                        /\ sent' - channel'[i].msg <= RepeatSpan + sent_in_unit'
                        /\ channel'[i].kind = "continued" => channel'[i].msg \in Long /\ channel'[i].msg < head'
      BY DEF RepeatInv
    <2>1. i \in DOMAIN channel /\ channel'[i] = channel[i] /\ channel[i] \in Packet
      BY <1>1, <1>2, AppendIs DEF TypeInv
    <2>2. /\ channel[i].msg < sent /\ sent - channel[i].msg <= RepeatSpan + sent_in_unit
          /\ channel[i].msg \in Int
          /\ channel[i].kind = "continued" => channel[i].msg \in Long /\ channel[i].msg < head
      BY <2>1 DEF RepeatInv, Packet, Message
    <2>3. sent \in Int /\ sent_in_unit \in Int /\ head' = head
      BY DEF TypeInv, Send, receiver
    <2> QED BY <1>2, <2>1, <2>2, <2>3, BoundsAssumption
  <1>7. UnitInv'
    BY <1>2, BoundsAssumption DEF UnitInv, Send, TypeInv, receiver
  <1>8. ExpectInv' /\ (~strayed => Clean)'
    BY <1>2, ReceiverSame DEF Send
  <1> QED BY <1>4, <1>5, <1>6, <1>7, <1>8

(* A resend or a continuation.                                             *)
LEMMA RepeatStep ==
    ASSUME Inv, NEW m \in Message, Repeat(m) \/ (m \in Long /\ Continue(m))
    PROVE  Inv'
  <1> USE DEF Inv
  <1>0. PICK x : /\ x = [msg |-> m, kind |-> "repeated"] \/ x = [msg |-> m, kind |-> "continued"]
                 /\ x.kind = "continued" => m \in Long /\ m < head
                 /\ channel' = Append(channel, x)
    BY DEF Repeat, Continue
  <1>1. x \in Packet /\ x.kind # "original" /\ x.msg = m
    BY <1>0 DEF Packet
  <1>2. /\ channel' = Append(channel, x) /\ UNCHANGED <<sent, sent_in_unit, now, receiver>>
        /\ m < sent /\ sent - m <= RepeatSpan
    <2>1. m < head => m < sent
      BY DEF TypeInv, Message
    <2> QED BY <1>0, <2>1 DEF Repeat, Continue
  <1>20. UNCHANGED <<next_rx_msg_id, lost_msg_list, begun, head, dispatched, strayed>>
    BY <1>2 DEF receiver
  <1>3. channel' \in Seq(Packet)
    BY <1>1, <1>2, AppendIs DEF TypeInv
  <1>4. TypeInv'
    BY <1>2, <1>20, <1>3 DEF TypeInv
  <1>5. ChannelInv'
    <2>1. PICK f \in head .. sent : f <= head + MaxGap /\ InFlight(f)
      BY DEF ChannelInv
    <2>2. InFlight(f)'
      <3>1. sent' \in Nat
        BY <1>4 DEF TypeInv
      <3> QED BY <1>1, <1>2, <2>1, <3>1, AppendInFlight
    <2> QED BY <1>2, <1>20, <2>1, <2>2 DEF ChannelInv
  <1>6. RepeatInv'
    <2> SUFFICES ASSUME NEW i \in DOMAIN channel'
                 PROVE  /\ channel'[i].kind # "original" =>
                              /\ channel'[i].msg < sent'
                              /\ sent' - channel'[i].msg <= RepeatSpan + sent_in_unit'
                        /\ channel'[i].kind = "continued" => channel'[i].msg \in Long /\ channel'[i].msg < head'
      BY DEF RepeatInv
    <2>1. CASE i \in DOMAIN channel /\ channel'[i] = channel[i]
      BY <1>2, <1>20, <2>1 DEF RepeatInv
    <2>2. CASE channel'[i] = x
      <3>1. x.msg = m /\ m < sent /\ sent - m <= RepeatSpan + sent_in_unit
        BY <1>1, <1>2, BoundsAssumption DEF TypeInv, Message
      <3> QED BY <1>0, <1>1, <1>2, <1>20, <2>2, <3>1
    <2> QED BY <1>1, <1>2, <2>1, <2>2, AppendIs DEF TypeInv
  <1>7. UnitInv'
    BY <1>2, <1>20 DEF UnitInv
  <1>9. sent' = sent + 0 /\ sent_in_unit' = sent_in_unit + 0
    BY <1>2 DEF TypeInv
  <1>8. ExpectInv' /\ (~strayed => Clean)'
    BY <1>2, <1>9, ReceiverSame
  <1> QED BY <1>4, <1>5, <1>6, <1>7, <1>8

LEMMA TailRepeats ==
    ASSUME TypeInv, RepeatInv, channel # <<>>, channel' = Tail(channel),
           sent' = sent, sent_in_unit' = sent_in_unit, head' \in Int, head <= head'
    PROVE  RepeatInv' /\ channel' \in Seq(Packet)
  <1>1. \A i \in DOMAIN channel' : channel'[i] = channel[i + 1] /\ i + 1 \in DOMAIN channel
    BY TailIs DEF TypeInv
  <1>2. channel' \in Seq(Packet)
    BY TailIs DEF TypeInv
  <1>3. \A i \in DOMAIN channel : channel[i].msg \in Int
    <2>1. \A i \in DOMAIN channel : channel[i] \in Packet
      BY DEF TypeInv
    <2> QED BY <2>1 DEF Packet, Message
  <1>4. head \in Int
    BY DEF TypeInv
  <1> QED BY <1>1, <1>2, <1>3, <1>4 DEF RepeatInv

LEMMA LoseStep ==
    ASSUME Inv, Lose
    PROVE  Inv'
  <1> USE DEF Inv
  <1>1. /\ channel # <<>> /\ channel' = Tail(channel) /\ sent' = sent
        /\ sent_in_unit' = sent_in_unit /\ head' = head
    BY DEF Lose, receiver
  <1>10. head \in Int /\ head <= head'
    BY <1>1 DEF TypeInv
  <1>2. RepeatInv' /\ channel' \in Seq(Packet)
    BY <1>1, <1>10, TailRepeats
  <1>3. TypeInv'
    BY <1>1, <1>2 DEF TypeInv, Lose, receiver
  <1>4. ChannelInv'
    <2>1. PICK f \in head .. sent : f <= head + MaxGap /\ InFlight(f)
      BY DEF ChannelInv
    <2>2. CASE channel[1].kind # "original"
      BY <1>1, <2>1, <2>2, TailInFlight DEF ChannelInv
    <2>3. CASE channel[1].kind = "original"
      <3>1. InFlight(f + 1)' /\ channel[1].msg = f /\ f < sent
        BY <1>1, <2>1, <2>3, TailInFlight, FirstOriginal
      <3>2. f + 1 \in head' .. sent' /\ f + 1 <= head' + MaxGap
        BY <1>1, <2>3, <3>1, BoundsAssumption DEF Lose, TypeInv
      <3> QED BY <3>1, <3>2 DEF ChannelInv
    <2> QED BY <2>2, <2>3
  <1>5. UnitInv'
    BY <1>1 DEF UnitInv
  <1>7. sent' = sent + 0 /\ sent_in_unit' = sent_in_unit + 0
    BY <1>1 DEF TypeInv
  <1>6. ExpectInv' /\ (~strayed => Clean)'
    BY <1>7, ReceiverSame DEF Lose
  <1> QED BY <1>2, <1>3, <1>4, <1>5, <1>6

(* The messages of the unit before are all received or lost.               *)
LEMMA TickStep ==
    ASSUME Inv, Tick
    PROVE  Inv'
  <1> USE DEF Inv
  <1>1. /\ channel = <<>> /\ now' = now + 1 /\ sent_in_unit' = 0
        /\ UNCHANGED <<sent, channel, next_rx_msg_id, lost_msg_list, begun, head, dispatched, strayed>>
    BY DEF Tick, receiver
  <1>2. TypeInv'
    BY <1>1, TimesAssumption DEF TypeInv
  <1>3. ChannelInv'
    BY <1>1 DEF ChannelInv, InFlight
  <1>4. RepeatInv'
    BY <1>1 DEF RepeatInv
  <1>5. UnitInv'
    <2>1. PICK f \in head .. sent : f <= head + MaxGap /\ InFlight(f)
      BY DEF ChannelInv
    <2>2. f = sent
      <3>1. DOMAIN channel = {}
        BY <1>1
      <3> QED BY <2>1, <3>1 DEF InFlight, TypeInv
    <2> QED BY <1>1, <2>1, <2>2, BoundsAssumption DEF UnitInv, TypeInv
  <1>6. ExpectInv' /\ (OnceInv /\ BegunInv => (OnceInv /\ BegunInv)')
    BY <1>1 DEF ExpectInv, Expected, OnceInv, BegunInv
  <1>7. ASSUME ListInv PROVE ListInv'
    <2> SUFFICES ASSUME NEW i \in DOMAIN lost_msg_list, Age(i)' <= LostTtl
                 PROVE  \E m \in Message : StandsFor(i, m)'
      BY <1>1 DEF ListInv
    <2>1. Age(i)' = Age(i) + 1 /\ Age(i) \in Nat
      BY <1>1 DEF Age, TypeInv
    <2>2. PICK m \in Message : StandsFor(i, m)
      BY <1>7, <2>1, TimesAssumption DEF ListInv
    <2> DEFINE a == Rate * Age(i)
    <2>3. Rate * (Age(i) + 1) = a + Rate /\ a \in Int
      <3>1. \A k \in Nat : Rate * (k + 1) = Rate * k + Rate /\ Rate * k \in Int
        BY TimesAssumption
      <3> QED BY <2>1, <3>1
    <2>4. sent' - m <= Slack + sent_in_unit' + Rate * Age(i)'
      <3>1. sent - m <= Slack + sent_in_unit + a
        BY <2>2 DEF StandsFor
      <3>2. sent \in Int /\ sent_in_unit \in 0 .. Rate /\ m \in Int
        BY DEF TypeInv, Message
      <3>3. Rate * Age(i)' = a + Rate
        BY <2>1, <2>3
      <3> HIDE DEF a
      <3>4. sent - m <= Slack + 0 + (a + Rate)
        BY <2>3, <3>1, <3>2, TimesAssumption, SlackIs
      <3> QED BY <1>1, <3>3, <3>4
    <2>5. StandsFor(i, m)'
      BY <1>1, <2>2, <2>4 DEF StandsFor
    <2> QED BY <2>5
  <1>8. (~strayed => Clean)'
    BY <1>1, <1>6, <1>7 DEF Clean
  <1> QED BY <1>2, <1>3, <1>4, <1>5, <1>6, <1>8

-----------------------------------------------------------------------------
(* What the list and the packets stand for. *)

(* Every bound is less than the ids there are.                             *)
LEMMA ListedIsRecent ==
    ASSUME TypeInv, NEW i \in DOMAIN lost_msg_list, Age(i) <= LostTtl, NEW m \in Message, StandsFor(i, m)
    PROVE  m < sent /\ sent - m <= IdCount
  <1>1. Age(i) \in 0 .. LostTtl
    BY TimesAssumption DEF TypeInv, Age
  <1>2. \A k \in 0 .. LostTtl : Rate * k <= Rate * LostTtl /\ Rate * k \in Int
    BY TimesAssumption
  <1>3. Rate * (LostTtl + 1) = Rate * LostTtl + Rate /\ Rate * LostTtl \in Int
    BY TimesAssumption
  <1> DEFINE a == Rate * Age(i)
             b == Rate * LostTtl
  <1>4. a <= b /\ a \in Int /\ b \in Int
    BY <1>1, <1>2, <1>3
  <1>5. Slack + (b + Rate) <= IdCount
    BY <1>3, SlackIs
  <1>6. sent - m <= Slack + sent_in_unit + a /\ m < head
    BY DEF StandsFor
  <1>7. sent \in Int /\ sent_in_unit \in 0 .. Rate /\ head \in Int /\ head <= sent /\ m \in Int
    BY DEF TypeInv, Message
  <1> HIDE DEF a, b
  <1>8. Slack \in Int /\ Rate \in Int /\ IdCount \in Int
    BY SlackIs, TimesAssumption, IdsAssumption
  <1> QED BY <1>4, <1>5, <1>6, <1>7, <1>8

LEMMA FirstPacket ==
    ASSUME TypeInv, channel # <<>>
    PROVE  channel[1] \in Packet /\ channel[1].msg \in Message /\ channel[1].msg \in Int
  <1>1. channel[1] \in Packet
    BY TailIs DEF TypeInv
  <1> QED BY <1>1 DEF Packet, Message

(* A packet that is not an original, when it arrives.                      *)
LEMMA OldIsRecent ==
    ASSUME TypeInv, RepeatInv, channel # <<>>, channel[1].kind # "original"
    PROVE  LET msg == channel[1].msg
           IN  /\ msg < sent /\ sent - msg <= RepeatSpan + sent_in_unit
               /\ sent - msg <= RepeatSpan + Rate /\ RepeatSpan + Rate < IdCount
               /\ channel[1].kind = "continued" => msg \in Long /\ msg < head
  <1>1. 1 \in DOMAIN channel /\ channel[1].msg \in Int
    BY TailIs, FirstPacket DEF TypeInv
  <1>2. /\ channel[1].msg < sent /\ sent - channel[1].msg <= RepeatSpan + sent_in_unit
        /\ channel[1].kind = "continued" => channel[1].msg \in Long /\ channel[1].msg < head
    BY <1>1 DEF RepeatInv
  <1>3. sent \in Int /\ sent_in_unit \in 0 .. Rate
    BY DEF TypeInv
  <1> QED BY <1>1, <1>2, <1>3, LoadAssumption, BoundsAssumption, TimesAssumption, IdsAssumption

LEMMA RepeatIsOwn ==
    ASSUME TypeInv, RepeatInv, ListInv, channel # <<>>, channel[1].kind # "original",
           is_lost_message(channel[1].msg % IdCount)
    PROVE  StandsFor(channel[1].msg % IdCount, channel[1].msg)
  <1> DEFINE msg == channel[1].msg
             id == msg % IdCount
  <1>2. id \in DOMAIN lost_msg_list /\ Age(id) <= LostTtl
    BY TimesAssumption DEF is_lost_message, TypeInv, Age
  <1>3. PICK m \in Message : StandsFor(id, m)
    BY <1>2 DEF ListInv
  <1>4. m < sent /\ sent - m <= IdCount
    BY <1>2, <1>3, ListedIsRecent
  <1>5. msg < sent /\ sent - msg <= RepeatSpan + Rate /\ RepeatSpan + Rate < IdCount
    BY OldIsRecent
  <1>6. msg \in Int /\ m \in Int /\ sent \in Int /\ m % IdCount = msg % IdCount
    BY <1>3, FirstPacket DEF Message, TypeInv, StandsFor
  <1>7. m = msg
    <2>1. m - msg < IdCount /\ msg - m < IdCount
      <3> HIDE DEF msg
      <3> QED BY <1>4, <1>5, <1>6, IdsAssumption, BoundsAssumption, TimesAssumption
    <2> QED BY <1>6, <2>1, SameId
  <1> QED BY <1>3, <1>7

-----------------------------------------------------------------------------
(* What a packet that arrives does. *)

LEMMA LetThroughIs ==
    ASSUME TypeInv, NEW p \in Packet, NEW L, \A i \in DOMAIN L : L[i] \in 0 .. now,
           NEW id, LetThrough(p, L, id)
    PROVE  /\ head' = IF p.kind = "original" THEN p.msg + 1 ELSE head
           /\ \A i \in DOMAIN lost_msg_list' :
                 \/ i \in DOMAIN L /\ lost_msg_list'[i] = L[i]
                 \/ i = id /\ lost_msg_list'[i] = now /\ p.msg \in Long
           /\ \A i \in DOMAIN lost_msg_list' : lost_msg_list'[i] \in 0 .. now
           /\ begun' \subseteq Long /\ begun' \subseteq begun \cup {p.msg}
           /\ dispatched' \in [Message -> 0 .. 2]
           /\ \A m \in Message : m # p.msg => dispatched'[m] = dispatched[m]
           /\ p.msg \notin Long => dispatched'[p.msg] = IF dispatched[p.msg] = 0 THEN 1 ELSE 2
  <1>0. p.msg \in Message /\ p.msg % IdCount \in Int /\ now \in Nat
    BY ModRange DEF Packet, Message, TypeInv
  <1>1. head' = IF p.kind = "original" THEN p.msg + 1 ELSE head
    BY DEF LetThrough
  <1>2. CASE Dispatch(p, L)
    BY <1>0, <1>1, <1>2 DEF Dispatch, TypeInv
  <1>3. CASE AwaitRest(p, L, id)
    <2>1. /\ lost_msg_list' = Refreshed(L, id) /\ p.msg \in Long
          /\ begun' = begun \cup {p.msg} /\ dispatched' = dispatched
      BY <1>3 DEF AwaitRest
    <2>2. /\ DOMAIN lost_msg_list' = DOMAIN L \cup {id}
          /\ \A i \in DOMAIN L \cup {id} : lost_msg_list'[i] = IF i = id THEN now ELSE L[i]
      BY <2>1 DEF Refreshed
    <2>3. \A i \in DOMAIN lost_msg_list' :
                 \/ i \in DOMAIN L /\ lost_msg_list'[i] = L[i]
                 \/ i = id /\ lost_msg_list'[i] = now
      BY <2>2
    <2>4. now \in 0 .. now
      BY <1>0
    <2> QED BY <1>0, <1>1, <2>1, <2>2, <2>3, <2>4 DEF TypeInv
  <1> QED BY <1>2, <1>3 DEF LetThrough

(* Nothing that the window has left is taken off the list after it.        *)
LEMMA LetThroughKeeps ==
    ASSUME NEW p, NEW L, NEW id, LetThrough(p, L, id), NEW j \in DOMAIN L
    PROVE  j \in DOMAIN lost_msg_list' /\ (lost_msg_list'[j] = L[j] \/ lost_msg_list'[j] = now)
  <1>1. CASE Dispatch(p, L)
    BY <1>1 DEF Dispatch
  <1>2. CASE AwaitRest(p, L, id)
    BY <1>2 DEF AwaitRest, Refreshed
  <1> QED BY <1>1, <1>2 DEF LetThrough

LEMMA WithoutIs ==
    ASSUME NEW id
    PROVE  /\ DOMAIN WithoutId(id) = DOMAIN lost_msg_list \ {id}
           /\ \A i \in DOMAIN WithoutId(id) : WithoutId(id)[i] = lost_msg_list[i]
  BY DEF WithoutId, Restrict

LEMMA FillIs ==
    ASSUME NEW id
    PROVE  /\ DOMAIN fill_lost_msg(id) = Kept(id) \cup Skipped(id)
           /\ \A i \in Kept(id) : i \in DOMAIN lost_msg_list /\ fill_lost_msg(id)[i] = lost_msg_list[i]
           /\ \A i \in Skipped(id) \ Kept(id) : fill_lost_msg(id)[i] = now
  BY DEF fill_lost_msg, Kept

(* The four ways through the window.                                       *)
Dropped(p, id) ==
    /\ p.kind = "repeated" /\ ~is_lost_message(id) /\ lost_msg_list' = WithoutId(id)
    /\ UNCHANGED <<next_rx_msg_id, begun, head, dispatched, strayed>>
FromPast(p, id) ==
    /\ (p.kind = "repeated" /\ is_lost_message(id)) \/ (p.kind # "repeated" /\ InPast(id))
    /\ LetThrough(p, WithoutId(id), id) /\ UNCHANGED <<next_rx_msg_id, strayed>>
FromGap(p, id) ==
    /\ p.kind # "repeated" /\ ~InPast(id) /\ IsGap(id)
    /\ LetThrough(p, fill_lost_msg(id), id)
    /\ next_rx_msg_id' = (id + 1) % IdCount
    /\ strayed' = (strayed \/ p.kind = "continued")
AtExpected(p, id) ==
    /\ p.kind # "repeated" /\ ~InPast(id) /\ ~IsGap(id)
    /\ LetThrough(p, lost_msg_list, id)
    /\ next_rx_msg_id' = IF id >= next_rx_msg_id THEN (id + 1) % IdCount ELSE next_rx_msg_id
    /\ UNCHANGED strayed

LEMMA FourWays ==
    ASSUME internal_process_message
    PROVE  LET p == channel[1]
               id == p.msg % IdCount
           IN  /\ channel # <<>> /\ channel' = Tail(channel)
               /\ UNCHANGED <<sent, sent_in_unit, now>>
               /\ Dropped(p, id) \/ FromPast(p, id) \/ FromGap(p, id) \/ AtExpected(p, id)
  BY DEF internal_process_message, ProcessPast, ProcessNew, Dropped, FromPast, FromGap, AtExpected

(* What is left of the list has the times it had, or the present one.      *)
LEMMA ListTimes ==
    ASSUME TypeInv, NEW id
    PROVE  /\ \A i \in DOMAIN WithoutId(id) : WithoutId(id)[i] \in 0 .. now
           /\ \A i \in DOMAIN fill_lost_msg(id) : fill_lost_msg(id)[i] \in 0 .. now
           /\ \A i \in DOMAIN lost_msg_list : lost_msg_list[i] \in 0 .. now
  <1>1. \A i \in DOMAIN WithoutId(id) : WithoutId(id)[i] \in 0 .. now
    BY WithoutIs DEF TypeInv
  <1>2. \A i \in DOMAIN fill_lost_msg(id) : fill_lost_msg(id)[i] \in 0 .. now
    <2>1. now \in 0 .. now
      BY DEF TypeInv
    <2> QED BY <2>1, FillIs DEF TypeInv
  <1> QED BY <1>1, <1>2 DEF TypeInv

(* Types and the channel, whatever the window does with the packet.        *)
LEMMA ReceiveFrame ==
    ASSUME Inv, internal_process_message
    PROVE  /\ TypeInv' /\ ChannelInv' /\ RepeatInv' /\ UnitInv'
           /\ head' = IF channel[1].kind = "original" THEN channel[1].msg + 1 ELSE head
  <1> DEFINE p == channel[1]
             id == p.msg % IdCount
  <1>0. TypeInv /\ ChannelInv /\ RepeatInv /\ UnitInv
    BY DEF Inv
  <1>1. /\ channel # <<>> /\ channel' = Tail(channel) /\ UNCHANGED <<sent, sent_in_unit, now>>
        /\ Dropped(p, id) \/ FromPast(p, id) \/ FromGap(p, id) \/ AtExpected(p, id)
    BY FourWays
  <1>2. p \in Packet /\ p.msg \in Message /\ p.msg \in Int
    BY <1>0, <1>1, FirstPacket
  <1>3. /\ head' = IF p.kind = "original" THEN p.msg + 1 ELSE head
        /\ \A i \in DOMAIN lost_msg_list' : lost_msg_list'[i] \in 0 .. now
        /\ begun' \subseteq Long /\ dispatched' \in [Message -> 0 .. 2]
    <2>1. CASE Dropped(p, id)
      BY <1>0, <2>1, ListTimes DEF Dropped, TypeInv
    <2>2. CASE FromPast(p, id)
      <3>1. LetThrough(p, WithoutId(id), id)
        BY <2>2 DEF FromPast
      <3> QED BY <1>0, <1>2, <3>1, ListTimes, LetThroughIs
    <2>3. CASE FromGap(p, id)
      <3>1. LetThrough(p, fill_lost_msg(id), id)
        BY <2>3 DEF FromGap
      <3> QED BY <1>0, <1>2, <3>1, ListTimes, LetThroughIs
    <2>4. CASE AtExpected(p, id)
      <3>1. LetThrough(p, lost_msg_list, id)
        BY <2>4 DEF AtExpected
      <3> QED BY <1>0, <1>2, <3>1, ListTimes, LetThroughIs
    <2> QED BY <1>1, <2>1, <2>2, <2>3, <2>4
  <1>4. strayed' \in BOOLEAN
    BY <1>0, <1>1 DEF Dropped, FromPast, FromGap, AtExpected, TypeInv
  <1>5. PICK f \in head .. sent : f <= head + MaxGap /\ InFlight(f)
    BY <1>0 DEF ChannelInv
  <1>6. /\ p.kind # "original" => InFlight(f)'
        /\ p.kind = "original" => InFlight(f + 1)' /\ p.msg = f /\ f < sent
    BY <1>0, <1>1, <1>5, TailInFlight, FirstOriginal
  <1>7. head \in Int /\ sent \in Int /\ sent_in_unit \in Int /\ f \in Int /\ 0 <= head
    BY <1>0, <1>5 DEF TypeInv
  <1>8. head' \in 0 .. sent /\ head <= head'
    <2> HIDE DEF p
    <2> QED BY <1>0, <1>3, <1>5, <1>6, <1>7 DEF TypeInv
  <1>9. ChannelInv'
    <2>1. CASE p.kind # "original"
      BY <1>1, <1>3, <1>5, <1>6, <2>1 DEF ChannelInv
    <2>2. CASE p.kind = "original"
      <3>1. InFlight(f + 1)' /\ head' = f + 1 /\ f + 1 \in head' .. sent' /\ f + 1 <= head' + MaxGap
        BY <1>1, <1>3, <1>6, <1>7, <2>2, BoundsAssumption
      <3> QED BY <3>1 DEF ChannelInv
    <2> QED BY <2>1, <2>2
  <1>10. RepeatInv' /\ channel' \in Seq(Packet)
    BY <1>0, <1>1, <1>8, TailRepeats
  <1>11. UnitInv'
    <2>1. sent - sent_in_unit <= head + MaxGap
      BY <1>0 DEF UnitInv
    <2>2. head' \in Int /\ head <= head' /\ sent' = sent /\ sent_in_unit' = sent_in_unit
      BY <1>1, <1>8
    <2>3. sent - sent_in_unit <= head' + MaxGap
      <3>1. MaxGap \in Int
        BY BoundsAssumption
      <3>2. \A h \in Int : h >= head => sent - sent_in_unit <= h + MaxGap
        BY <1>7, <2>1, <3>1
      <3> QED BY <1>7, <2>2, <3>2
    <2> QED BY <2>2, <2>3 DEF UnitInv
  <1>12. TypeInv'
    BY <1>0, <1>1, <1>3, <1>4, <1>8, <1>10 DEF TypeInv
  <1> QED BY <1>3, <1>9, <1>10, <1>11, <1>12

-----------------------------------------------------------------------------
(* The expected id. *)

(* An original is not of the past: its id is g after the expected one,     *)
(* wrapped or not, and g leaves the window free.                           *)
LEMMA OriginalIsNew ==
    ASSUME Inv, channel # <<>>, channel[1].kind = "original", NEW b \in Int, Expected(b)
    PROVE  LET msg == channel[1].msg
               g == msg - b
               id == msg % IdCount
           IN  /\ msg - head \in 0 .. MaxGap /\ msg \in Message /\ msg < sent
               /\ g \in Nat /\ g < IdCount - Window
               /\ id \in 0 .. IdCount - 1 /\ next_rx_msg_id \in 0 .. IdCount - 1
               /\ \/ id = next_rx_msg_id + g
                  \/ id = next_rx_msg_id + g - IdCount /\ next_rx_msg_id - id > Window
               /\ ~InPast(id)
  <1> DEFINE msg == channel[1].msg
             g == msg - b
             id == msg % IdCount
             next == next_rx_msg_id
  <1>1. PICK f \in head .. sent : f <= head + MaxGap /\ InFlight(f)
    BY DEF Inv, ChannelInv
  <1>2. msg = f /\ f < sent
    BY <1>1, FirstOriginal DEF Inv
  <1>3. msg \in Message /\ msg \in Int /\ head \in Int /\ sent \in Int
    BY FirstPacket DEF Inv, TypeInv
  <1>30. msg - head \in 0 .. MaxGap
    BY <1>1, <1>2, <1>3, BoundsAssumption
  <1>31. b <= head /\ head - b < RepeatSpan + Rate
    BY DEF Expected
  <1>4. g \in Nat /\ g < IdCount - Window /\ g \in Int
    <2> HIDE DEF msg
    <2> QED BY <1>3, <1>30, <1>31, BoundsAssumption, TimesAssumption, LoadAssumption, IdsAssumption
  <1>5. next = b % IdCount /\ next \in 0 .. IdCount - 1
    BY ModRange DEF Expected
  <1>6. id = IF next + g >= IdCount THEN next + g - IdCount
             ELSE IF next + g < 0 THEN next + g + IdCount ELSE next + g
    <2>1. -IdCount < g /\ g < IdCount
      BY <1>4, IdsAssumption
    <2>2. msg = b + g
      BY <1>3
    <2> HIDE DEF g, msg
    <2> QED BY <1>3, <1>4, <1>5, <2>1, <2>2, ModShift
  <1>7. id \in 0 .. IdCount - 1
    BY <1>3, ModRange
  <1> HIDE DEF g, msg, id, next
  <1>8. \/ id = next + g
        \/ id = next + g - IdCount /\ next - id > Window
    BY <1>4, <1>5, <1>6, IdsAssumption
  <1>9. ~(id < next /\ next - id < Window)
    BY <1>4, <1>5, <1>7, <1>8, IdsAssumption
  <1> USE DEF g, msg, id, next
  <1>10. ~InPast(id)
    BY <1>9 DEF InPast
  <1> QED BY <1>2, <1>3, <1>30, <1>4, <1>5, <1>7, <1>8, <1>10

(* What the receiver does with an original: after it, it expects the one   *)
(* that follows.                                                           *)
LEMMA OriginalIsReceived ==
    ASSUME Inv, internal_process_message, channel[1].kind = "original", NEW b \in Int, Expected(b)
    PROVE  LET p == channel[1]
               id == p.msg % IdCount
           IN  /\ channel # <<>> /\ head' = p.msg + 1 /\ strayed' = strayed
               /\ next_rx_msg_id' = (p.msg + 1) % IdCount
               /\ \/ p.msg # b /\ LetThrough(p, fill_lost_msg(id), id)
                  \/ p.msg = b /\ LetThrough(p, lost_msg_list, id)
  <1> DEFINE p == channel[1]
             id == p.msg % IdCount
             g == p.msg - b
             next == next_rx_msg_id
  <1>1. /\ channel # <<>>
        /\ Dropped(p, id) \/ FromPast(p, id) \/ FromGap(p, id) \/ AtExpected(p, id)
    BY FourWays
  <1>2. /\ g \in Nat /\ g < IdCount - Window /\ p.msg \in Message
        /\ id \in 0 .. IdCount - 1 /\ next \in 0 .. IdCount - 1
        /\ id = next + g \/ (id = next + g - IdCount /\ next - id > Window)
        /\ ~InPast(id)
    BY <1>1, OriginalIsNew
  <1>3. p.msg \in Int
    BY <1>2 DEF Message
  <1>4. head' = p.msg + 1
    BY ReceiveFrame
  <1>5. (p.msg + 1) % IdCount = (id + 1) % IdCount
    BY <1>3, NextId
  <1>6. FromGap(p, id) \/ AtExpected(p, id)
    BY <1>1, <1>2 DEF Dropped, FromPast
  <1>7. IsGap(id) <=> id > next \/ next - id > Window
    BY DEF IsGap
  <1>8. IsGap(id) <=> g # 0
    <2> HIDE DEF id, g, next
    <2> QED BY <1>2, <1>7, IdsAssumption
  <1>9. g = 0 <=> p.msg = b
    BY <1>3
  <1>10. CASE FromGap(p, id)
    BY <1>1, <1>4, <1>5, <1>8, <1>9, <1>10 DEF FromGap, Inv, TypeInv
  <1>11. CASE AtExpected(p, id)
    <2>1. g = 0 /\ id >= next
      <3>1. ~IsGap(id)
        BY <1>11 DEF AtExpected
      <3> HIDE DEF id, g, next
      <3> QED BY <1>2, <1>8, <3>1, IdsAssumption
    <2> QED BY <1>1, <1>4, <1>5, <1>9, <1>11, <2>1 DEF AtExpected
  <1> QED BY <1>6, <1>10, <1>11

LEMMA ExpectStep ==
    ASSUME Inv, internal_process_message
    PROVE  ExpectInv'
  <1> DEFINE p == channel[1]
             id == p.msg % IdCount
  <1>1. /\ channel # <<>>
        /\ Dropped(p, id) \/ FromPast(p, id) \/ FromGap(p, id) \/ AtExpected(p, id)
    BY FourWays
  <1>2. PICK b \in Int : Expected(b) /\ (~strayed => b = head)
    BY DEF Inv, ExpectInv
  <1>3. p.msg \in Int /\ head \in Int /\ sent \in Int /\ head <= sent
    BY <1>1, FirstPacket DEF Inv, TypeInv
  <1>4. CASE p.kind = "original"
    <2>1. head' = p.msg + 1 /\ next_rx_msg_id' = (p.msg + 1) % IdCount
      BY <1>2, <1>4, OriginalIsReceived
    <2>2. head' \in Int /\ head' - head' < RepeatSpan + Rate
      BY <1>3, <2>1, BoundsAssumption, TimesAssumption
    <2>3. PICK c \in Int : c = head'
      BY <2>2
    <2>4. Expected(c)'
      BY <2>1, <2>2, <2>3 DEF Expected
    <2> QED BY <2>3, <2>4 DEF ExpectInv
  <1>5. CASE p.kind # "original"
    <2>1. head' = head
      BY <1>5, ReceiveFrame
    <2>2. CASE next_rx_msg_id' = next_rx_msg_id /\ strayed' = strayed
      BY <1>2, <2>1, <2>2 DEF ExpectInv, Expected
    <2>3. CASE p.kind = "continued" /\ next_rx_msg_id' = (id + 1) % IdCount /\ strayed'
      <3>1. sent - p.msg <= RepeatSpan + Rate /\ p.msg < head
        BY <1>1, <1>5, <2>3, OldIsRecent DEF Inv
      <3>2. p.msg + 1 \in Int /\ p.msg + 1 <= head /\ head - (p.msg + 1) < RepeatSpan + Rate
        BY <1>3, <3>1, BoundsAssumption, TimesAssumption
      <3>3. (p.msg + 1) % IdCount = (id + 1) % IdCount
        BY <1>3, NextId
      <3>4. PICK c \in Int : c = p.msg + 1
        BY <3>2
      <3>5. Expected(c)'
        BY <2>1, <2>3, <3>2, <3>3, <3>4 DEF Expected
      <3> QED BY <2>3, <3>5 DEF ExpectInv
    <2>4. p.kind \in {"continued", "repeated"}
      <3>1. p \in Packet
        BY <1>1, FirstPacket DEF Inv
      <3> QED BY <1>5, <3>1 DEF Packet
    <2>5. CASE AtExpected(p, id) /\ id >= next_rx_msg_id
      <3>1. p.kind = "continued" /\ next_rx_msg_id' = (id + 1) % IdCount /\ strayed' = strayed
        BY <2>4, <2>5 DEF AtExpected
      <3>2. ASSUME ~strayed PROVE FALSE
        <4>1. next_rx_msg_id = head % IdCount /\ next_rx_msg_id \in Int /\ id \in Int
          BY <1>2, <1>3, <3>2, ModRange DEF Expected
        <4>2. id = next_rx_msg_id
          BY <2>5, <4>1 DEF AtExpected, IsGap
        <4>3. /\ p.msg < head /\ sent - p.msg <= RepeatSpan + Rate /\ RepeatSpan + Rate < IdCount
          BY <1>1, <1>5, <3>1, OldIsRecent DEF Inv
        <4>4. head - p.msg < IdCount /\ p.msg - head < IdCount
          <5> HIDE DEF p
          <5> QED BY <1>3, <4>3, BoundsAssumption, TimesAssumption, IdsAssumption
        <4>5. p.msg = head
          BY <1>3, <4>1, <4>2, <4>4, SameId
        <4> QED BY <1>3, <4>3, <4>5
      <3> QED BY <2>3, <3>1, <3>2
    <2> QED BY <1>1, <2>2, <2>3, <2>4, <2>5 DEF Dropped, FromPast, FromGap, AtExpected
  <1> QED BY <1>4, <1>5

(* fill_lost_msg adds the ids of the skipped messages, or of the Window    *)
(* last ones of them.                                                      *)
LEMMA SkippedAre ==
    ASSUME Inv, ~strayed, channel # <<>>, channel[1].kind = "original"
    PROVE  LET msg == channel[1].msg
           IN  \E lo \in head .. msg :
                  /\ lo = head \/ lo = msg - Window
                  /\ Skipped(msg % IdCount) = {(lo + k) % IdCount : k \in 0 .. (msg - lo) - 1}
  <1> DEFINE msg == channel[1].msg
             g == msg - head
             id == msg % IdCount
             next == next_rx_msg_id
  <1>1. /\ g \in 0 .. MaxGap /\ msg \in Message
        /\ id \in 0 .. IdCount - 1 /\ next \in 0 .. IdCount - 1
        /\ id = next + g \/ (id = next + g - IdCount /\ next - id > Window)
    <2>1. head \in Int /\ Expected(head)
      BY DEF Inv, ExpectInv, TypeInv
    <2> QED BY <2>1, OriginalIsNew
  <1>2. msg \in Int /\ head \in Int /\ head <= msg /\ g \in Int /\ g < IdCount /\ msg = head + g
    <2>1. msg \in Int /\ head \in Int
      BY <1>1 DEF Message, Inv, TypeInv
    <2>2. MaxGap \in Nat /\ IdCount \in Nat /\ MaxGap < IdCount
      <3>1. RepeatSpan + Rate + MaxGap + Window <= IdCount
        BY LoadAssumption
      <3> QED BY <3>1, IdsAssumption, BoundsAssumption, TimesAssumption
    <2>3. g \in 0 .. MaxGap
      BY <1>1
    <2> HIDE DEF msg
    <2> QED BY <2>1, <2>2, <2>3
  <1>3. next = head % IdCount /\ id = msg % IdCount
    BY DEF Inv, ExpectInv, Expected
  <1>4. Skipped(id) = {(FillFrom(id) + k) % IdCount : k \in 0 .. ((id - FillFrom(id)) % IdCount) - 1}
    BY DEF Skipped
  <1>5. FillFrom(id) = IF id > next + Window THEN id - Window ELSE next
    BY DEF FillFrom
  <1>6. Skipped(msg % IdCount) = Skipped(id)
    OBVIOUS
  <1> HIDE DEF msg, g, id, next
  <1>7. CASE id > next + Window
    <2>1. id = next + g /\ g > Window
      BY <1>1, <1>2, <1>7, IdsAssumption
    <2>2. FillFrom(id) = id - Window /\ (id - FillFrom(id)) % IdCount = Window
      <3>1. id - (id - Window) = Window /\ Window \in 0 .. IdCount - 1
        BY <1>1, IdsAssumption
      <3> QED BY <1>5, <1>7, <3>1, ModSmall
    <2>3. \A k \in 0 .. Window - 1 : (id - Window + k) % IdCount = (msg - Window + k) % IdCount
      <3> SUFFICES ASSUME NEW k \in 0 .. Window - 1
                   PROVE  (id - Window + k) % IdCount = (msg - Window + k) % IdCount
        OBVIOUS
      <3>1. k - Window \in Int /\ msg + (k - Window) = msg - Window + k
        BY <1>2, IdsAssumption
      <3>2. id + (k - Window) = id - Window + k
        BY <1>1, IdsAssumption
      <3>3. (msg + (k - Window)) % IdCount = (id + (k - Window)) % IdCount
        BY <1>2, <1>3, <3>1, ModAdd
      <3> QED BY <3>1, <3>2, <3>3
    <2>4. Skipped(id) = {(msg - Window + k) % IdCount : k \in 0 .. Window - 1}
      BY <1>4, <2>2, <2>3
    <2>5. msg - Window \in head .. msg /\ msg - (msg - Window) = Window
      BY <1>2, <2>1, IdsAssumption
    <2>6. PICK lo \in head .. msg : lo = msg - Window
      BY <2>5
    <2>7. Skipped(id) = {(lo + k) % IdCount : k \in 0 .. (msg - lo) - 1}
      BY <2>4, <2>5, <2>6
    <2> QED BY <1>6, <2>6, <2>7 DEF msg
  <1>8. CASE ~(id > next + Window)
    <2>1. FillFrom(id) = next
      BY <1>5, <1>8
    <2>2. (id - next) % IdCount = g
      <3>1. id % IdCount = id
        BY <1>1, ModSmall
      <3>2. -next \in Int /\ -IdCount < -next /\ -next < IdCount /\ id \in Int /\ id + -next = id - next
        BY <1>1, IdsAssumption
      <3>3. (id + -next) % IdCount = IF id + -next >= IdCount THEN id + -next - IdCount
                                     ELSE IF id + -next < 0 THEN id + -next + IdCount ELSE id + -next
        BY <3>1, <3>2, ModShift
      <3> QED BY <1>1, <1>2, <3>2, <3>3, IdsAssumption
    <2>3. \A k \in 0 .. g - 1 : (next + k) % IdCount = (head + k) % IdCount
      BY <1>2, <1>3, ModAdd
    <2>4. Skipped(id) = {(head + k) % IdCount : k \in 0 .. (msg - head) - 1}
      BY <1>4, <2>1, <2>2, <2>3 DEF g
    <2>5. head \in head .. msg
      BY <1>2
    <2> QED BY <1>6, <2>4, <2>5 DEF msg
  <1> QED BY <1>7, <1>8

-----------------------------------------------------------------------------
(* The list and what was dispatched, while no fragment has strayed. *)

(* An entry that is kept stands for what it stood for.                     *)
LEMMA StillStandsFor ==
    ASSUME TypeInv, TypeInv', NEW i \in DOMAIN lost_msg_list, NEW m \in Message, StandsFor(i, m),
           i \in DOMAIN lost_msg_list', lost_msg_list'[i] = lost_msg_list[i],
           head <= head', UNCHANGED <<sent, sent_in_unit, now>>,
           dispatched'[m] = dispatched[m] \/ m \in Long
    PROVE  StandsFor(i, m)'
  <1>1. Age(i)' = Age(i)
    BY DEF Age
  <1>2. m < head'
    BY DEF StandsFor, TypeInv, Message
  <1> QED BY <1>1, <1>2 DEF StandsFor

(* A new entry for a message received in this unit, or for one in transfer. *)
LEMMA NowStandsFor ==
    ASSUME TypeInv, TypeInv', NEW m \in Message, lost_msg_list'[m % IdCount] = now,
           UNCHANGED <<sent, sent_in_unit, now>>,
           m < head', dispatched'[m] = 0 \/ m \in Long,
           sent - m <= MaxGap + sent_in_unit \/ sent - m <= RepeatSpan + sent_in_unit
    PROVE  StandsFor(m % IdCount, m)'
  <1> DEFINE i == m % IdCount
  <1>1. Age(i)' = 0
    BY DEF Age, TypeInv
  <1>2. Rate * Age(i)' = 0
    BY <1>1, TimesAssumption
  <1>3. sent - m <= Slack + sent_in_unit + 0
    BY SlackIs, BoundsAssumption DEF TypeInv, Message
  <1>4. sent' - m <= Slack + sent_in_unit' + Rate * Age(i)'
    BY <1>2, <1>3
  <1> QED BY <1>4 DEF StandsFor

(* A packet that is not an original.                                       *)
LEMMA OldStep ==
    ASSUME Inv, internal_process_message, channel[1].kind # "original", ~strayed'
    PROVE  Clean'
  <1> DEFINE p == channel[1]
             id == p.msg % IdCount
  <1>1. /\ channel # <<>> /\ UNCHANGED <<sent, sent_in_unit, now>>
        /\ Dropped(p, id) \/ FromPast(p, id) \/ FromGap(p, id) \/ AtExpected(p, id)
    BY FourWays
  <1>2. p \in Packet /\ p.msg \in Message /\ p.msg \in Int /\ p.kind \in {"continued", "repeated"}
    <2>1. p \in Packet /\ p.msg \in Message /\ p.msg \in Int
      BY <1>1, FirstPacket DEF Inv
    <2> QED BY <2>1 DEF Packet
  <1>3. ~strayed /\ ~FromGap(p, id)
    <2>1. ~FromGap(p, id)
      <3> SUFFICES ASSUME FromGap(p, id) PROVE FALSE
        OBVIOUS
      <3>1. p.kind # "repeated" /\ strayed' = (strayed \/ p.kind = "continued")
        BY DEF FromGap
      <3>2. p.kind = "continued"
        BY <1>2, <3>1
      <3> QED BY <3>1, <3>2
    <2>2. strayed' = strayed
      BY <1>1, <2>1 DEF Dropped, FromPast, AtExpected
    <2> QED BY <2>1, <2>2
  <1>4. TypeInv /\ RepeatInv /\ OnceInv /\ BegunInv /\ ListInv /\ TypeInv'
    BY <1>3, ReceiveFrame DEF Inv, Clean
  <1>5. head' = head /\ head \in Int
    BY <1>4, ReceiveFrame DEF TypeInv
  <1>6. /\ p.msg < sent /\ sent - p.msg <= RepeatSpan + sent_in_unit
        /\ p.kind = "continued" => p.msg \in Long /\ p.msg < head
    BY <1>1, <1>4, OldIsRecent
  <1>7. CASE Dropped(p, id)
    <2>1. /\ UNCHANGED <<begun, head, dispatched>>
          /\ \A i \in DOMAIN lost_msg_list' : i \in DOMAIN lost_msg_list /\ lost_msg_list'[i] = lost_msg_list[i]
      BY <1>7, WithoutIs DEF Dropped
    <2>2. OnceInv' /\ BegunInv'
      BY <1>4, <2>1 DEF OnceInv, BegunInv
    <2>3. ASSUME NEW i \in DOMAIN lost_msg_list', Age(i)' <= LostTtl
          PROVE  \E m \in Message : StandsFor(i, m)'
      <3>1. i \in DOMAIN lost_msg_list /\ lost_msg_list'[i] = lost_msg_list[i] /\ Age(i) <= LostTtl
        BY <1>1, <2>1, <2>3 DEF Age
      <3>2. PICK m \in Message : StandsFor(i, m)
        BY <1>4, <3>1 DEF ListInv
      <3> QED BY <1>1, <1>4, <1>5, <2>1, <3>1, <3>2, StillStandsFor
    <2> QED BY <2>2, <2>3 DEF Clean, ListInv
  <1>8. CASE FromPast(p, id) \/ AtExpected(p, id)
    <2>1. PICK L : /\ LetThrough(p, L, id) /\ \A i \in DOMAIN L : L[i] \in 0 .. now
                   /\ \A i \in DOMAIN L : i \in DOMAIN lost_msg_list /\ L[i] = lost_msg_list[i]
                   /\ id \in DOMAIN L => p.msg \in Long
      <3>1. CASE FromPast(p, id)
        <4>1. LetThrough(p, WithoutId(id), id)
          BY <3>1 DEF FromPast
        <4> QED BY <1>4, <4>1, ListTimes, WithoutIs
      <3>2. CASE AtExpected(p, id)
        <4>1. LetThrough(p, lost_msg_list, id) /\ p.msg \in Long
          BY <1>2, <1>6, <3>2 DEF AtExpected
        <4> QED BY <1>4, <4>1, ListTimes
      <3> QED BY <1>8, <3>1, <3>2
    <2>2. /\ \A i \in DOMAIN lost_msg_list' :
                 \/ i \in DOMAIN L /\ lost_msg_list'[i] = L[i]
                 \/ i = id /\ lost_msg_list'[i] = now /\ p.msg \in Long
          /\ begun' \subseteq begun \cup {p.msg}
          /\ dispatched' \in [Message -> 0 .. 2]
          /\ \A m \in Message : m # p.msg => dispatched'[m] = dispatched[m]
          /\ p.msg \notin Long => dispatched'[p.msg] = IF dispatched[p.msg] = 0 THEN 1 ELSE 2
      BY <1>2, <1>4, <2>1, LetThroughIs
    <2>3. p.msg < head /\ (p.msg \in Long \/ dispatched[p.msg] = 0)
      <3>1. CASE p.kind = "continued"
        BY <1>6, <3>1
      <3>2. CASE p.kind = "repeated"
        <4>1. is_lost_message(id)
          BY <1>8, <3>2 DEF FromPast, AtExpected
        <4>2. StandsFor(id, p.msg)
          BY <1>1, <1>4, <4>1, RepeatIsOwn
        <4> QED BY <4>2 DEF StandsFor
      <3> QED BY <1>2, <3>1, <3>2
    <2>4. OnceInv'
      <3> SUFFICES ASSUME NEW m \in Message
                   PROVE  (m \notin Long => dispatched'[m] <= 1) /\ (m >= head => dispatched'[m] = 0)
        BY <1>5 DEF OnceInv
      <3>0. m \in Int
        BY DEF Message
      <3>1. CASE m = p.msg
        BY <1>2, <1>5, <2>2, <2>3, <3>0, <3>1
      <3>2. CASE m # p.msg
        BY <1>4, <2>2, <3>2 DEF OnceInv
      <3> QED BY <3>1, <3>2
    <2>5. BegunInv'
      BY <1>4, <1>5, <2>2, <2>3 DEF BegunInv
    <2>6. ASSUME NEW i \in DOMAIN lost_msg_list', Age(i)' <= LostTtl
          PROVE  \E m \in Message : StandsFor(i, m)'
      <3>1. CASE i \in DOMAIN L /\ lost_msg_list'[i] = L[i]
        <4>1. i \in DOMAIN lost_msg_list /\ lost_msg_list'[i] = lost_msg_list[i] /\ Age(i) <= LostTtl
          BY <1>1, <2>1, <2>6, <3>1 DEF Age
        <4>2. PICK m \in Message : StandsFor(i, m)
          BY <1>4, <4>1 DEF ListInv
        <4>3. dispatched'[m] = dispatched[m] \/ m \in Long
          <5>1. m = p.msg => i = id
            BY <4>2 DEF StandsFor
          <5> QED BY <2>1, <2>2, <3>1, <5>1
        <4>4. head <= head'
          BY <1>5
        <4> QED BY <1>1, <1>4, <2>6, <4>1, <4>2, <4>3, <4>4, StillStandsFor
      <3>2. CASE i = id /\ lost_msg_list'[i] = now /\ p.msg \in Long
        <4>1. PICK m \in Message : m = p.msg
          BY <1>2
        <4>2. /\ lost_msg_list'[m % IdCount] = now /\ m < head' /\ m \in Long
              /\ sent - m <= RepeatSpan + sent_in_unit
          BY <1>5, <1>6, <2>3, <3>2, <4>1
        <4>3. StandsFor(m % IdCount, m)'
          BY <1>1, <1>4, <4>2, NowStandsFor
        <4> QED BY <3>2, <4>1, <4>3
      <3> QED BY <2>2, <2>6, <3>1, <3>2
    <2> QED BY <2>4, <2>5, <2>6 DEF Clean, ListInv
  <1> QED BY <1>1, <1>3, <1>7, <1>8

(* An original.                                                            *)
LEMMA NewStep ==
    ASSUME Inv, internal_process_message, channel[1].kind = "original", ~strayed'
    PROVE  Clean'
  <1>10. PICK p \in Packet : p = channel[1] /\ p.msg \in Message /\ p.msg \in Int
    BY FourWays, FirstPacket DEF Inv
  <1> DEFINE msg == p.msg
             id == msg % IdCount
  <1>1. UNCHANGED <<sent, sent_in_unit, now>> /\ channel # <<>>
    BY FourWays
  <1>2. ExpectInv /\ TypeInv /\ UnitInv /\ TypeInv' /\ head \in Int /\ sent \in Int /\ sent_in_unit \in Int
    BY ReceiveFrame DEF Inv, TypeInv
  <1>3. PICK b \in Int : Expected(b) /\ (~strayed => b = head)
    BY <1>2 DEF ExpectInv
  <1>4. /\ strayed' = strayed /\ head' = msg + 1
        /\ \/ msg # b /\ LetThrough(p, fill_lost_msg(id), id)
           \/ msg = b /\ LetThrough(p, lost_msg_list, id)
    BY <1>3, <1>10, OriginalIsReceived
  <1>5. ~strayed /\ b = head /\ OnceInv /\ BegunInv /\ ListInv
    BY <1>3, <1>4 DEF Inv, Clean
  <1>6. msg - head \in 0 .. MaxGap /\ msg < sent
    BY <1>1, <1>3, <1>10, OriginalIsNew
  <1>7. head <= msg /\ msg < head' /\ head <= head' /\ sent - head <= MaxGap + sent_in_unit
    <2>1. sent - sent_in_unit <= head + MaxGap
      BY <1>2 DEF UnitInv
    <2> QED BY <1>2, <1>4, <1>6, <1>10, <2>1, BoundsAssumption
  <1>8. PICK L : /\ LetThrough(p, L, id) /\ \A i \in DOMAIN L : L[i] \in 0 .. now
                 /\ \A i \in DOMAIN L :
                       \/ i \in DOMAIN lost_msg_list /\ L[i] = lost_msg_list[i]
                       \/ i \in Skipped(id) /\ L[i] = now
    <2>1. CASE LetThrough(p, fill_lost_msg(id), id)
      BY <1>2, <2>1, ListTimes, FillIs
    <2>2. CASE LetThrough(p, lost_msg_list, id)
      BY <1>2, <2>2, ListTimes
    <2> QED BY <1>4, <2>1, <2>2
  <1>9. /\ \A i \in DOMAIN lost_msg_list' :
               \/ i \in DOMAIN L /\ lost_msg_list'[i] = L[i]
               \/ i = id /\ lost_msg_list'[i] = now /\ msg \in Long
        /\ begun' \subseteq begun \cup {msg}
        /\ dispatched' \in [Message -> 0 .. 2]
        /\ \A m \in Message : m # msg => dispatched'[m] = dispatched[m]
        /\ msg \notin Long => dispatched'[msg] = IF dispatched[msg] = 0 THEN 1 ELSE 2
    BY <1>2, <1>8, LetThroughIs
  <1>11. OnceInv'
    <2> SUFFICES ASSUME NEW m \in Message
                 PROVE  (m \notin Long => dispatched'[m] <= 1) /\ (m >= head' => dispatched'[m] = 0)
      BY DEF OnceInv
    <2>0. m \in Int
      BY DEF Message
    <2>1. CASE m = msg
      <3>1. dispatched[msg] = 0
        BY <1>5, <1>7, <1>10 DEF OnceInv
      <3>2. ~(m >= head')
        BY <1>4, <1>10, <2>1
      <3> QED BY <1>9, <2>1, <3>1, <3>2
    <2>2. CASE m # msg
      <3>1. m >= head' => m >= head
        BY <1>2, <1>4, <1>7, <1>10, <2>0
      <3> QED BY <1>5, <1>9, <2>2, <3>1 DEF OnceInv
    <2> QED BY <2>1, <2>2
  <1>12. BegunInv'
    <2>1. \A m \in begun : m \in Int /\ m < head'
      BY <1>2, <1>4, <1>5, <1>7, <1>10, BoundsAssumption DEF BegunInv, TypeInv
    <2> QED BY <1>7, <1>9, <2>1 DEF BegunInv
  <1>13. ASSUME NEW i \in DOMAIN lost_msg_list', Age(i)' <= LostTtl
         PROVE  \E m \in Message : StandsFor(i, m)'
    <2>1. CASE i \in DOMAIN lost_msg_list /\ lost_msg_list'[i] = lost_msg_list[i]
      <3>1. Age(i) <= LostTtl
        BY <1>1, <1>13, <2>1 DEF Age
      <3>2. PICK m \in Message : StandsFor(i, m)
        BY <1>5, <2>1, <3>1 DEF ListInv
      <3>3. m # msg
        BY <1>2, <1>7, <1>10, <3>2 DEF StandsFor, Message
      <3> QED BY <1>1, <1>2, <1>7, <1>9, <1>13, <2>1, <3>2, <3>3, StillStandsFor
    <2>2. CASE i \in Skipped(id) /\ lost_msg_list'[i] = now
      <3>1. PICK lo \in head .. msg : Skipped(id) = {(lo + k) % IdCount : k \in 0 .. (msg - lo) - 1}
        BY <1>1, <1>5, <1>10, SkippedAre
      <3>2. PICK k \in 0 .. (msg - lo) - 1 : i = (lo + k) % IdCount
        BY <2>2, <3>1
      <3>3. PICK m \in Int : m = lo + k
        BY <1>2, <1>10, <3>1
      <3>4. head <= m /\ m < msg /\ m \in Message
        <4>1. 0 <= head /\ msg \in 0 .. MaxSent - 1
          BY <1>2, <1>10 DEF Message, TypeInv
        <4> HIDE DEF msg
        <4> QED BY <1>2, <3>1, <3>2, <3>3, <4>1, BoundsAssumption DEF Message
      <3>5. dispatched'[m] = 0
        BY <1>2, <1>5, <1>9, <1>10, <3>4 DEF OnceInv
      <3>6. sent - m <= MaxGap + sent_in_unit /\ m < head'
        <4> HIDE DEF msg
        <4> QED BY <1>2, <1>4, <1>7, <3>3, <3>4, <1>10, BoundsAssumption DEF msg
      <3>7. StandsFor(m % IdCount, m)'
        BY <1>1, <1>2, <2>2, <3>2, <3>3, <3>4, <3>5, <3>6, NowStandsFor
      <3> QED BY <3>2, <3>3, <3>4, <3>7
    <2>3. CASE i = id /\ lost_msg_list'[i] = now /\ msg \in Long
      <3>1. sent - msg <= MaxGap + sent_in_unit
        BY <1>2, <1>7, <1>10, BoundsAssumption
      <3>2. StandsFor(msg % IdCount, msg)'
        BY <1>1, <1>2, <1>7, <1>10, <2>3, <3>1, NowStandsFor
      <3> QED BY <1>10, <2>3, <3>2
    <2> QED BY <1>8, <1>9, <1>13, <2>1, <2>2, <2>3
  <1> QED BY <1>11, <1>12, <1>13 DEF Clean, ListInv

(* The FRAGMENT timer.                                                     *)
LEMMA TimerStep ==
    ASSUME Inv, NEW m \in Long, FragmentTimer(m)
    PROVE  Inv'
  <1> DEFINE id == m % IdCount
  <1>0. TypeInv /\ m \in Message /\ m \in Int
    BY BoundsAssumption DEF Inv, Message
  <1>1. /\ m \in begun /\ sent - m <= RepeatSpan /\ id \notin DOMAIN lost_msg_list
        /\ lost_msg_list' = Refreshed(lost_msg_list, id)
        /\ UNCHANGED <<sent, sent_in_unit, channel, now, next_rx_msg_id, begun, head, dispatched, strayed>>
    BY DEF FragmentTimer
  <1>2. /\ DOMAIN lost_msg_list' = DOMAIN lost_msg_list \cup {id} /\ lost_msg_list'[id] = now
        /\ \A i \in DOMAIN lost_msg_list : lost_msg_list'[i] = lost_msg_list[i]
    BY <1>1 DEF Refreshed
  <1>3. TypeInv'
    <2>1. now \in 0 .. now
      BY <1>0 DEF TypeInv
    <2> QED BY <1>0, <1>1, <1>2, <2>1 DEF TypeInv
  <1>4. ChannelInv' /\ RepeatInv' /\ UnitInv' /\ ExpectInv'
    BY <1>1 DEF Inv, ChannelInv, InFlight, RepeatInv, UnitInv, ExpectInv, Expected
  <1>5. ASSUME ~strayed PROVE Clean'
    <2>1. OnceInv /\ BegunInv /\ ListInv
      BY <1>5 DEF Inv, Clean
    <2>2. OnceInv' /\ BegunInv'
      BY <1>1, <2>1 DEF OnceInv, BegunInv
    <2>3. ASSUME NEW i \in DOMAIN lost_msg_list', Age(i)' <= LostTtl
          PROVE  \E n \in Message : StandsFor(i, n)'
      <3>1. CASE i \in DOMAIN lost_msg_list
        <4>1. lost_msg_list'[i] = lost_msg_list[i] /\ Age(i) <= LostTtl
          BY <1>1, <1>2, <2>3, <3>1 DEF Age
        <4>2. PICK n \in Message : StandsFor(i, n)
          BY <2>1, <3>1, <4>1 DEF ListInv
        <4>3. head <= head'
          BY <1>0, <1>1 DEF TypeInv
        <4> QED BY <1>0, <1>1, <1>3, <2>3, <3>1, <4>1, <4>2, <4>3, StillStandsFor
      <3>2. CASE i = id
        <4>1. m < head' /\ sent - m <= RepeatSpan + sent_in_unit
          BY <1>0, <1>1, <2>1, BoundsAssumption DEF BegunInv, TypeInv
        <4>2. StandsFor(m % IdCount, m)'
          BY <1>0, <1>1, <1>2, <1>3, <4>1, NowStandsFor
        <4> QED BY <1>0, <3>2, <4>2
      <3> QED BY <1>2, <2>3, <3>1, <3>2
    <2> QED BY <2>2, <2>3 DEF Clean, ListInv
  <1> QED BY <1>1, <1>3, <1>4, <1>5 DEF Inv

-----------------------------------------------------------------------------
LEMMA InitInv == Init => Inv
  <1> SUFFICES ASSUME Init PROVE Inv
    OBVIOUS
  <1> USE DEF Init
  <1>0. Start \in Int /\ 0 <= Start
    BY BoundsAssumption
  <1>1. TypeInv
    <2>1. dispatched \in [Message -> 0 .. 2]
      OBVIOUS
    <2>2. strayed \in BOOLEAN
      OBVIOUS
    <2>4. begun \subseteq Long /\ DOMAIN lost_msg_list = {}
      OBVIOUS
    <2>3. channel \in Seq(Packet)
      OBVIOUS
    <2> QED BY <2>1, <2>2, <2>3, <2>4, BoundsAssumption, TimesAssumption DEF TypeInv
  <1>2. ChannelInv
    BY BoundsAssumption DEF ChannelInv, InFlight
  <1>3. RepeatInv /\ UnitInv
    BY BoundsAssumption DEF RepeatInv, UnitInv
  <1>4. ExpectInv
    <2>1. Expected(head)
      BY <1>0, BoundsAssumption, TimesAssumption DEF Expected
    <2> QED BY <1>0, <2>1 DEF ExpectInv
  <1>5. Clean
    BY <1>0 DEF Clean, OnceInv, BegunInv, ListInv, Message
  <1> QED BY <1>1, <1>2, <1>3, <1>4, <1>5 DEF Inv

LEMMA NextInv == Inv /\ [Next]_vars => Inv'
  <1> SUFFICES ASSUME Inv, [Next]_vars PROVE Inv'
    OBVIOUS
  <1>1. CASE UNCHANGED vars
    BY <1>1 DEF vars, Inv, TypeInv, ChannelInv, InFlight, RepeatInv, UnitInv, ExpectInv, Expected,
         Clean, OnceInv, BegunInv, ListInv, StandsFor, Age
  <1>2. CASE internal_process_message
    <2>1. TypeInv' /\ ChannelInv' /\ RepeatInv' /\ UnitInv' /\ ExpectInv'
      BY <1>2, ReceiveFrame, ExpectStep
    <2>2. ASSUME ~strayed' PROVE Clean'
      BY <1>2, <2>2, OldStep, NewStep
    <2> QED BY <2>1, <2>2 DEF Inv
  <1>3. CASE \E m \in Long : Continue(m) \/ FragmentTimer(m)
    <2>1. PICK m \in Long : Continue(m) \/ FragmentTimer(m)
      BY <1>3
    <2>2. m \in Message
      BY BoundsAssumption DEF Message
    <2> QED BY <2>1, <2>2, RepeatStep, TimerStep
  <1> QED BY <1>1, <1>2, <1>3, SendStep, RepeatStep, LoseStep, TickStep DEF Next

(* The invariant holds: types and the channel whatever the fragments do,   *)
(* the list and the deliveries until one strays.                           *)
THEOREM InvHolds == Spec => []Inv
  BY InitInv, NextInv, PTL DEF Spec

(* No message of one packet gets past internal_process_message twice,      *)
(* however often it is repeated, until a fragment strays.                  *)
THEOREM NoMessageTwice == Spec => []AtMostOnce
  <1>1. Inv => AtMostOnce
    BY DEF Inv, Clean, OnceInv, AtMostOnce
  <1> QED BY InvHolds, <1>1, PTL

(* next_rx_msg_id_ follows the newest original, across gaps and wraps, and *)
(* after a fragment that moved it back.                                    *)
THEOREM NextIsExpected == Spec => ExpectsNext
  <1> DEFINE A == head' # head \/ ~strayed' => next_rx_msg_id' = head' % IdCount
  <1>1. Inv /\ [Next]_vars => [A]_vars
    <2> SUFFICES ASSUME Inv, Next, head' # head \/ ~strayed'
                 PROVE  next_rx_msg_id' = head' % IdCount
      OBVIOUS
    <2>1. CASE ~strayed'
      <3>1. Inv'
        BY NextInv
      <3> QED BY <2>1, <3>1 DEF Inv, ExpectInv, Expected
    <2>2. CASE head' # head
      <3>1. internal_process_message
        BY <2>2 DEF Next, Send, Repeat, Continue, FragmentTimer, Lose, Tick, receiver
      <3>2. channel[1].kind = "original"
        BY <2>2, <3>1, ReceiveFrame
      <3>3. PICK b \in Int : Expected(b)
        BY DEF Inv, ExpectInv
      <3> QED BY <3>1, <3>2, <3>3, OriginalIsReceived
    <2> QED BY <2>1, <2>2
  <1> QED BY InvHolds, <1>1, PTL DEF Spec, ExpectsNext

-----------------------------------------------------------------------------
(* Skipped messages. *)

(* Messages less than IdCount before the newest have ids of their own.     *)
LEMMA OldKeeps ==
    ASSUME Inv, internal_process_message, channel[1].kind # "original", NEW m \in Message
    PROVE  StaysExpected(m)
  <1>0. PICK p \in Packet : p = channel[1] /\ p.msg \in Message /\ p.msg \in Int
    BY FourWays, FirstPacket DEF Inv
  <1> DEFINE id == p.msg % IdCount
  <1>1. /\ channel # <<>>
        /\ Dropped(p, id) \/ FromPast(p, id) \/ FromGap(p, id) \/ AtExpected(p, id)
    BY <1>0, FourWays
  <1>2. p.kind \in {"continued", "repeated"}
    BY <1>0 DEF Packet
  <1>3. head' = head /\ head \in Int /\ m \in Int /\ sent \in Int /\ head <= sent
    BY ReceiveFrame DEF Inv, TypeInv, Message
  <1> SUFFICES ASSUME ~strayed', m < head, head - m <= Window + 1, dispatched'[m] = 0,
                      is_lost_message(m % IdCount)
               PROVE  m % IdCount \in DOMAIN lost_msg_list'
    BY <1>3 DEF StaysExpected
  <1>4. ~FromGap(p, id) /\ ~strayed
    <2>1. ~FromGap(p, id)
      <3> SUFFICES ASSUME FromGap(p, id) PROVE FALSE
        OBVIOUS
      <3>1. p.kind # "repeated" /\ strayed' = (strayed \/ p.kind = "continued")
        BY DEF FromGap
      <3>2. p.kind = "continued"
        BY <1>2, <3>1
      <3> QED BY <3>1, <3>2
    <2>2. strayed' = strayed
      BY <1>1, <2>1 DEF Dropped, FromPast, AtExpected
    <2> QED BY <2>1, <2>2
  <1>5. TypeInv /\ RepeatInv /\ ListInv
    BY <1>4 DEF Inv, Clean
  <1>6. p.msg < sent /\ sent - p.msg <= RepeatSpan + Rate /\ RepeatSpan + Rate < IdCount
    BY <1>0, <1>1, <1>5, OldIsRecent
  <1>7. m % IdCount \in DOMAIN lost_msg_list
    BY DEF is_lost_message
  <1>8. CASE m % IdCount # id
    <2>1. m % IdCount \in DOMAIN WithoutId(id)
      BY <1>7, <1>8, WithoutIs
    <2>2. CASE Dropped(p, id)
      BY <2>1, <2>2 DEF Dropped
    <2>3. CASE FromPast(p, id)
      <3>1. LetThrough(p, WithoutId(id), id)
        BY <2>3 DEF FromPast
      <3>2. \A i \in DOMAIN WithoutId(id) : i \in DOMAIN lost_msg_list'
        BY <3>1, LetThroughKeeps
      <3> QED BY <2>1, <3>2
    <2>4. CASE AtExpected(p, id)
      <3>1. LetThrough(p, lost_msg_list, id)
        BY <2>4 DEF AtExpected
      <3>2. \A i \in DOMAIN lost_msg_list : i \in DOMAIN lost_msg_list'
        BY <3>1, LetThroughKeeps
      <3> QED BY <1>7, <3>2
    <2> QED BY <1>1, <1>4, <2>2, <2>3, <2>4
  <1>9. CASE m % IdCount = id
    <2>1. is_lost_message(id)
      BY <1>9
    <2>2. StandsFor(id, p.msg)
      BY <1>0, <1>1, <1>5, <2>1, RepeatIsOwn
    <2>3. m = p.msg
      <3>1. p.msg < head
        BY <2>2 DEF StandsFor
      <3>2. 2 * Window < IdCount /\ Window \in Nat /\ 0 < Window /\ IdCount \in Nat
        BY IdsAssumption
      <3>3. RepeatSpan \in Int /\ Rate \in Int
        BY BoundsAssumption, TimesAssumption
      <3>4. m - p.msg < IdCount /\ p.msg - m < IdCount
        BY <1>0, <1>3, <1>6, <3>1, <3>2, <3>3
      <3> QED BY <1>0, <1>3, <1>9, <3>4, SameId
    <2>4. ~Dropped(p, id)
      BY <2>1 DEF Dropped
    <2>5. PICK L : LetThrough(p, L, id)
      BY <1>1, <1>4, <2>4 DEF FromPast, AtExpected
    <2>6. AwaitRest(p, L, id)
      <3>1. ~Dispatch(p, L)
        <4> SUFFICES ASSUME Dispatch(p, L) PROVE FALSE
          OBVIOUS
        <4>1. dispatched' = [dispatched EXCEPT ![p.msg] = IF @ = 0 THEN 1 ELSE 2]
          BY DEF Dispatch
        <4>2. dispatched'[p.msg] # 0
          BY <1>0, <1>5, <4>1 DEF TypeInv
        <4> QED BY <2>3, <4>2
      <3> QED BY <2>5, <3>1 DEF LetThrough
    <2>7. id \in DOMAIN lost_msg_list'
      BY <2>6 DEF AwaitRest, Refreshed
    <2> QED BY <1>9, <2>7
  <1> QED BY <1>8, <1>9

LEMMA NewKeeps ==
    ASSUME Inv, internal_process_message, channel[1].kind = "original", NEW m \in Message
    PROVE  StaysExpected(m)
  <1>0. PICK p \in Packet : p = channel[1] /\ p.msg \in Message /\ p.msg \in Int
    BY FourWays, FirstPacket DEF Inv
  <1> DEFINE msg == p.msg
             id == msg % IdCount
             i == m % IdCount
  <1>1. ExpectInv /\ TypeInv /\ channel # <<>>
    BY FourWays DEF Inv
  <1>2. PICK b \in Int : Expected(b) /\ (~strayed => b = head)
    BY <1>1 DEF ExpectInv
  <1>3. /\ strayed' = strayed /\ head' = msg + 1
        /\ \/ msg # b /\ LetThrough(p, fill_lost_msg(id), id)
           \/ msg = b /\ LetThrough(p, lost_msg_list, id)
    BY <1>0, <1>2, OriginalIsReceived
  <1>4. msg - head \in 0 .. MaxGap /\ msg < sent /\ id \in 0 .. IdCount - 1
    BY <1>0, <1>1, <1>2, OriginalIsNew
  <1>5. m \in Int /\ head \in Int /\ sent \in Int /\ head <= msg /\ now \in Nat
    <2>1. m \in Int /\ head \in Int /\ sent \in Int /\ now \in Nat
      BY <1>1 DEF TypeInv, Message
    <2> QED BY <1>0, <1>4, <2>1
  <1>6. i \in 0 .. IdCount - 1
    BY <1>5, ModRange
  <1> SUFFICES ASSUME ~strayed', m < head', head' - m <= Window + 1, dispatched'[m] = 0
               PROVE  /\ m < head /\ is_lost_message(i) => i \in DOMAIN lost_msg_list'
                      /\ m >= head => i \in DOMAIN lost_msg_list' /\ lost_msg_list'[i] = now
    BY DEF StaysExpected
  <1>7. ~strayed /\ b = head /\ ListInv
    BY <1>2, <1>3 DEF Inv, Clean
  (* A message that is incomplete is listed now.                           *)
  <1>9. CASE m = msg
    <2>1. PICK L : LetThrough(p, L, id)
      BY <1>3
    <2>2. AwaitRest(p, L, id)
      <3>1. ~Dispatch(p, L)
        <4> SUFFICES ASSUME Dispatch(p, L) PROVE FALSE
          OBVIOUS
        <4>1. dispatched' = [dispatched EXCEPT ![p.msg] = IF @ = 0 THEN 1 ELSE 2]
          BY DEF Dispatch
        <4>2. dispatched'[p.msg] # 0
          BY <1>0, <1>1, <4>1 DEF TypeInv
        <4> QED BY <1>9, <4>2
      <3> QED BY <2>1, <3>1 DEF LetThrough
    <2>3. id \in DOMAIN lost_msg_list' /\ lost_msg_list'[id] = now
      BY <2>2 DEF AwaitRest, Refreshed
    <2> QED BY <1>9, <2>3
  <1>10. CASE m # msg
    <2>1. m < msg /\ msg - m <= Window
      BY <1>0, <1>3, <1>5, <1>10, IdsAssumption
    <2>2. ASSUME m < head, is_lost_message(i) PROVE i \in DOMAIN lost_msg_list'
      <3>1. i \in DOMAIN lost_msg_list /\ Age(i) <= LostTtl
        BY <1>1, <2>2, TimesAssumption DEF is_lost_message, TypeInv, Age
      <3>2. CASE LetThrough(p, lost_msg_list, id)
        <4>1. \A j \in DOMAIN lost_msg_list : j \in DOMAIN lost_msg_list'
          BY <3>2, LetThroughKeeps
        <4> QED BY <3>1, <4>1
      <3>3. CASE LetThrough(p, fill_lost_msg(id), id)
        <4> DEFINE d == msg - m
        <4>1. d \in 1 .. Window /\ -d \in Int /\ -IdCount < -d /\ -d < IdCount /\ m = msg + -d
          BY <1>0, <1>5, <2>1, IdsAssumption
        <4>2. i = IF id + -d >= IdCount THEN id + -d - IdCount
                  ELSE IF id + -d < 0 THEN id + -d + IdCount ELSE id + -d
          <5> HIDE DEF d
          <5> QED BY <1>0, <4>1, ModShift
        <4>3. (id - Window) % IdCount = IF id - Window < 0 THEN id - Window + IdCount ELSE id - Window
          <5>1. -Window \in Int /\ -IdCount < -Window /\ -Window < IdCount /\ id \in Int
            BY <1>4, IdsAssumption
          <5>2. id % IdCount = id
            BY <1>4, ModSmall
          <5> HIDE DEF id
          <5>3. (id + -Window) % IdCount
                   = IF id + -Window >= IdCount THEN id + -Window - IdCount
                     ELSE IF id + -Window < 0 THEN id + -Window + IdCount ELSE id + -Window
            BY <5>1, <5>2, ModShift
          <5>4. id + -Window = id - Window /\ id + -Window < IdCount
            BY <1>4, <5>1, IdsAssumption
          <5> QED BY <5>1, <5>3, <5>4, IdsAssumption
        <4>4. ~((id - Window) % IdCount > i /\ i > id)
          <5> HIDE DEF id, i, d
          <5> QED BY <1>4, <1>6, <4>1, <4>2, <4>3, IdsAssumption
        <4>5. i \in Kept(id)
          BY <3>1, <4>4 DEF Kept
        <4>6. i \in DOMAIN fill_lost_msg(id)
          BY <4>5, FillIs
        <4>7. \A j \in DOMAIN fill_lost_msg(id) : j \in DOMAIN lost_msg_list'
          BY <3>3, LetThroughKeeps
        <4> QED BY <4>6, <4>7
      <3> QED BY <1>3, <3>2, <3>3
    <2>3. ASSUME m >= head PROVE i \in DOMAIN lost_msg_list' /\ lost_msg_list'[i] = now
      <3>1. LetThrough(p, fill_lost_msg(id), id)
        <4>1. msg # head
          BY <1>0, <1>5, <2>1, <2>3
        <4> QED BY <1>3, <1>7, <4>1
      <3>2. i \in Skipped(id)
        <4>1. PICK lo \in head .. msg :
                 /\ lo = head \/ lo = msg - Window
                 /\ Skipped(id) = {(lo + k) % IdCount : k \in 0 .. (msg - lo) - 1}
          BY <1>0, <1>1, <1>7, SkippedAre
        <4>2. PICK k \in 0 .. (msg - lo) - 1 : m = lo + k
          <5>1. m - lo \in 0 .. (msg - lo) - 1 /\ m = lo + (m - lo)
            BY <1>0, <1>5, <2>1, <2>3, <4>1, IdsAssumption
          <5> QED BY <5>1
        <4> QED BY <4>1, <4>2
      <3>3. i \notin Kept(id)
        <4> SUFFICES ASSUME i \in Kept(id) PROVE FALSE
          OBVIOUS
        <4>1. i \in DOMAIN lost_msg_list /\ Age(i) <= LostTtl
          BY DEF Kept
        <4>2. PICK n \in Message : StandsFor(i, n)
          BY <1>7, <4>1 DEF ListInv
        <4>3. n \in Int /\ n < head /\ n % IdCount = m % IdCount
          BY <4>2 DEF StandsFor, Message
        <4>4. sent - n <= IdCount
          BY <1>1, <4>1, <4>2, ListedIsRecent
        <4>5. m - n < IdCount /\ n - m < IdCount /\ n # m
          BY <1>0, <1>4, <1>5, <2>1, <2>3, <4>3, <4>4, IdsAssumption
        <4> QED BY <1>5, <4>3, <4>5, SameId
      <3>4. i \in DOMAIN fill_lost_msg(id) /\ fill_lost_msg(id)[i] = now
        BY <3>2, <3>3, FillIs
      <3>5. \A j \in DOMAIN fill_lost_msg(id) :
               /\ j \in DOMAIN lost_msg_list'
               /\ lost_msg_list'[j] = fill_lost_msg(id)[j] \/ lost_msg_list'[j] = now
        BY <3>1, LetThroughKeeps
      <3> QED BY <3>4, <3>5
    <2> QED BY <2>2, <2>3
  <1> QED BY <1>9, <1>10

(* A skipped message goes on lost_msg_list_ and stays expected, through    *)
(* every further gap, wrap and fragment, until a fragment strays.          *)
THEOREM SkippedStaysListed == Spec => SkippedIsExpected
  <1>1. Inv /\ [Next]_vars => [\A m \in Message : StaysExpected(m)]_vars
    <2> SUFFICES ASSUME Inv, Next, NEW m \in Message PROVE StaysExpected(m)
      OBVIOUS
    <2>1. CASE internal_process_message
      BY <2>1, OldKeeps, NewKeeps
    <2>2. CASE ~internal_process_message
      <3>1. head' = head /\ DOMAIN lost_msg_list \subseteq DOMAIN lost_msg_list'
        BY <2>2 DEF Next, Send, Lose, Tick, Repeat, Continue, FragmentTimer, Refreshed, receiver
      <3>2. m \in Int /\ head \in Int
        BY DEF Message, Inv, TypeInv
      <3> QED BY <3>1, <3>2 DEF StaysExpected, is_lost_message
    <2> QED BY <2>1, <2>2
  <1> QED BY InvHolds, <1>1, PTL DEF Spec, SkippedIsExpected
=============================================================================
