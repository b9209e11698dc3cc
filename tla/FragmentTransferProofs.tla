------------------------ MODULE FragmentTransferProofs ------------------------
(***************************************************************************)
(* Theorems about FragmentTransfer, for every size of the message above    *)
(* the default fragment size, any first fragment size and any losses.      *)
(*                                                                         *)
(* The two conditions are the ones without which TLC finds a message       *)
(* delivered twice: no timer goes off before the answer it waits for, and  *)
(* the message is longer than max_fragment_size_ may become, so that a     *)
(* message once fragmented is never sent plain again.                      *)
(*                                                                         *)
(* Of the message queued at the sender, its packets and the queries for it *)
(* there is then one at a time (OneAtATime); while it is sent plain the    *)
(* receiver has no Fragmented_Message (PlainInv); and once it is           *)
(* delivered, all that is still on its way is repeated, and the id is not  *)
(* lost (DeliveredInv), unless an old fragment was taken for a new         *)
(* message.                                                                *)
(***************************************************************************)
EXTENDS FragmentTransfer, WellFoundedInduction, TLAPS

LongMessage == MaxData < FullSize /\ MinTx < FullSize

Kinds == {"fragment", "plain", "remove", "newer"}
Packet == [kind : Kinds, pos : Nat, len : Int, size : Nat, repeated : BOOLEAN]
QueryPacket == [pos : Nat, len : 0 .. FullSize - 1]

IsPart(p) == p.kind \in {"fragment", "plain"}

TypeInv ==
    /\ tx \in {"queued", "waiting", "gone"} /\ fragment_size \in Nat /\ pos \in Nat
    /\ repeated \in BOOLEAN
    /\ to_rx \in Seq(Packet) /\ to_tx \in Seq(QueryPacket)
    /\ missing \in SUBSET Byte /\ max_fragment \in 0 .. FullSize - 1
    /\ lost \in {"no", "fresh", "old"}
    /\ window \in {"before", "past", "wrapped", "behind"}
    /\ delivered \in 0 .. 2 /\ strayed \in BOOLEAN

(* The message is queued, or one packet or one query of it is on its way.  *)
OneAtATime ==
    /\ \A i, j \in DOMAIN to_rx : IsPart(to_rx[i]) /\ IsPart(to_rx[j]) => i = j
    /\ Len(to_tx) <= 1
    /\ tx = "queued" => to_tx = <<>>
    /\ \A i \in DOMAIN to_rx : IsPart(to_rx[i]) => tx # "queued" /\ to_tx = <<>>

PlainInv ==
    /\ ~IsFragmented => missing = {} /\ to_tx = <<>>
    /\ \A i \in DOMAIN to_rx :
         /\ to_rx[i].kind = "plain" => ~IsFragmented
         /\ to_rx[i].kind = "fragment" => IsFragmented /\ to_rx[i].size < FullSize

DeliveredInv ==
    /\ window = "before" => missing = {} /\ lost = "no" /\ ~strayed
    /\ ~strayed => delivered <= 1
    /\ ~strayed /\ delivered = 1 =>
         /\ missing = {} /\ lost = "no" /\ window # "before"
         /\ tx = "queued" => repeated
         /\ \A i \in DOMAIN to_rx : IsPart(to_rx[i]) => to_rx[i].repeated
         /\ \A i \in DOMAIN to_tx : to_tx[i].pos = FullSize

Inv == TypeInv /\ OneAtATime /\ PlainInv /\ DeliveredInv

-----------------------------------------------------------------------------
(* The queues. *)

LEMMA TailIs ==
    ASSUME NEW S, NEW q \in Seq(S), q # <<>>
    PROVE  /\ DOMAIN q = 1 .. Len(q) /\ Len(q) \in Nat \ {0} /\ q[1] \in S
           /\ Tail(q) \in Seq(S) /\ Len(Tail(q)) = Len(q) - 1
           /\ DOMAIN Tail(q) = 1 .. Len(q) - 1
           /\ \A i \in 1 .. Len(q) - 1 : Tail(q)[i] = q[i + 1]
  OBVIOUS

LEMMA AppendIs ==
    ASSUME NEW S, NEW q \in Seq(S), NEW x \in S
    PROVE  /\ Append(q, x) \in Seq(S) /\ DOMAIN q = 1 .. Len(q) /\ Len(q) \in Nat
           /\ Len(Append(q, x)) = Len(q) + 1
           /\ DOMAIN Append(q, x) = 1 .. Len(q) + 1
           /\ \A i \in 1 .. Len(q) : Append(q, x)[i] = q[i]
           /\ Append(q, x)[Len(q) + 1] = x
  OBVIOUS

(* A packet leaves to_rx: what is left was behind it.                      *)
LEMMA PacketLeaves ==
    ASSUME Inv, to_rx # <<>>, to_rx' = Tail(to_rx)
    PROVE  /\ to_rx[1] \in Packet /\ 1 \in DOMAIN to_rx /\ to_rx' \in Seq(Packet)
           /\ \A i \in DOMAIN to_rx' : i + 1 \in DOMAIN to_rx /\ to_rx'[i] = to_rx[i + 1]
           /\ \A i, j \in DOMAIN to_rx' : IsPart(to_rx'[i]) /\ IsPart(to_rx'[j]) => i = j
           /\ IsPart(to_rx[1]) => \A i \in DOMAIN to_rx' : ~IsPart(to_rx'[i])
  <1>1. to_rx \in Seq(Packet)
    BY DEF Inv, TypeInv
  <1>2. /\ DOMAIN to_rx = 1 .. Len(to_rx) /\ Len(to_rx) \in Nat \ {0} /\ to_rx[1] \in Packet
        /\ to_rx' \in Seq(Packet) /\ DOMAIN to_rx' = 1 .. Len(to_rx) - 1
        /\ \A i \in 1 .. Len(to_rx) - 1 : to_rx'[i] = to_rx[i + 1]
    BY <1>1, TailIs
  <1>3. \A i \in DOMAIN to_rx' : i + 1 \in DOMAIN to_rx /\ to_rx'[i] = to_rx[i + 1] /\ i + 1 # 1
    BY <1>2
  <1>4. \A i, j \in DOMAIN to_rx : IsPart(to_rx[i]) /\ IsPart(to_rx[j]) => i = j
    BY DEF Inv, OneAtATime
  <1>5. ASSUME NEW i \in DOMAIN to_rx', NEW j \in DOMAIN to_rx',
               IsPart(to_rx'[i]), IsPart(to_rx'[j])
        PROVE  i = j
    <2>1. i + 1 = j + 1
      BY <1>3, <1>4, <1>5
    <2> QED BY <1>2, <2>1
  <1> QED BY <1>2, <1>3, <1>4, <1>5

(* A packet is added to it: the rest stays.                                *)
LEMMA PacketEnters ==
    ASSUME Inv, NEW p \in Packet, to_rx' = Append(to_rx, p)
    PROVE  /\ to_rx' \in Seq(Packet)
           /\ \A i \in DOMAIN to_rx' : to_rx'[i] = p \/ (i \in DOMAIN to_rx /\ to_rx'[i] = to_rx[i])
           /\ ~IsPart(p) \/ (\A i \in DOMAIN to_rx : ~IsPart(to_rx[i])) =>
                \A i, j \in DOMAIN to_rx' : IsPart(to_rx'[i]) /\ IsPart(to_rx'[j]) => i = j
  <1>1. to_rx \in Seq(Packet)
    BY DEF Inv, TypeInv
  <1>2. /\ to_rx' \in Seq(Packet) /\ DOMAIN to_rx = 1 .. Len(to_rx) /\ Len(to_rx) \in Nat
        /\ DOMAIN to_rx' = 1 .. Len(to_rx) + 1
        /\ \A i \in 1 .. Len(to_rx) : to_rx'[i] = to_rx[i]
        /\ to_rx'[Len(to_rx) + 1] = p
    BY <1>1, AppendIs
  <1>3. \A i \in DOMAIN to_rx' :
           \/ i = Len(to_rx) + 1 /\ to_rx'[i] = p
           \/ i \in DOMAIN to_rx /\ to_rx'[i] = to_rx[i]
    BY <1>2
  <1>4. \A i, j \in DOMAIN to_rx : IsPart(to_rx[i]) /\ IsPart(to_rx[j]) => i = j
    BY DEF Inv, OneAtATime
  <1> QED BY <1>2, <1>3, <1>4

(* The queue of queries has at most one.                                   *)
LEMMA QueryLeaves ==
    ASSUME Inv, to_tx # <<>>, to_tx' = Tail(to_tx)
    PROVE  to_tx[1] \in QueryPacket /\ 1 \in DOMAIN to_tx /\ to_tx' = <<>>
  <1>1. to_tx \in Seq(QueryPacket) /\ Len(to_tx) <= 1
    BY DEF Inv, TypeInv, OneAtATime
  <1>2. /\ DOMAIN to_tx = 1 .. Len(to_tx) /\ Len(to_tx) \in Nat \ {0}
        /\ to_tx[1] \in QueryPacket
        /\ to_tx' \in Seq(QueryPacket) /\ Len(to_tx') = Len(to_tx) - 1
    BY <1>1, TailIs
  <1>3. Len(to_tx') = 0
    BY <1>1, <1>2
  <1> QED BY <1>2, <1>3

LEMMA QueryEnters ==
    ASSUME to_tx = <<>>, NEW q \in QueryPacket, to_tx' = Append(to_tx, q)
    PROVE  /\ to_tx' \in Seq(QueryPacket) /\ Len(to_tx') <= 1 /\ to_tx' # <<>>
           /\ \A i \in DOMAIN to_tx' : to_tx'[i] = q
  <1>1. to_tx \in Seq(QueryPacket) /\ Len(to_tx) = 0
    OBVIOUS
  <1> QED BY <1>1, AppendIs

-----------------------------------------------------------------------------
(* The parts that are asked for. *)

LEMMA MinIs ==
    ASSUME NEW S \in SUBSET Nat, S # {}
    PROVE  Min(S) \in S
  <1>1. PICK x \in S : \A y \in S : ~(<<y, x>> \in OpToRel(<, Nat))
    BY WFMin, NatLessThanWellFounded
  <1>2. ASSUME NEW y \in S PROVE x <= y
    <2>1. y < x => <<y, x>> \in OpToRel(<, Nat)
      BY Zenon DEF OpToRel
    <2>2. ~(y < x) /\ x \in Nat /\ y \in Nat
      BY <1>1, <2>1
    <2> QED BY <2>2
  <1> QED BY <1>2 DEF Min

(* A query is for a byte of the message and never for the whole of it.     *)
LEMMA NextPartIs ==
    ASSUME NEW S \in SUBSET Byte, S # {}, NEW size \in 0 .. FullSize - 1
    PROVE  NextPart(S, size) \in QueryPacket
  <1>1. FullSize \in Nat \ {0}
    BY SizesAssumption
  <1>2. Start(S) \in Byte
    <2>1. S \in SUBSET Nat
      BY <1>1 DEF Byte
    <2> QED BY <2>1, MinIs DEF Start
  <1> DEFINE N == {n \in 1 .. FullSize : Start(S) + n \notin S}
  <1>3. FullSize \in N
    BY <1>1, <1>2 DEF Byte
  <1>4. RunLength(S) \in N
    <2>1. N \in SUBSET Nat
      BY <1>1
    <2>2. Min(N) \in N
      <3> HIDE DEF N
      <3> QED BY <1>3, <2>1, MinIs
    <2> QED BY <2>2 DEF RunLength
  <1>5. RunLength(S) \in 1 .. FullSize
    BY <1>4
  <1>6. Smaller(RunLength(S), size) \in 0 .. FullSize - 1
    BY <1>1, <1>5 DEF Smaller
  <1>7. Start(S) \in Nat
    BY <1>1, <1>2 DEF Byte
  <1> QED BY <1>6, <1>7 DEF NextPart, QueryPacket

LEMMA DoneIs == Done \in QueryPacket /\ Done.pos = FullSize
  BY SizesAssumption DEF Done, QueryPacket

(* The sizes stay below that of the message.                               *)
LEMMA SizesStay ==
    ASSUME LongMessage, NEW size \in Nat
    PROVE  /\ Clamped(size) \in Nat
           /\ size < FullSize => Clamped(size) < FullSize
           /\ size < FullSize => Clamped(size \div 2) < FullSize
           /\ Clamped(size \div 2) \in Nat
           /\ size < FullSize => Grown(size) \in 0 .. FullSize - 1
           /\ size < FullSize => Larger(size \div 2, MinRx) \in 0 .. FullSize - 1
  <1>1. size \div 2 \in Nat /\ size \div 2 <= size /\ size \div 5 \in Nat
    OBVIOUS
  <1>2. /\ FullSize \in Nat /\ MinTx \in Nat /\ MinRx \in Nat /\ MaxData \in Nat
        /\ MaxPacket \in Nat /\ MinRx <= MaxData
        /\ MaxData < FullSize /\ MinTx < FullSize
    BY SizesAssumption DEF LongMessage
  <1> DEFINE half == size \div 2
             fifth == size \div 5
  <1>3. half \in Nat /\ half <= size /\ fifth \in Nat
    BY <1>1
  <1> HIDE DEF half, fifth
  <1>4. /\ Clamped(size) \in Nat /\ Clamped(half) \in Nat
        /\ size < FullSize => Clamped(size) < FullSize /\ Clamped(half) < FullSize
    BY <1>2, <1>3 DEF Clamped, Smaller, Larger
  <1>5. size < FullSize => Larger(half, MinRx) \in 0 .. FullSize - 1
    BY <1>2, <1>3 DEF Larger
  <1>6. size < FullSize =>
           (IF size < MaxData THEN Smaller(size + fifth, MaxData) ELSE size) \in 0 .. FullSize - 1
    BY <1>2, <1>3 DEF Smaller
  <1> QED BY <1>4, <1>5, <1>6 DEF half, fifth, Grown

-----------------------------------------------------------------------------
(* The sender. *)

LEMMA InitInv == LongMessage /\ Init => Inv
  <1> SUFFICES ASSUME LongMessage, Init PROVE Inv
    OBVIOUS
  <1>1. DOMAIN to_rx = {} /\ DOMAIN to_tx = {} /\ Len(to_tx) = 0
    BY DEF Init
  <1>2. TypeInv
    <2>1. to_rx \in Seq(Packet) /\ to_tx \in Seq(QueryPacket)
      BY DEF Init
    <2>2. fragment_size \in Nat /\ pos \in Nat /\ max_fragment \in 0 .. FullSize - 1
      BY SizesAssumption DEF Init, LongMessage
    <2>3. delivered \in 0 .. 2 /\ missing \in SUBSET Byte
      BY DEF Init
    <2> QED BY <2>1, <2>2, <2>3, Zenon DEF Init, TypeInv
  <1> QED BY <1>1, <1>2 DEF Inv, Init, OneAtATime, PlainInv, DeliveredInv

LEMMA SendPartStep ==
    ASSUME LongMessage, Inv, SendPart PROVE Inv'
  <1> DEFINE from == IF IsFragmented THEN pos ELSE 0
             len == Smaller(fragment_size, FullSize - from)
             p == [kind |-> IF IsFragmented THEN "fragment" ELSE "plain",
                   pos |-> from, len |-> len, size |-> fragment_size,
                   repeated |-> repeated]
  <1>1. /\ from \in Nat /\ len \in Int /\ from + len \in Nat /\ fragment_size \in Nat
        /\ repeated \in BOOLEAN /\ FullSize \in Nat
    BY SizesAssumption DEF Inv, TypeInv, Smaller
  <1>2. p \in Packet /\ IsPart(p)
    BY <1>1 DEF Packet, Kinds, IsPart
  <1>3. /\ to_rx' = Append(to_rx, p) /\ pos' = from + len /\ tx = "queued"
        /\ tx' \in {"waiting", "gone"} /\ UNCHANGED <<fragment_size, repeated, to_tx, rxvars>>
    BY DEF SendPart
  <1>4. to_tx = <<>> /\ \A i \in DOMAIN to_rx : ~IsPart(to_rx[i])
    BY <1>3 DEF Inv, OneAtATime
  <1>5. /\ to_rx' \in Seq(Packet)
        /\ \A i \in DOMAIN to_rx' : to_rx'[i] = p \/ (i \in DOMAIN to_rx /\ to_rx'[i] = to_rx[i])
        /\ \A i, j \in DOMAIN to_rx' : IsPart(to_rx'[i]) /\ IsPart(to_rx'[j]) => i = j
    BY <1>2, <1>3, <1>4, PacketEnters
  <1>6. /\ p.kind = "plain" => ~IsFragmented
        /\ p.kind = "fragment" => IsFragmented /\ p.size < FullSize
        /\ p.repeated = repeated
    BY <1>1 DEF IsFragmented
  <1> HIDE DEF p, from, len
  <1>7. IsFragmented' = IsFragmented
    BY <1>3 DEF IsFragmented
  <1>8. TypeInv'
    BY <1>1, <1>3, <1>5 DEF Inv, TypeInv, rxvars
  <1>9. OneAtATime'
    BY <1>3, <1>4, <1>5 DEF Inv, OneAtATime
  <1>10. PlainInv'
    BY <1>3, <1>5, <1>6, <1>7 DEF Inv, PlainInv, rxvars
  <1>11. DeliveredInv'
    BY <1>3, <1>4, <1>5, <1>6 DEF Inv, DeliveredInv, rxvars
  <1> QED BY <1>8, <1>9, <1>10, <1>11 DEF Inv

LEMMA ResendStep ==
    ASSUME LongMessage, ShortRoundTrip, Inv, Resend PROVE Inv'
  <1>1. /\ to_rx = <<>> /\ to_tx = <<>> /\ tx' = "queued" /\ repeated' = TRUE
        /\ fragment_size' = Clamped(fragment_size \div 2)
        /\ UNCHANGED <<pos, to_rx, to_tx, rxvars>>
    BY DEF Resend, Quiet
  <1>2. DOMAIN to_rx = {} /\ DOMAIN to_tx = {} /\ Len(to_tx) = 0
    BY <1>1
  <1>3. fragment_size' \in Nat /\ (IsFragmented => IsFragmented')
    BY <1>1, SizesStay, SizesAssumption DEF IsFragmented, Inv, TypeInv
  <1>4. TypeInv'
    BY <1>1, <1>3 DEF Inv, TypeInv, rxvars
  <1> QED BY <1>1, <1>2, <1>3, <1>4 DEF Inv, OneAtATime, PlainInv, DeliveredInv, rxvars

LEMMA GiveUpStep ==
    ASSUME Inv, GiveUp PROVE Inv'
  BY DEF Inv, GiveUp, TypeInv, OneAtATime, PlainInv, DeliveredInv, rxvars, IsFragmented

LEMMA ShortIs ==
    /\ Removal \in Packet /\ Newer \in Packet
    /\ ~IsPart(Removal) /\ ~IsPart(Newer)
    /\ Removal.kind = "remove" /\ Newer.kind = "newer"
  <1>1. Removal \in Packet /\ Removal.kind = "remove"
    BY DEF Removal, Packet, Kinds
  <1>2. Newer \in Packet /\ Newer.kind = "newer"
    BY <1>1 DEF Newer, Packet, Kinds
  <1> QED BY <1>1, <1>2 DEF IsPart

(* A removal or a newer message is added to to_rx.                         *)
LEMMA ShortEnters ==
    ASSUME Inv, NEW p \in {Removal, Newer}, to_rx' = Append(to_rx, p)
    PROVE  /\ to_rx' \in Seq(Packet)
           /\ \A i, j \in DOMAIN to_rx' : IsPart(to_rx'[i]) /\ IsPart(to_rx'[j]) => i = j
           /\ \A i \in DOMAIN to_rx' :
                IsPart(to_rx'[i]) => i \in DOMAIN to_rx /\ to_rx'[i] = to_rx[i]
  BY ShortIs, PacketEnters

LEMMA ProcessQueryStep ==
    ASSUME LongMessage, Inv, ProcessQuery PROVE Inv'
  <1> DEFINE q == to_tx[1]
  <1>1. to_tx # <<>> /\ to_tx' = Tail(to_tx) /\ UNCHANGED <<repeated, rxvars>>
    BY DEF ProcessQuery
  <1>2. q \in QueryPacket /\ 1 \in DOMAIN to_tx /\ to_tx' = <<>>
    BY <1>1, QueryLeaves
  <1>3. IsFragmented /\ tx # "queued" /\ \A i \in DOMAIN to_rx : ~IsPart(to_rx[i])
    BY <1>1 DEF Inv, PlainInv, OneAtATime
  <1>4. q.len \in Nat /\ q.len < FullSize /\ q.pos \in Nat
    BY <1>2, SizesAssumption DEF QueryPacket
  <1>5. /\ DOMAIN to_tx' = {} /\ Len(to_tx') = 0 /\ to_tx' \in Seq(QueryPacket)
    BY <1>2
  <1>6. CASE tx = "waiting" /\ q.pos < FullSize
    <2>1. /\ tx' = "queued" /\ fragment_size' = Clamped(q.len) /\ pos' = q.pos
          /\ to_rx' = to_rx
      BY <1>6 DEF ProcessQuery
    <2>2. strayed \/ delivered # 1
      BY <1>2, <1>4, <1>6, SizesAssumption DEF Inv, DeliveredInv
    <2>3. fragment_size' \in Nat /\ IsFragmented'
      BY <1>4, <2>1, SizesStay, SizesAssumption DEF IsFragmented
    <2>4. TypeInv'
      BY <1>1, <1>4, <1>5, <2>1, <2>3 DEF Inv, TypeInv, rxvars
    <2>5. OneAtATime'
      BY <1>2, <1>3, <1>5, <2>1 DEF Inv, OneAtATime
    <2>6. PlainInv'
      BY <1>3, <2>1, <2>3 DEF Inv, PlainInv, IsPart
    <2>7. DeliveredInv'
      BY <1>1, <2>2 DEF Inv, DeliveredInv, rxvars
    <2> QED BY <2>4, <2>5, <2>6, <2>7 DEF Inv
  <1>7. CASE ~(tx = "waiting" /\ q.pos < FullSize)
    <2>1. /\ tx' \in {"gone", tx} /\ to_rx' = Append(to_rx, Removal)
          /\ UNCHANGED <<fragment_size, pos>>
      BY <1>7 DEF ProcessQuery
    <2>2. to_rx' \in Seq(Packet) /\ \A i \in DOMAIN to_rx' : ~IsPart(to_rx'[i])
      BY <1>3, <2>1, ShortEnters
    <2>3. IsFragmented'
      BY <1>3, <2>1 DEF IsFragmented
    <2>4. TypeInv'
      BY <1>1, <1>5, <2>1, <2>2 DEF Inv, TypeInv, rxvars
    <2>5. OneAtATime'
      BY <1>2, <1>5, <2>2
      DEF OneAtATime
    <2>6. PlainInv'
      BY <2>2, <2>3 DEF PlainInv, IsPart
    <2>7. DeliveredInv'
      BY <1>1, <1>3, <1>5, <2>1, <2>2 DEF Inv, DeliveredInv, rxvars
    <2> QED BY <2>4, <2>5, <2>6, <2>7 DEF Inv
  <1> QED BY <1>6, <1>7

LEMMA SendNewerStep ==
    ASSUME Inv, SendNewer PROVE Inv'
  <1>1. to_rx' = Append(to_rx, Newer) /\ UNCHANGED <<txvars, to_tx, rxvars>>
    BY DEF SendNewer
  <1>2. /\ to_rx' \in Seq(Packet)
        /\ \A i, j \in DOMAIN to_rx' : IsPart(to_rx'[i]) /\ IsPart(to_rx'[j]) => i = j
        /\ \A i \in DOMAIN to_rx' :
             IsPart(to_rx'[i]) => i \in DOMAIN to_rx /\ to_rx'[i] = to_rx[i]
    BY <1>1, ShortEnters
  <1>3. TypeInv'
    BY <1>1, <1>2 DEF Inv, TypeInv, txvars, rxvars
  <1>4. OneAtATime'
    BY <1>1, <1>2 DEF Inv, OneAtATime, txvars
  <1>5. PlainInv'
    BY <1>1, <1>2 DEF Inv, PlainInv, txvars, rxvars, IsPart, IsFragmented
  <1>6. DeliveredInv'
    BY <1>1, <1>2 DEF Inv, DeliveredInv, txvars, rxvars
  <1> QED BY <1>3, <1>4, <1>5, <1>6 DEF Inv

-----------------------------------------------------------------------------
(* The receiver. *)

(* A packet that changes nothing at the receiver but lost, or is lost.     *)
LEMMA PacketGone ==
    ASSUME Inv, to_rx # <<>>, to_rx' = Tail(to_rx), lost' \in {lost, "no"},
           UNCHANGED <<txvars, to_tx, missing, max_fragment, window, delivered, strayed>>
    PROVE  Inv'
  <1>1. /\ to_rx' \in Seq(Packet)
        /\ \A i \in DOMAIN to_rx' : i + 1 \in DOMAIN to_rx /\ to_rx'[i] = to_rx[i + 1]
        /\ \A i, j \in DOMAIN to_rx' : IsPart(to_rx'[i]) /\ IsPart(to_rx'[j]) => i = j
    BY PacketLeaves
  <1>2. TypeInv'
    BY <1>1 DEF Inv, TypeInv, txvars
  <1>3. OneAtATime'
    BY <1>1 DEF Inv, OneAtATime, txvars
  <1>4. PlainInv'
    BY <1>1 DEF Inv, PlainInv, txvars, IsFragmented
  <1>5. DeliveredInv'
    BY <1>1 DEF Inv, DeliveredInv, txvars
  <1> QED BY <1>2, <1>3, <1>4, <1>5 DEF Inv

LEMMA DropStep ==
    ASSUME Inv, Drop PROVE Inv'
  BY PacketGone DEF Drop

LEMMA LoseToRxStep ==
    ASSUME Inv, LoseToRx PROVE Inv'
  BY PacketGone DEF LoseToRx, rxvars

LEMMA LoseToTxStep ==
    ASSUME Inv, LoseToTx PROVE Inv'
  <1>1. to_tx # <<>> /\ to_tx' = Tail(to_tx) /\ UNCHANGED <<txvars, to_rx, rxvars>>
    BY DEF LoseToTx
  <1>2. to_tx' = <<>>
    BY <1>1, QueryLeaves
  <1>3. DOMAIN to_tx' = {} /\ Len(to_tx') = 0 /\ to_tx' \in Seq(QueryPacket)
    BY <1>2
  <1>4. TypeInv'
    BY <1>1, <1>3 DEF Inv, TypeInv, txvars, rxvars
  <1>5. OneAtATime'
    BY <1>1, <1>2, <1>3 DEF Inv, OneAtATime, txvars
  <1>6. PlainInv'
    BY <1>1, <1>2 DEF Inv, PlainInv, txvars, rxvars, IsFragmented
  <1>7. DeliveredInv'
    BY <1>1, <1>3 DEF Inv, DeliveredInv, txvars, rxvars
  <1> QED BY <1>4, <1>5, <1>6, <1>7 DEF Inv

(* What is let through was not delivered, and nothing else is on its way.  *)
LEMMA LetThroughIs ==
    ASSUME Inv, to_rx # <<>>, to_rx' = Tail(to_rx), IsPart(to_rx[1]), LetThrough(to_rx[1])
    PROVE  /\ ~strayed => delivered = 0
           /\ tx # "queued" /\ to_tx = <<>> /\ to_rx[1] \in Packet
           /\ to_rx' \in Seq(Packet) /\ \A i \in DOMAIN to_rx' : ~IsPart(to_rx'[i])
           /\ to_rx[1].kind = "plain" => ~IsFragmented
           /\ to_rx[1].kind = "fragment" => IsFragmented /\ to_rx[1].size < FullSize
  <1>1. /\ to_rx[1] \in Packet /\ 1 \in DOMAIN to_rx /\ to_rx' \in Seq(Packet)
        /\ \A i \in DOMAIN to_rx' : ~IsPart(to_rx'[i])
    BY PacketLeaves
  <1>2. tx # "queued" /\ to_tx = <<>>
    BY <1>1 DEF Inv, OneAtATime
  <1>3. ~strayed => delivered # 1
    <2>1. ~strayed /\ delivered = 1 => to_rx[1].repeated /\ lost = "no"
      BY <1>1 DEF Inv, DeliveredInv
    <2> QED BY <2>1 DEF LetThrough
  <1>4. ~strayed => delivered = 0
    BY <1>3 DEF Inv, TypeInv, DeliveredInv
  <1>5. /\ to_rx[1].kind = "plain" => ~IsFragmented
        /\ to_rx[1].kind = "fragment" => IsFragmented /\ to_rx[1].size < FullSize
    BY <1>1 DEF Inv, PlainInv
  <1> QED BY <1>1, <1>2, <1>4, <1>5

(* What the window does with a packet it lets through: if no fragment has  *)
(* strayed, the id is off the list afterwards, and the window is past it.  *)
LEMMA WindowIs ==
    ASSUME Inv, NEW p \in Packet, LetThrough(p), NEW w \in WindowAfter(p)
    PROVE  /\ w \in {"past", "wrapped", "behind"}
           /\ LostAfter(p, w) \in {"no", "fresh", "old"}
           /\ MissingAfter(p, w) \in {missing, {}}
           /\ StraysWith(p) \in BOOLEAN
           /\ ~StraysWith(p) => LostAfter(p, w) = "no"
  <1>1. p.repeated \in BOOLEAN
    BY DEF Packet
  <1>2. /\ lost \in {"no", "fresh", "old"}
        /\ window \in {"before", "past", "wrapped", "behind"}
        /\ window = "before" => lost = "no"
    BY DEF Inv, TypeInv, DeliveredInv
  <1>3. w \in {"past", "wrapped", "behind"}
    BY <1>1, <1>2 DEF WindowAfter, InPast, LetThrough
  <1>4. /\ LostAfter(p, w) \in {"no", "fresh", "old"}
        /\ MissingAfter(p, w) \in {missing, {}}
    BY <1>2 DEF LostAfter, MissingAfter
  <1>5. ~StraysWith(p) => LostAfter(p, w) = "no"
    BY <1>2 DEF StraysWith, LostAfter
  <1>6. StraysWith(p) \in BOOLEAN
    BY DEF StraysWith
  <1> QED BY <1>3, <1>4, <1>5, <1>6

LEMMA OnceIs ==
    ASSUME NEW n \in 0 .. 2
    PROVE  Once(n) \in 0 .. 2 /\ (n = 0 => Once(n) = 1)
  BY DEF Once, Smaller

LEMMA ProcessPlainStep ==
    ASSUME LongMessage, Inv, ProcessPlain PROVE Inv'
  <1>1. /\ to_rx # <<>> /\ to_rx' = Tail(to_rx) /\ to_rx[1].kind = "plain"
        /\ LetThrough(to_rx[1]) /\ delivered' = Once(delivered)
        /\ strayed' = (strayed \/ StraysWith(to_rx[1]))
        /\ UNCHANGED <<txvars, to_tx, max_fragment>>
    BY DEF ProcessPlain
  <1>2. IsPart(to_rx[1])
    BY <1>1 DEF IsPart
  <1>3. /\ ~strayed => delivered = 0
        /\ tx # "queued" /\ to_tx = <<>> /\ ~IsFragmented /\ to_rx[1] \in Packet
        /\ to_rx' \in Seq(Packet) /\ \A i \in DOMAIN to_rx' : ~IsPart(to_rx'[i])
    BY <1>1, <1>2, LetThroughIs
  <1>4. DOMAIN to_tx' = {} /\ Len(to_tx') = 0
    BY <1>1, <1>3
  <1>5. PICK w \in WindowAfter(to_rx[1]) :
           /\ window' = w /\ lost' = LostAfter(to_rx[1], w)
           /\ missing' = MissingAfter(to_rx[1], w)
    BY DEF ProcessPlain
  <1>6. /\ window' \in {"past", "wrapped", "behind"} /\ lost' \in {"no", "fresh", "old"}
        /\ missing' \in {missing, {}} /\ strayed' \in BOOLEAN
        /\ ~strayed' => ~strayed /\ lost' = "no"
    BY <1>1, <1>3, <1>5, WindowIs DEF Inv, TypeInv
  <1>7. missing' = {}
    BY <1>3, <1>6 DEF Inv, PlainInv
  <1>8. delivered' \in 0 .. 2 /\ (delivered = 0 => delivered' = 1)
    BY <1>1, OnceIs DEF Inv, TypeInv
  <1>9. TypeInv'
    BY <1>1, <1>3, <1>6, <1>7, <1>8 DEF Inv, TypeInv, txvars
  <1>10. OneAtATime'
    BY <1>1, <1>3, <1>4 DEF OneAtATime, txvars
  <1>11. PlainInv'
    BY <1>1, <1>3, <1>7 DEF PlainInv, txvars, IsPart
  <1>12. DeliveredInv'
    BY <1>1, <1>3, <1>4, <1>6, <1>7, <1>8 DEF DeliveredInv, txvars
  <1> QED BY <1>9, <1>10, <1>11, <1>12 DEF Inv

LEMMA ProcessFragmentStep ==
    ASSUME LongMessage, Inv, ProcessFragment PROVE Inv'
  <1> DEFINE p == to_rx[1]
  <1>1. /\ to_rx # <<>> /\ to_rx' = Tail(to_rx) /\ p.kind = "fragment"
        /\ LetThrough(p) /\ UNCHANGED txvars
        /\ strayed' = (strayed \/ StraysWith(p))
    BY DEF ProcessFragment
  <1>2. IsPart(p)
    BY <1>1 DEF IsPart
  <1>3. /\ ~strayed => delivered = 0
        /\ tx # "queued" /\ to_tx = <<>> /\ IsFragmented
        /\ p \in Packet /\ p.size < FullSize
        /\ to_rx' \in Seq(Packet) /\ \A i \in DOMAIN to_rx' : ~IsPart(to_rx'[i])
    BY <1>1, <1>2, LetThroughIs
  <1> DEFINE announced == IF p.pos = FullSize /\ p.size <= MaxPacket THEN p.size ELSE MaxData
             known(w) == MissingAfter(p, w)
             size(w) == IF known(w) = {} THEN announced ELSE max_fragment
             before(w) == IF known(w) = {} THEN Byte ELSE known(w)
             after(w) == before(w) \ (p.pos .. p.pos + p.len - 1)
  <1>4. PICK w \in WindowAfter(p) :
           /\ window' = w
           /\ IF after(w) = {}
                THEN /\ delivered' = Once(delivered) /\ missing' = {}
                     /\ lost' = LostAfter(p, w)
                     /\ to_tx' = Append(to_tx, Done) /\ max_fragment' = MaxData
                ELSE /\ missing' = after(w) /\ max_fragment' = Grown(size(w))
                     /\ lost' = "fresh" /\ delivered' = delivered
                     /\ to_tx' = Append(to_tx, NextPart(after(w), Grown(size(w))))
    BY DEF ProcessFragment
  <1>5. /\ w \in {"past", "wrapped", "behind"}
        /\ LostAfter(p, w) \in {"no", "fresh", "old"}
        /\ known(w) \in {missing, {}} /\ StraysWith(p) \in BOOLEAN
        /\ ~StraysWith(p) => LostAfter(p, w) = "no"
    BY <1>1, <1>3, WindowIs
  <1>6. strayed' \in BOOLEAN /\ (~strayed' => ~strayed /\ ~StraysWith(p))
    BY <1>1, <1>5 DEF Inv, TypeInv
  <1>7. announced \in Nat /\ announced < FullSize
    BY <1>3, SizesAssumption DEF LongMessage, Packet
  <1>8. max_fragment \in Nat /\ max_fragment < FullSize /\ missing \in SUBSET Byte
    BY SizesAssumption DEF Inv, TypeInv
  <1>9. after(w) \in SUBSET Byte
    BY <1>5, <1>8
  <1>10. size(w) \in Nat /\ size(w) < FullSize
    <2> HIDE DEF announced
    <2> QED BY <1>7, <1>8
  <1>11. Grown(size(w)) \in 0 .. FullSize - 1
    <2> HIDE DEF size
    <2> QED BY <1>10, SizesStay
  <1>12. IsFragmented'
    BY <1>1, <1>3 DEF IsFragmented, txvars
  <1>13. ASSUME to_tx' \in Seq(QueryPacket), Len(to_tx') <= 1
         PROVE  OneAtATime' /\ PlainInv'
    BY <1>1, <1>3, <1>12, <1>13 DEF OneAtATime, PlainInv, IsPart, txvars
  <1> HIDE DEF p, after, size
  <1>14. CASE after(w) = {}
    <2>1. /\ delivered' = Once(delivered) /\ missing' = {} /\ lost' = LostAfter(p, w)
          /\ to_tx' = Append(to_tx, Done) /\ max_fragment' = MaxData
      BY <1>4, <1>14
    <2>2. /\ to_tx' \in Seq(QueryPacket) /\ Len(to_tx') <= 1
          /\ \A i \in DOMAIN to_tx' : to_tx'[i].pos = FullSize
      BY <1>3, <2>1, QueryEnters, DoneIs
    <2>3. delivered' \in 0 .. 2 /\ (delivered = 0 => delivered' = 1)
      BY <2>1, OnceIs DEF Inv, TypeInv
    <2>4. TypeInv'
      BY <1>1, <1>3, <1>4, <1>5, <1>6, <2>1, <2>2, <2>3, SizesAssumption
      DEF LongMessage, Inv, TypeInv, txvars
    <2>5. DeliveredInv'
      BY <1>1, <1>3, <1>4, <1>5, <1>6, <2>1, <2>2, <2>3 DEF DeliveredInv, txvars
    <2> QED BY <1>13, <2>2, <2>4, <2>5 DEF Inv
  <1>15. CASE after(w) # {}
    <2>1. /\ missing' = after(w) /\ max_fragment' = Grown(size(w)) /\ lost' = "fresh"
          /\ to_tx' = Append(to_tx, NextPart(after(w), Grown(size(w))))
          /\ delivered' = delivered
      BY <1>4, <1>15
    <2>2. to_tx' \in Seq(QueryPacket) /\ Len(to_tx') <= 1
      BY <1>3, <1>9, <1>11, <1>15, <2>1, QueryEnters, NextPartIs
    <2>3. TypeInv'
      BY <1>1, <1>3, <1>4, <1>5, <1>6, <1>9, <1>11, <2>1, <2>2 DEF Inv, TypeInv, txvars
    <2>4. DeliveredInv'
      BY <1>3, <1>4, <1>5, <1>6, <2>1 DEF DeliveredInv
    <2> QED BY <1>13, <2>2, <2>3, <2>4 DEF Inv
  <1> QED BY <1>14, <1>15

LEMMA FragmentTimerStep ==
    ASSUME LongMessage, ShortRoundTrip, Inv, FragmentTimer PROVE Inv'
  <1>1. /\ missing # {} /\ to_rx = <<>> /\ to_tx = <<>> /\ tx # "queued"
        /\ max_fragment' = Larger(max_fragment \div 2, MinRx)
        /\ lost' \in {"fresh", lost}
        /\ to_tx' = Append(to_tx, NextPart(missing, max_fragment'))
        /\ UNCHANGED <<txvars, to_rx, missing, window, delivered, strayed>>
    BY DEF FragmentTimer, Quiet
  <1>2. DOMAIN to_rx = {} /\ DOMAIN to_tx = {}
    BY <1>1
  <1>3. max_fragment' \in 0 .. FullSize - 1
    <2>1. max_fragment \in Nat /\ max_fragment < FullSize
      BY SizesAssumption DEF Inv, TypeInv
    <2> QED BY <1>1, <2>1, SizesStay
  <1>4. to_tx' \in Seq(QueryPacket) /\ Len(to_tx') <= 1
    <2>1. missing \in SUBSET Byte
      BY DEF Inv, TypeInv
    <2> QED BY <1>1, <1>3, <2>1, QueryEnters, NextPartIs
  <1>5. IsFragmented /\ IsFragmented'
    BY <1>1 DEF Inv, PlainInv, IsFragmented, txvars
  <1>6. window # "before" /\ (~strayed => delivered = 0)
    BY <1>1 DEF Inv, TypeInv, DeliveredInv
  <1>7. TypeInv'
    BY <1>1, <1>3, <1>4 DEF Inv, TypeInv, txvars
  <1>8. OneAtATime' /\ PlainInv' /\ DeliveredInv'
    BY <1>1, <1>2, <1>4, <1>5, <1>6 DEF OneAtATime, PlainInv, DeliveredInv, txvars
  <1> QED BY <1>7, <1>8 DEF Inv

LEMMA ProcessShortStep ==
    ASSUME LongMessage, Inv, ProcessRemove \/ ProcessNewer PROVE Inv'
  <1>1. /\ to_rx # <<>> /\ to_rx' = Tail(to_rx) /\ missing' \in {{}, missing}
        /\ max_fragment' \in {MaxData, max_fragment}
        /\ \/ UNCHANGED <<lost, window>>
           \/ window = "before" /\ lost' = "fresh" /\ window' \in {"past", "wrapped"}
        /\ UNCHANGED <<txvars, to_tx, delivered, strayed>>
    BY DEF ProcessRemove, ProcessNewer
  <1>2. /\ to_rx' \in Seq(Packet)
        /\ \A i \in DOMAIN to_rx' : i + 1 \in DOMAIN to_rx /\ to_rx'[i] = to_rx[i + 1]
        /\ \A i, j \in DOMAIN to_rx' : IsPart(to_rx'[i]) /\ IsPart(to_rx'[j]) => i = j
    BY <1>1, PacketLeaves
  <1>3. TypeInv'
    BY <1>1, <1>2, SizesAssumption DEF LongMessage, Inv, TypeInv, txvars
  <1>4. OneAtATime'
    BY <1>1, <1>2 DEF Inv, OneAtATime, txvars
  <1>5. PlainInv'
    BY <1>1, <1>2 DEF Inv, PlainInv, txvars, IsFragmented
  <1>6. DeliveredInv'
    BY <1>1, <1>2 DEF Inv, DeliveredInv, txvars
  <1> QED BY <1>3, <1>4, <1>5, <1>6 DEF Inv

(* What other messages do to the window, and the passing of time.          *)
LEMMA OthersStep ==
    ASSUME LongMessage, Inv, LostIdAges \/ GapForgets \/ WindowMoves \/ AnotherStrays
    PROVE  Inv'
  <1>1. /\ missing' \in {{}, missing} /\ max_fragment' \in {MaxData, max_fragment}
        /\ window # "before" /\ window' \in {"past", "wrapped", "behind"}
        /\ lost' \in {"no", "old", "fresh"}
        /\ strayed' \in BOOLEAN
        /\ ~strayed' => ~strayed /\ (lost' = lost \/ lost # "no")
        /\ UNCHANGED <<txvars, to_rx, to_tx, delivered>>
    <2>1. CASE LostIdAges \/ GapForgets
      BY <2>1 DEF LostIdAges, GapForgets, Inv, TypeInv, DeliveredInv
    <2>2. CASE WindowMoves
      BY <2>2 DEF WindowMoves, Inv, TypeInv
    <2>3. CASE AnotherStrays
      BY <2>3 DEF AnotherStrays, Inv, TypeInv
    <2> QED BY <2>1, <2>2, <2>3
  <1>2. TypeInv'
    BY <1>1, SizesAssumption DEF LongMessage, Inv, TypeInv, txvars
  <1>3. OneAtATime' /\ PlainInv'
    BY <1>1 DEF Inv, OneAtATime, PlainInv, txvars, IsFragmented
  <1>4. DeliveredInv'
    BY <1>1 DEF Inv, DeliveredInv, txvars
  <1> QED BY <1>2, <1>3, <1>4 DEF Inv

-----------------------------------------------------------------------------
LEMMA NextInv == LongMessage /\ ShortRoundTrip /\ Inv /\ [Next]_vars => Inv'
  <1> SUFFICES ASSUME LongMessage, ShortRoundTrip, Inv, [Next]_vars PROVE Inv'
    OBVIOUS
  <1>1. CASE Sender
    BY <1>1, SendPartStep, ResendStep, GiveUpStep, ProcessQueryStep, SendNewerStep DEF Sender
  <1>2. CASE Receiver
    BY <1>2, DropStep, ProcessPlainStep, ProcessFragmentStep, ProcessShortStep DEF Receiver
  <1>3. CASE \/ FragmentTimer \/ LoseToRx \/ LoseToTx
             \/ LostIdAges \/ GapForgets \/ WindowMoves \/ AnotherStrays
    BY <1>3, FragmentTimerStep, LoseToRxStep, LoseToTxStep, OthersStep
  <1>4. CASE UNCHANGED vars
    BY <1>4 DEF vars, txvars, rxvars, Inv, TypeInv, OneAtATime, PlainInv, DeliveredInv,
                IsFragmented
  <1> QED BY <1>1, <1>2, <1>3, <1>4 DEF Next

(* The inductive invariant, types included: there is one packet or query   *)
(* of the message at a time, wherever the window stands; and once it is    *)
(* delivered nothing on its way can open it again, unless an old fragment  *)
(* was taken for a new message.                                            *)
THEOREM InvHolds ==
    ASSUME LongMessage, ShortRoundTrip PROVE Spec => []Inv
  <1>1. Init => Inv
    BY InitInv
  <1>2. Inv /\ [Next]_vars => Inv'
    BY NextInv
  <1> QED BY <1>1, <1>2, PTL DEF Spec

(* internal_process_message dispatches a message longer than the default   *)
(* fragment size at most once, whatever is lost, resent or forgotten, as   *)
(* long as no timer goes off before the answer it waits for and no old     *)
(* fragment meets the window where it counts as new.                       *)
THEOREM LongIsDeliveredOnce ==
    ASSUME LongMessage, ShortRoundTrip PROVE Spec => []DeliveredOnce
  <1>1. Inv => DeliveredOnce
    BY DEF Inv, DeliveredInv, DeliveredOnce
  <1> QED BY <1>1, InvHolds, PTL
=============================================================================
