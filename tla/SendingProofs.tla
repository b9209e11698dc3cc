---------------------------- MODULE SendingProofs -----------------------------
(***************************************************************************)
(* Theorems about the outgoing messages and about the timer that resends   *)
(* them.                                                                   *)
(*                                                                         *)
(* WaitList, for any number of messages and ids, any times, and an io      *)
(* thread that may be late or not.  The inductive invariant: no two        *)
(* waiting messages have the same id, and of the messages with the id of a *)
(* waiting one only itself, or one that was in flight while another had    *)
(* its id, may still be answered (IdInv); a message that is yet to be      *)
(* sent, is queued or waits has had no outcome, and one that nothing       *)
(* refers to has had exactly one, unless the node was closed (OutcomeInv). *)
(*                                                                         *)
(* ProtocolTimer, for any set of calls, slack and clock range.  TimerInv   *)
(* is inductive: NoLostWakeup needs only the step that fixes the deadline  *)
(* and the flag that add() raises; EmittedOnce needs NeverEarly's first    *)
(* part, that an item is filed under the time of its own call, and         *)
(* NothingDropped, that Wake never overwrites items still to be emitted.   *)
(***************************************************************************)
EXTENDS WaitList, ProtocolTimer, FiniteSetTheorems, TLAPS

Ids == 0 .. IdCount - 1

TypeInv ==
    /\ created \subseteq Msgs /\ dropped \subseteq Msgs
    /\ io_queue \in Seq(Msgs) /\ Waiting \subseteq Msgs
    /\ msg_id \in [Msgs -> Ids \cup {NoId}] /\ next_tx_msg_id \in Ids
    /\ net \in [Msgs -> {"nothing", "plain", "fragment", "answer"}]
    /\ answered \in [Msgs -> SUBSET Msgs] /\ timed_out \in [Msgs -> Nat]
    /\ open \in BOOLEAN

HomeInv == OneHome /\ Queued \subseteq created /\ Waiting \subseteq created

(* net: what is in flight, or on the list, was sent with an id.            *)
IdInv ==
    /\ \A m \in Msgs : net[m] # "nothing" \/ m \in Waiting => msg_id[m] # NoId
    /\ \A m, n \in Waiting : msg_id[m] = msg_id[n] => m = n
    /\ \A n \in Waiting, m \in Msgs :
          m # n /\ msg_id[m] = msg_id[n] /\ net[m] # "nothing" => m \in crossed

Fresh(m) == timed_out[m] = 0 /\ answered[m] = {} /\ m \notin dropped

(* Exactly one of the three.                                               *)
Over(m) ==
    \/ timed_out[m] = 1 /\ answered[m] = {} /\ m \notin dropped
    \/ timed_out[m] = 0 /\ (\E x \in Msgs : answered[m] = {x}) /\ m \notin dropped
    \/ timed_out[m] = 0 /\ answered[m] = {} /\ m \in dropped

OutcomeInv ==
    \A m \in Msgs : IF Released(m) THEN Over(m) \/ (~open /\ Fresh(m)) ELSE Fresh(m)

Inv == TypeInv /\ HomeInv /\ IdInv /\ OutcomeInv /\ AnswerIsMine

-----------------------------------------------------------------------------
LEMMA CountOutcomes ==
    ASSUME NEW m \in Msgs
    PROVE  /\ Fresh(m) => Outcomes(m) = 0
           /\ Over(m) => Outcomes(m) = 1
  <1>1. /\ Cardinality({}) = 0 /\ Cardinality({m}) = 1
        /\ \A x \in Msgs : Cardinality({x}) = 1
    BY FS_EmptySet, FS_Singleton
  <1>2. /\ m \notin dropped => {m} \cap dropped = {}
        /\ m \in dropped => {m} \cap dropped = {m}
    OBVIOUS
  <1> QED BY <1>1, <1>2 DEF Fresh, Over, Outcomes

LEMMA InvOutcomes == Inv => OneOutcome /\ NoneVanishes
  <1> SUFFICES ASSUME Inv, NEW m \in Msgs
               PROVE  /\ Outcomes(m) <= 1 /\ (Outcomes(m) = 1 => Released(m))
                      /\ open /\ Released(m) => Outcomes(m) = 1
    BY DEF OneOutcome, NoneVanishes
  <1> QED BY CountOutcomes DEF Inv, OutcomeInv

-----------------------------------------------------------------------------
(* Sequences.                                                              *)

LEMMA RangeAppend ==
    ASSUME NEW q \in Seq(Msgs), NEW m \in Msgs
    PROVE  Append(q, m) \in Seq(Msgs) /\ Range(Append(q, m)) = Range(q) \cup {m}
  <1>1. /\ Len(Append(q, m)) = Len(q) + 1 /\ Append(q, m)[Len(q) + 1] = m
        /\ \A i \in 1 .. Len(q) : Append(q, m)[i] = q[i]
    OBVIOUS
  <1> QED BY <1>1 DEF Range

Distinct(q) == \A i, j \in 1 .. Len(q) : i # j => q[i] # q[j]

LEMMA DistinctAppend ==
    ASSUME NEW q \in Seq(Msgs), NEW m \in Msgs, Distinct(q), m \notin Range(q)
    PROVE  Distinct(Append(q, m))
  <1>1. /\ Len(Append(q, m)) = Len(q) + 1 /\ Append(q, m)[Len(q) + 1] = m
        /\ \A i \in 1 .. Len(q) : Append(q, m)[i] = q[i]
    OBVIOUS
  <1>2. \A i \in 1 .. Len(q) : q[i] # m
    BY DEF Range
  <1> QED BY <1>1, <1>2 DEF Distinct

LEMMA DistinctTail ==
    ASSUME NEW q \in Seq(Msgs), q # <<>>, Distinct(q)
    PROVE  /\ q[1] \in Msgs /\ q[1] \in Range(q) /\ Tail(q) \in Seq(Msgs)
           /\ Distinct(Tail(q)) /\ Range(Tail(q)) = Range(q) \ {q[1]}
  <1>0. q[1] \in Msgs /\ q[1] \in Range(q) /\ Tail(q) \in Seq(Msgs)
    BY DEF Range
  <1>1. /\ Len(q) >= 1 /\ Len(Tail(q)) = Len(q) - 1 /\ DOMAIN Tail(q) = 1 .. Len(q) - 1
        /\ \A i \in 1 .. Len(q) - 1 : Tail(q)[i] = q[i + 1]
    OBVIOUS
  <1>2. Distinct(Tail(q))
    BY <1>1 DEF Distinct
  <1>3. Range(Tail(q)) \subseteq Range(q) \ {q[1]}
    BY <1>1 DEF Distinct, Range
  <1>4. ASSUME NEW x \in Range(q) \ {q[1]} PROVE x \in Range(Tail(q))
    <2>1. PICK i \in 1 .. Len(q) : q[i] = x
      BY DEF Range
    <2>2. i # 1 /\ i - 1 \in 1 .. Len(q) - 1 /\ Tail(q)[i - 1] = x
      BY <1>1, <2>1
    <2> QED BY <1>1, <2>2 DEF Range
  <1> QED BY <1>0, <1>2, <1>3, <1>4

LEMMA DistinctConcat ==
    ASSUME NEW q \in Seq(Msgs), NEW S \in SUBSET Msgs, S \cap Range(q) = {}, Distinct(q),
           NEW s \in Bijection(1 .. Cardinality(S), S)
    PROVE  q \o s \in Seq(Msgs) /\ Distinct(q \o s) /\ Range(q \o s) = Range(q) \cup S
  <1> DEFINE c == Cardinality(S)
  <1>0. c \in Nat
    BY FS_Subset, FS_CardinalityType, MsgsAssumption
  <1> HIDE DEF c
  <1>1. /\ s \in [1 .. c -> S] /\ \A i, j \in 1 .. c : s[i] = s[j] => i = j
        /\ \A x \in S : \E i \in 1 .. c : s[i] = x
    BY DEF Bijection, Injection, Surjection, IsInjective, c
  <1>2. s \in Seq(Msgs) /\ Len(s) = c
    BY <1>0, <1>1
  <1> DEFINE r == q \o s
  <1>3. /\ r \in Seq(Msgs) /\ Len(r) = Len(q) + c
        /\ \A i \in 1 .. Len(q) : r[i] = q[i]
        /\ \A i \in 1 .. c : r[Len(q) + i] = s[i]
        /\ \A i \in Len(q) + 1 .. Len(q) + c : r[i] = s[i - Len(q)] /\ i - Len(q) \in 1 .. c
    BY <1>0, <1>2
  <1> HIDE DEF r
  <1>4. \A i \in 1 .. Len(q), j \in 1 .. c : q[i] # s[j]
    BY <1>1 DEF Range
  <1>5. Distinct(r)
    <2> SUFFICES ASSUME NEW i \in 1 .. Len(r), NEW j \in 1 .. Len(r), i # j PROVE r[i] # r[j]
      BY DEF Distinct
    <2>1. CASE i <= Len(q) /\ j <= Len(q)
      BY <1>3, <2>1 DEF Distinct
    <2>2. CASE i <= Len(q) /\ j > Len(q)
      BY <1>0, <1>3, <1>4, <2>2
    <2>3. CASE i > Len(q) /\ j <= Len(q)
      BY <1>0, <1>3, <1>4, <2>3
    <2>4. CASE i > Len(q) /\ j > Len(q)
      BY <1>0, <1>1, <1>3, <2>4
    <2> QED BY <1>0, <1>3, <2>1, <2>2, <2>3, <2>4
  <1>6. Range(r) = Range(q) \cup S
    <2>1. DOMAIN r = 1 .. Len(q) + c
      BY <1>0, <1>3
    <2>2. ASSUME NEW i \in 1 .. Len(q) + c PROVE r[i] \in Range(q) \cup S
      <3>1. CASE i <= Len(q)
        BY <1>3, <3>1 DEF Range
      <3>2. CASE i > Len(q)
        BY <1>0, <1>1, <1>3, <3>2
      <3> QED BY <3>1, <3>2
    <2>3. ASSUME NEW x \in Range(q) PROVE x \in Range(r)
      <3>1. PICK i \in 1 .. Len(q) : q[i] = x
        BY DEF Range
      <3> QED BY <1>0, <1>3, <2>1, <3>1 DEF Range
    <2>4. ASSUME NEW x \in S PROVE x \in Range(r)
      <3>1. PICK i \in 1 .. c : s[i] = x
        BY <1>1
      <3>2. Len(q) + i \in 1 .. Len(q) + c /\ r[Len(q) + i] = x
        BY <1>0, <1>3, <3>1
      <3> QED BY <2>1, <3>2 DEF Range
    <2>5. Range(r) \subseteq Range(q) \cup S
      BY <2>1, <2>2 DEF Range
    <2> QED BY <2>3, <2>4, <2>5
  <1> QED BY <1>3, <1>5, <1>6 DEF r

-----------------------------------------------------------------------------
(* The list of waiting messages.                                           *)

LEMMA WithoutDomain == \A S : DOMAIN Without(S) = Waiting \ S
  BY DEF Without

LEMMA AddToWaiting ==
    ASSUME NEW x, NEW due, add_to_waiting(x, due)
    PROVE  LET same == {y \in Waiting : msg_id'[y] = msg_id'[x]} IN
           \/ Waiting' = (Waiting \ same) \cup {x} /\ dropped' = dropped \cup (same \ {x})
           \/ Waiting' = Waiting \ same /\ dropped' = dropped \cup (same \ {x}) \cup {x}
  <1> DEFINE same == WithId(msg_id'[x])
  <1>1. DOMAIN Without(same) = Waiting \ same
    BY WithoutDomain
  <1>2. CASE /\ waiting' = [y \in DOMAIN Without(same) \cup {x} |-> IF y = x THEN due ELSE Without(same)[y]]
             /\ dropped' = dropped \cup (same \ {x})
    BY <1>1, <1>2 DEF Waiting, WithId
  <1>3. CASE waiting' = Without(same) /\ dropped' = (dropped \cup (same \ {x})) \cup {x}
    BY <1>1, <1>3 DEF Waiting, WithId
  <1> QED BY <1>2, <1>3 DEF add_to_waiting

-----------------------------------------------------------------------------
(* The steps.                                                              *)

LEMMA SendMessageStep ==
    ASSUME Inv, NEW m \in Msgs, send_message(m)
    PROVE  Inv'
  <1> USE DEF Inv, send_message, PostedTo
  <1>1. /\ Waiting' = Waiting /\ m \notin Queued
        /\ Queued' = Queued \cup {m} /\ io_queue' \in Seq(Msgs) /\ Distinct(io_queue')
    <2>1. Distinct(io_queue) /\ m \notin Range(io_queue)
      BY DEF HomeInv, OneHome, Distinct, Queued
    <2> QED BY <2>1, RangeAppend, DistinctAppend DEF TypeInv, Queued, Waiting
  <1>2. TypeInv'
    BY <1>1 DEF TypeInv
  <1>3. HomeInv'
    BY <1>1 DEF HomeInv, OneHome, Distinct
  <1>4. IdInv'
    BY <1>1 DEF IdInv
  <1>5. OutcomeInv'
    <2>1. ASSUME NEW n \in Msgs PROVE Fresh(n)' <=> Fresh(n)
      BY DEF Fresh
    <2>2. ASSUME NEW n \in Msgs PROVE Over(n)' <=> Over(n)
      BY DEF Over
    <2>3. ASSUME NEW n \in Msgs PROVE Released(n)' <=> Released(n)
      BY <1>1 DEF Released, HomeInv
    <2> QED BY <2>1, <2>2, <2>3 DEF OutcomeInv
  <1>6. AnswerIsMine'
    BY DEF AnswerIsMine
  <1> QED BY <1>2, <1>3, <1>4, <1>5, <1>6

(* The network, the timers and the clock move no message.                  *)
LEMMA NetworkStep ==
    ASSUME Inv, NEW m \in Msgs, LosePacket(m) \/ PeerAnswers(m)
    PROVE  Inv'
  <1> USE DEF Inv
  <1>1. UNCHANGED <<created, io_queue, waiting, msg_id, next_tx_msg_id, answered,
                    timed_out, dropped, crossed, open>>
    BY DEF LosePacket, PeerAnswers
  <1>2. /\ net' \in [Msgs -> {"nothing", "plain", "fragment", "answer"}]
        /\ \A n \in Msgs : net'[n] # "nothing" => net[n] # "nothing"
    BY DEF LosePacket, PeerAnswers, TypeInv
  <1>3. TypeInv' /\ HomeInv'
    BY <1>1, <1>2 DEF TypeInv, HomeInv, OneHome, Queued, Waiting
  <1>4. IdInv'
    BY <1>1, <1>2 DEF IdInv, Waiting
  <1>5. OutcomeInv' /\ AnswerIsMine'
    BY <1>1 DEF OutcomeInv, AnswerIsMine, Released, Over, Fresh, Queued, Waiting
  <1> QED BY <1>3, <1>4, <1>5

LEMMA ClockStep ==
    ASSUME Inv, FireTimers \/ Tick
    PROVE  Inv'
  <1> USE DEF Inv
  <1>1. UNCHANGED <<created, io_queue, msg_id, next_tx_msg_id, net, answered,
                    timed_out, dropped, crossed, open>> /\ Waiting' = Waiting
    BY DEF FireTimers, Tick, Waiting
  <1>2. TypeInv' /\ HomeInv'
    BY <1>1 DEF TypeInv, HomeInv, OneHome, Queued
  <1>3. IdInv'
    BY <1>1 DEF IdInv
  <1>4. OutcomeInv' /\ AnswerIsMine'
    BY <1>1 DEF OutcomeInv, AnswerIsMine, Released, Over, Fresh, Queued
  <1> QED BY <1>2, <1>3, <1>4

LEMMA CloseStep ==
    ASSUME Inv, close
    PROVE  Inv'
  <1> USE DEF Inv
  <1>1. UNCHANGED <<created, io_queue, msg_id, next_tx_msg_id, net, answered,
                    timed_out, dropped, crossed>> /\ Waiting' = {} /\ ~open' /\ open' \in BOOLEAN
    <2>1. open' \in BOOLEAN /\ ~open'
      BY Zenon DEF close
    <2> QED BY <2>1 DEF close, Waiting
  <1>2. TypeInv' /\ HomeInv'
    BY <1>1 DEF TypeInv, HomeInv, OneHome, Queued
  <1>3. IdInv'
    BY <1>1 DEF IdInv
  <1>4. OutcomeInv'
    BY <1>1 DEF OutcomeInv, Released, Over, Fresh, Queued
  <1>5. AnswerIsMine'
    BY <1>1 DEF AnswerIsMine
  <1> QED BY <1>2, <1>3, <1>4, <1>5

(* An answer: at most one message has its id, and its own answer or that   *)
(* of a message whose id it had is what it gets.                           *)
LEMMA AnswerStep ==
    ASSUME Inv, NEW m \in Msgs, process_answer(m)
    PROVE  Inv'
  <1> USE DEF Inv
  <1> DEFINE found == {y \in Waiting : msg_id[y] = msg_id[m]}
  <1>1. /\ UNCHANGED <<created, io_queue, msg_id, next_tx_msg_id, timed_out, dropped, crossed, open>>
        /\ Waiting' = Waiting \ found
        /\ answered' = [x \in Msgs |-> IF x \in found THEN answered[x] \cup {m} ELSE answered[x]]
        /\ net' = [net EXCEPT ![m] = "nothing"]
        /\ net[m] = "answer"
    <2>1. WithId(msg_id[m]) = found
      BY DEF process_answer, WithId
    <2> QED BY <2>1, WithoutDomain DEF process_answer, Waiting
  <1>2. TypeInv' /\ HomeInv'
    BY <1>1 DEF TypeInv, HomeInv, OneHome, Queued
  <1>3. IdInv'
    BY <1>1 DEF IdInv, TypeInv
  <1>4. OutcomeInv'
    <2> SUFFICES ASSUME NEW x \in Msgs
                 PROVE  IF Released(x)' THEN Over(x)' \/ (~open' /\ Fresh(x)') ELSE Fresh(x)'
      BY DEF OutcomeInv
    <2>1. CASE x \in found
      <3>1. Fresh(x) /\ Released(x)'
        BY <1>1, <2>1 DEF OutcomeInv, Released, HomeInv, OneHome, Queued
      <3>2. answered'[x] = {m}
        BY <1>1, <2>1, <3>1 DEF Fresh
      <3>3. Over(x)'
        BY <1>1, <3>1, <3>2 DEF Over, Fresh
      <3> QED BY <3>1, <3>3
    <2>2. CASE x \notin found
      <3>1. /\ Released(x)' <=> Released(x)
            /\ Fresh(x)' <=> Fresh(x)
            /\ Over(x)' <=> Over(x)
        BY <1>1, <2>2 DEF Released, Fresh, Over, Queued
      <3> QED BY <1>1, <3>1 DEF OutcomeInv
    <2> QED BY <2>1, <2>2
  <1>5. AnswerIsMine'
    BY <1>1 DEF AnswerIsMine, IdInv
  <1> QED BY <1>2, <1>3, <1>4, <1>5

(* A fragment query: the message with its id, if there is one, is posted   *)
(* again ...                                                               *)
LEMMA QueryMoreStep ==
    ASSUME Inv, NEW m \in Msgs, process_fragment_query(m), parts[m] > 0
    PROVE  Inv'
  <1> USE DEF Inv
  <1> DEFINE found == {y \in Waiting : msg_id[y] = msg_id[m]}
  <1>1. /\ UNCHANGED <<created, msg_id, next_tx_msg_id, answered, timed_out, dropped, crossed, open>>
        /\ Waiting' = Waiting \ found /\ net' = [net EXCEPT ![m] = "nothing"]
        /\ IF found = {} THEN UNCHANGED io_queue
                         ELSE \E x \in found : io_queue' = Append(io_queue, x)
    <2>1. WithId(msg_id[m]) = found
      BY DEF process_fragment_query, WithId
    <2> QED BY <2>1, WithoutDomain DEF process_fragment_query, Waiting, PostedTo
  <1>2. io_queue' \in Seq(Msgs) /\ Distinct(io_queue') /\ Queued' = Queued \cup found
    <2>0. io_queue \in Seq(Msgs) /\ Distinct(io_queue) /\ Waiting \subseteq Msgs
      BY DEF TypeInv, HomeInv, OneHome, Distinct
    <2>1. CASE found = {}
      BY <1>1, <2>0, <2>1 DEF Queued
    <2>2. CASE found # {}
      <3>1. PICK x \in found : io_queue' = Append(io_queue, x)
        BY <1>1, <2>2
      <3>2. found = {x}
        BY DEF IdInv
      <3>3. x \in Msgs /\ x \notin Range(io_queue)
        BY <2>0 DEF HomeInv, OneHome, Queued
      <3> QED BY <2>0, <3>1, <3>2, <3>3, RangeAppend, DistinctAppend DEF Queued
    <2> QED BY <2>1, <2>2
  <1>3. TypeInv'
    BY <1>1, <1>2 DEF TypeInv
  <1>4. HomeInv'
    BY <1>1, <1>2 DEF HomeInv, OneHome, Distinct
  <1>5. IdInv'
    BY <1>1 DEF IdInv, TypeInv
  <1>6. OutcomeInv'
    <2>1. ASSUME NEW x \in Msgs PROVE Released(x)' <=> Released(x)
      BY <1>1, <1>2 DEF Released
    <2> QED BY <1>1, <2>1 DEF OutcomeInv, Fresh, Over
  <1>7. AnswerIsMine'
    BY <1>1 DEF AnswerIsMine
  <1> QED BY <1>3, <1>4, <1>5, <1>6, <1>7

(* ... or put back, which may fail.                                        *)
LEMMA QueryDoneStep ==
    ASSUME Inv, NEW m \in Msgs, process_fragment_query(m), ~(parts[m] > 0)
    PROVE  Inv'
  <1> USE DEF Inv
  <1> DEFINE found == {y \in Waiting : msg_id[y] = msg_id[m]}
  <1>0. WithId(msg_id[m]) = found
    BY DEF process_fragment_query, WithId
  <1>1. /\ UNCHANGED <<created, io_queue, msg_id, next_tx_msg_id, answered, timed_out, crossed, open>>
        /\ net[m] = "fragment" /\ net' = [net EXCEPT ![m] = "answer"]
        /\ PutBack(found)
    BY <1>0 DEF process_fragment_query
  <1>2. \/ Waiting' = Waiting /\ dropped' = dropped
        \/ \E x \in Waiting : Waiting' = Waiting \ {x} /\ dropped' = dropped \cup {x}
    <2>1. CASE found = {}
      BY <1>1, <2>1 DEF PutBack, Waiting
    <2>2. CASE found # {}
      <3>1. PICK x \in found : add_to_waiting(x, end_in[x])
        BY <1>1, <2>2 DEF PutBack
      <3>2. {y \in Waiting : msg_id'[y] = msg_id'[x]} = {x}
        BY <1>1 DEF IdInv
      <3>3. x \in Waiting
        OBVIOUS
      <3> HIDE DEF found
      <3> QED BY <3>1, <3>2, <3>3, AddToWaiting
    <2> QED BY <2>1, <2>2
  <1>3. /\ Waiting' \subseteq Waiting /\ dropped \subseteq dropped'
        /\ dropped' \subseteq dropped \cup Waiting
        /\ \A x \in Waiting : x \in Waiting' \/ x \in dropped'
        /\ \A x \in Waiting : x \in Waiting' => x \notin dropped' \/ x \in dropped
    BY <1>2
  <1>4. TypeInv' /\ HomeInv'
    BY <1>1, <1>3 DEF TypeInv, HomeInv, OneHome, Queued
  <1>5. IdInv'
    BY <1>1, <1>3 DEF IdInv, TypeInv
  <1>6. OutcomeInv'
    <2> SUFFICES ASSUME NEW x \in Msgs
                 PROVE  IF Released(x)' THEN Over(x)' \/ (~open' /\ Fresh(x)') ELSE Fresh(x)'
      BY DEF OutcomeInv
    <2>1. CASE x \in Waiting /\ x \notin Waiting'
      <3>1. Fresh(x) /\ x \in dropped'
        BY <1>3, <2>1 DEF OutcomeInv, Released
      <3>2. Released(x)'
        BY <1>1, <2>1 DEF Released, HomeInv, OneHome, Queued
      <3>3. Over(x)'
        BY <1>1, <3>1 DEF Over, Fresh
      <3> QED BY <3>2, <3>3
    <2>2. CASE ~(x \in Waiting /\ x \notin Waiting')
      <3>1. /\ Released(x)' <=> Released(x)
            /\ x \in dropped' <=> x \in dropped
        <4>1. x \in Waiting' <=> x \in Waiting
          BY <1>3, <2>2
        <4>2. x \in dropped' <=> x \in dropped
          BY <1>2, <4>1
        <4> QED BY <1>1, <4>1, <4>2 DEF Released, Queued
      <3> QED BY <1>1, <3>1 DEF OutcomeInv, Fresh, Over
    <2> QED BY <2>1, <2>2
  <1>7. AnswerIsMine'
    BY <1>1, <1>3 DEF AnswerIsMine
  <1> QED BY <1>4, <1>5, <1>6, <1>7

(* The wait list is processed: each message leaves it for the queue or     *)
(* for its timeout_func_.                                                  *)
LEMMA WaitListStep ==
    ASSUME Inv, process_wait_list
    PROVE  Inv'
  <1> USE DEF Inv
  <1>1. CASE ~open
    <2>1. UNCHANGED <<created, io_queue, waiting, msg_id, next_tx_msg_id, net, answered,
                      timed_out, dropped, crossed, open>>
      BY <1>1 DEF process_wait_list
    <2> QED BY <2>1 DEF TypeInv, HomeInv, OneHome, IdInv, OutcomeInv, AnswerIsMine,
                        Released, Over, Fresh, Queued, Waiting
  <1>2. CASE open
    <2>1. PICK s \in Bijection(1 .. Cardinality(Again), Again) : io_queue' = io_queue \o s
      BY <1>2 DEF process_wait_list
    <2>2. /\ UNCHANGED <<created, msg_id, next_tx_msg_id, net, answered, dropped, crossed, open>>
          /\ Waiting' = Waiting \ Popped
          /\ timed_out' = [m \in Msgs |-> IF m \in Popped \ Again
                                            THEN timed_out[m] + 1 ELSE timed_out[m]]
      BY <1>2, WithoutDomain DEF process_wait_list, Left, Waiting
    <2>3. Again \subseteq Popped /\ Popped \subseteq Waiting
      BY DEF Again, Popped
    <2>4. io_queue' \in Seq(Msgs) /\ Distinct(io_queue') /\ Queued' = Queued \cup Again
      <3>1. /\ io_queue \in Seq(Msgs) /\ Distinct(io_queue)
            /\ Again \in SUBSET Msgs /\ Again \cap Range(io_queue) = {}
        BY <2>3 DEF TypeInv, HomeInv, OneHome, Distinct, Queued
      <3> QED BY <2>1, <3>1, DistinctConcat DEF Queued
    <2>5. TypeInv'
      BY <2>2, <2>4 DEF TypeInv
    <2>6. HomeInv'
      BY <2>2, <2>3, <2>4 DEF HomeInv, OneHome, Distinct
    <2>7. IdInv'
      BY <2>2 DEF IdInv
    <2>8. OutcomeInv'
      <3> SUFFICES ASSUME NEW x \in Msgs
                   PROVE  IF Released(x)' THEN Over(x)' \/ (~open' /\ Fresh(x)') ELSE Fresh(x)'
        BY DEF OutcomeInv
      <3>1. CASE x \in Popped \ Again
        <4>1. Fresh(x)
          BY <2>3, <3>1 DEF OutcomeInv, Released
        <4>2. Released(x)'
          BY <2>2, <2>3, <2>4, <3>1 DEF Released, HomeInv, OneHome
        <4>3. Over(x)'
          BY <2>2, <3>1, <4>1 DEF Over, Fresh
        <4> QED BY <4>2, <4>3
      <3>2. CASE x \notin Popped \ Again
        <4>1. Released(x)' <=> Released(x)
          BY <2>2, <2>3, <2>4, <3>2 DEF Released
        <4>2. timed_out'[x] = timed_out[x]
          BY <2>2, <3>2
        <4> QED BY <2>2, <4>1, <4>2 DEF OutcomeInv, Fresh, Over
      <3> QED BY <3>1, <3>2
    <2>9. AnswerIsMine'
      BY <2>2 DEF AnswerIsMine
    <2> QED BY <2>5, <2>6, <2>7, <2>8, <2>9
  <1> QED BY <1>1, <1>2

LEMMA NextIdType == next_tx_msg_id \in Ids => NextTxId \in Ids
  BY IdsAssumption DEF NextTxId, Ids

(* The io thread takes a message: the packet goes out with its id.  Of     *)
(* others with that id, what is in flight is crossed from now on.          *)
LEMMA SendPacketStep ==
    ASSUME TypeInv, NEW m \in Msgs, NEW id \in Ids, NEW waits, SendPacket(m, id, waits)
    PROVE  /\ net' \in [Msgs -> {"nothing", "plain", "fragment", "answer"}]
           /\ net'[m] # "nothing"
           /\ \A x \in Msgs : x # m => net'[x] = net[x]
           /\ crossed \subseteq crossed'
           /\ \A x \in Msgs : x # m /\ msg_id[x] = id /\ net[x] # "nothing" => x \in crossed'
  <1>1. net' = [net EXCEPT ![m] = IF IsFragmented(m) THEN "fragment" ELSE "plain"]
    BY DEF SendPacket
  <1>2. /\ net' \in [Msgs -> {"nothing", "plain", "fragment", "answer"}]
        /\ net'[m] # "nothing"
        /\ \A x \in Msgs : x # m => net'[x] = net[x]
    BY <1>1 DEF TypeInv
  <1>3. /\ crossed \subseteq crossed'
        /\ \A x \in Msgs : x # m /\ msg_id[x] = id /\ net[x] # "nothing" => x \in crossed'
    BY DEF SendPacket
  <1> QED BY <1>2, <1>3

LEMMA PrepareStep ==
    ASSUME Inv, prepare_packet_to_send
    PROVE  Inv'
  <1> USE DEF Inv
  <1> DEFINE m == io_queue[1]
             id == IF msg_id[m] = NoId THEN next_tx_msg_id ELSE msg_id[m]
  <1>1. /\ m \in Msgs /\ m \in Queued /\ m \notin Waiting /\ m \in created
        /\ io_queue' \in Seq(Msgs) /\ Distinct(io_queue') /\ Queued' = Queued \ {m}
    <2>1. io_queue \in Seq(Msgs) /\ Distinct(io_queue) /\ io_queue # <<>> /\ io_queue' = Tail(io_queue)
      BY DEF prepare_packet_to_send, TypeInv, HomeInv, OneHome, Distinct
    <2> QED BY <2>1, DistinctTail DEF HomeInv, OneHome, Queued
  <1>2. UNCHANGED <<created, answered, timed_out, open>>
    BY DEF prepare_packet_to_send
  <1>3. CASE ~open
    <2>1. UNCHANGED <<msg_id, next_tx_msg_id, net, waiting, dropped, crossed>>
      BY <1>3 DEF prepare_packet_to_send
    <2>2. TypeInv' /\ HomeInv'
      BY <1>1, <1>2, <2>1 DEF TypeInv, HomeInv, OneHome, Distinct, Waiting
    <2>3. IdInv' /\ AnswerIsMine'
      BY <1>2, <2>1 DEF IdInv, AnswerIsMine, Waiting
    <2>4. OutcomeInv'
      <3> SUFFICES ASSUME NEW x \in Msgs
                   PROVE  IF Released(x)' THEN Over(x)' \/ (~open' /\ Fresh(x)') ELSE Fresh(x)'
        BY DEF OutcomeInv
      <3>1. (Fresh(x)' <=> Fresh(x)) /\ (Over(x)' <=> Over(x))
        BY <1>2, <2>1 DEF Fresh, Over
      <3>2. x # m => (Released(x)' <=> Released(x))
        BY <1>1, <1>2, <2>1 DEF Released, Waiting
      <3>3. ~Released(m)
        BY <1>1 DEF Released
      <3> QED BY <1>2, <1>3, <3>1, <3>2, <3>3 DEF OutcomeInv
    <2> QED BY <2>2, <2>3, <2>4
  <1>4. CASE open
    <2>0. id \in Ids
      BY <1>1 DEF TypeInv
    <2>1. /\ msg_id' = [msg_id EXCEPT ![m] = id] /\ next_tx_msg_id' \in Ids
      BY <1>4, NextIdType DEF prepare_packet_to_send, TypeInv
    <2> DEFINE end == IF IsFragmented(m) THEN Lifetime ELSE end_in[m]
               due == IF ResendTimeout < end THEN ResendTimeout ELSE end
    <2>1a. /\ SendPacket(m, id, end > 0)
           /\ \/ end > 0 /\ add_to_waiting(m, due)
              \/ ~(end > 0) /\ dropped' = dropped \cup {m} /\ waiting' = waiting
      BY <1>4 DEF prepare_packet_to_send
    <2> HIDE DEF end, due
    <2> HIDE DEF id
    <2>2. /\ net' \in [Msgs -> {"nothing", "plain", "fragment", "answer"}]
          /\ net'[m] # "nothing"
          /\ \A x \in Msgs : x # m => net'[x] = net[x]
          /\ crossed \subseteq crossed'
          /\ \A x \in Msgs : x # m /\ msg_id[x] = id /\ net[x] # "nothing" => x \in crossed'
      BY <1>1, <2>0, <2>1a, SendPacketStep
    <2>3. /\ msg_id' \in [Msgs -> Ids \cup {NoId}] /\ msg_id'[m] = id
          /\ \A x \in Msgs : x # m => msg_id'[x] = msg_id[x]
          /\ id # NoId
      BY <1>1, <2>0, <2>1, IdsAssumption DEF TypeInv, Ids
    <2> DEFINE same == {y \in Waiting : msg_id[y] = id}
    <2>4. {y \in Waiting : msg_id'[y] = msg_id'[m]} = same /\ m \notin same
      BY <1>1, <2>3 DEF TypeInv
    <2>5. \/ /\ Waiting' = Waiting /\ dropped' = dropped \cup {m}
             /\ \A x \in Waiting : x # m /\ msg_id[x] = id => m \in crossed'
          \/ Waiting' = (Waiting \ same) \cup {m} /\ dropped' = dropped \cup same
          \/ Waiting' = Waiting \ same /\ dropped' = dropped \cup same \cup {m}
      <3>2. ASSUME dropped' = dropped \cup {m}, waiting' = waiting, ~(end > 0)
            PROVE  /\ Waiting' = Waiting /\ dropped' = dropped \cup {m}
                   /\ \A x \in Waiting : x # m /\ msg_id[x] = id => m \in crossed'
        <4>1. \A x \in Waiting : x # m /\ msg_id[x] = id => m \in crossed'
          BY <1>1, <2>1a, <3>2 DEF SendPacket, TypeInv
        <4> QED BY <3>2, <4>1 DEF Waiting
      <3>3. ASSUME add_to_waiting(m, due)
            PROVE  \/ Waiting' = (Waiting \ same) \cup {m} /\ dropped' = dropped \cup same
                   \/ Waiting' = Waiting \ same /\ dropped' = dropped \cup same \cup {m}
        <4> HIDE DEF same
        <4>1. \/ Waiting' = (Waiting \ same) \cup {m} /\ dropped' = dropped \cup (same \ {m})
              \/ Waiting' = Waiting \ same /\ dropped' = dropped \cup (same \ {m}) \cup {m}
          BY <2>4, <3>3, AddToWaiting
        <4> QED BY <2>4, <4>1
      <3> QED BY <2>1a, <3>2, <3>3
    <2>6. TypeInv'
      BY <1>1, <1>2, <2>1, <2>2, <2>3, <2>5 DEF TypeInv
    <2>7. HomeInv'
      BY <1>1, <1>2, <2>5 DEF HomeInv, OneHome, Distinct
    <2>8. IdInv'
      <3>1. \A x \in Msgs : net'[x] # "nothing" \/ x \in Waiting' => msg_id'[x] # NoId
        BY <2>2, <2>3, <2>5 DEF IdInv
      <3>2. CASE Waiting' \subseteq Waiting
        <4>1. m \notin Waiting' /\ \A n \in Waiting' : n # m /\ msg_id'[n] = msg_id[n]
          BY <1>1, <2>3, <3>2 DEF TypeInv
        <4>2. \A x, n \in Waiting' : msg_id'[x] = msg_id'[n] => x = n
          BY <3>2, <4>1 DEF IdInv
        <4>3. ASSUME NEW n \in Waiting', NEW x \in Msgs,
                     x # n, msg_id'[x] = msg_id'[n], net'[x] # "nothing"
              PROVE  x \in crossed'
          <5>1. CASE x = m
            BY <2>3, <2>5, <3>2, <4>1, <4>3, <5>1
          <5>2. CASE x # m
            BY <2>2, <2>3, <3>2, <4>1, <4>3, <5>2 DEF IdInv
          <5> QED BY <5>1, <5>2
        <4> QED BY <3>1, <4>2, <4>3 DEF IdInv
      <3>3. CASE Waiting' = (Waiting \ same) \cup {m} /\ dropped' = dropped \cup same
        <4>1. \A n \in Waiting' : n # m => msg_id'[n] = msg_id[n] /\ msg_id[n] # id /\ n \in Waiting
          BY <2>3, <3>3 DEF TypeInv
        <4>2. \A x, n \in Waiting' : msg_id'[x] = msg_id'[n] => x = n
          BY <2>3, <3>3, <4>1 DEF IdInv
        <4>3. ASSUME NEW n \in Waiting', NEW x \in Msgs,
                     x # n, msg_id'[x] = msg_id'[n], net'[x] # "nothing"
              PROVE  x \in crossed'
          BY <2>2, <2>3, <3>3, <4>1, <4>3 DEF IdInv
        <4> QED BY <3>1, <4>2, <4>3 DEF IdInv
      <3> QED BY <2>5, <3>2, <3>3
    <2>9. OutcomeInv'
      <3> SUFFICES ASSUME NEW x \in Msgs
                   PROVE  IF Released(x)' THEN Over(x)' \/ (~open' /\ Fresh(x)') ELSE Fresh(x)'
        BY DEF OutcomeInv
      <3>1. CASE x = m
        <4>1. Fresh(m)
          BY <1>1 DEF OutcomeInv, Released
        <4>2. CASE m \in Waiting'
          <5>1. m \notin dropped'
            BY <1>1, <2>4, <2>5, <4>1, <4>2 DEF Fresh
          <5> QED BY <1>2, <3>1, <4>1, <4>2, <5>1 DEF Released, Fresh
        <4>3. CASE m \notin Waiting'
          <5>1. m \in dropped'
            BY <2>5, <4>3
          <5>2. Released(x)' /\ Over(x)'
            BY <1>1, <1>2, <3>1, <4>1, <4>3, <5>1 DEF Released, Over, Fresh
          <5> QED BY <5>2
        <4> QED BY <4>2, <4>3
      <3>2. CASE x # m /\ x \in Waiting /\ x \notin Waiting'
        <4>1. Fresh(x) /\ x \in dropped'
          BY <2>5, <3>2 DEF OutcomeInv, Released
        <4>2. Released(x)' /\ Over(x)'
          BY <1>1, <1>2, <3>2, <4>1 DEF Released, Over, Fresh, HomeInv, OneHome
        <4> QED BY <4>2
      <3>3. CASE x # m /\ ~(x \in Waiting /\ x \notin Waiting')
        <4>1. (x \in Waiting' <=> x \in Waiting) /\ (x \in dropped' <=> x \in dropped)
          BY <2>5, <3>3
        <4>2. Released(x)' <=> Released(x)
          BY <1>1, <1>2, <3>3, <4>1 DEF Released
        <4> QED BY <1>2, <4>1, <4>2 DEF OutcomeInv, Fresh, Over
      <3> QED BY <3>1, <3>2, <3>3
    <2>10. AnswerIsMine'
      BY <1>2, <2>2 DEF AnswerIsMine
    <2> QED BY <2>6, <2>7, <2>8, <2>9, <2>10
  <1> QED BY <1>3, <1>4

-----------------------------------------------------------------------------
LEMMA InitInv == Init => Inv
  <1> SUFFICES ASSUME Init PROVE Inv
    OBVIOUS
  <1> USE DEF Init
  <1>1. open \in BOOLEAN
    BY Zenon
  <1>2. Waiting = {} /\ Queued = {}
    BY DEF Waiting, Queued, Range
  <1>3. TypeInv
    BY <1>1, <1>2, IdsAssumption DEF TypeInv, Ids
  <1>4. HomeInv
    BY <1>2 DEF HomeInv, OneHome
  <1>5. IdInv /\ AnswerIsMine
    BY <1>2 DEF IdInv, AnswerIsMine
  <1>6. OutcomeInv
    BY DEF OutcomeInv, Released, Fresh
  <1> QED BY <1>3, <1>4, <1>5, <1>6 DEF Inv

LEMMA NextInv == Inv /\ [Next]_vars => Inv'
  <1> SUFFICES ASSUME Inv, [Next]_vars PROVE Inv'
    OBVIOUS
  <1>1. ASSUME NEW m \in Msgs, send_message(m) PROVE Inv'
    BY <1>1, SendMessageStep
  <1>2. ASSUME NEW m \in Msgs, LosePacket(m) \/ PeerAnswers(m) PROVE Inv'
    BY <1>2, NetworkStep
  <1>3. ASSUME NEW m \in Msgs, process_answer(m) PROVE Inv'
    BY <1>3, AnswerStep
  <1>4. ASSUME NEW m \in Msgs, process_fragment_query(m) PROVE Inv'
    BY <1>4, QueryMoreStep, QueryDoneStep
  <1>5. CASE prepare_packet_to_send
    BY <1>5, PrepareStep
  <1>6. CASE FireTimers \/ Tick
    BY <1>6, ClockStep
  <1>7. CASE process_wait_list
    BY <1>7, WaitListStep
  <1>8. CASE close
    BY <1>8, CloseStep
  <1>9. CASE UNCHANGED vars
    BY <1>9 DEF vars, Inv, TypeInv, HomeInv, OneHome, IdInv, OutcomeInv, AnswerIsMine,
                Released, Over, Fresh, Queued, Waiting
  <1> QED BY <1>1, <1>2, <1>3, <1>4, <1>5, <1>6, <1>7, <1>8, <1>9 DEF Next

(* The inductive invariant, for all constants.                             *)
THEOREM InvHolds == Spec => []Inv
  BY InitInv, NextInv, PTL DEF Spec

(* A message that was sent is in the io_context's queue once or on         *)
(* waiting_messages_, never in both.                                       *)
THEOREM MessageHasOneHome == Spec => []OneHome
  <1>1. Inv => OneHome
    BY DEF Inv, HomeInv
  <1> QED BY <1>1, InvHolds, PTL

(* answer_func_ and timeout_func_: at most one call of one of them, and    *)
(* nothing of the message is left then.                                    *)
THEOREM OutcomeIsFinal == Spec => []OneOutcome
  BY InvOutcomes, InvHolds, PTL

(* An open node lets go of no message without a callback or a place in the *)
(* code that drops it.                                                     *)
THEOREM NothingVanishes == Spec => []NoneVanishes
  BY InvOutcomes, InvHolds, PTL

(* However few ids there are and however late the io thread is, an         *)
(* answer_func_ gets the answer to its own message, or to one that was in  *)
(* flight while another had its id: eviction by add_to_waiting, resends    *)
(* and queries mix up no others.                                           *)
THEOREM AnswersAreOwn == Spec => []AnswerIsMine
  <1>1. Inv => AnswerIsMine
    BY DEF Inv
  <1> QED BY <1>1, InvHolds, PTL

-----------------------------------------------------------------------------
(* The timer. *)


(* The state in which the timer thread is created satisfies the invariant. *)
LEMMA TimerInitInv == TimerInit => TimerInv
  <1> SUFFICES ASSUME TimerInit PROVE TimerInv
    OBVIOUS
  <1> USE TimeAssumption, SlackAssumption DEF TimerInit, Time
  <1>1. DOMAIN items = {} /\ DOMAIN clients = {}
    OBVIOUS
  <1>2. now \in Time /\ asked \in [Calls -> Time \cup {NoTime}]
        /\ emitted \in [Calls -> Nat] /\ deadline \in Time \cup {NoTime}
    OBVIOUS
  <1>3. items \in [DOMAIN items -> Calls] /\ clients \in [DOMAIN clients -> Calls]
    BY <1>1
  <1>4. TypeOK
    BY <1>1, <1>2, <1>3 DEF TypeOK
  <1>5. NoLostWakeup /\ NothingDropped
    BY <1>1 DEF NoLostWakeup, NothingDropped
  <1>6. NeverEarly
    BY <1>1 DEF NeverEarly
  <1>7. EmittedOnce
    BY <1>1 DEF EmittedOnce
  <1> QED BY <1>4, <1>5, <1>6, <1>7 DEF TimerInv

(* What Wake and Emit do to a map of items: the rest keeps its values.     *)
LEMMA RestrictFact ==
    ASSUME NEW f, NEW S
    PROVE  /\ DOMAIN Restrict(f, S) = S
           /\ \A t \in S : Restrict(f, S)[t] = f[t]
           /\ Restrict(f, S) = [t \in S |-> f[t]]
  BY DEF Restrict

(* A call of add() keeps the invariant.                                    *)
LEMMA AddStep ==
    ASSUME TimerInv, NEW c \in Calls, NEW t \in Time, add(c, t)
    PROVE  TimerInv'
  <1> USE TimeAssumption, SlackAssumption DEF Time
  <1>1. TypeOK'
    BY DEF TimerInv, TypeOK, add
  <1>2. NoLostWakeup'
    BY DEF TimerInv, TypeOK, NoLostWakeup, add
  <1>3. \A u \in DOMAIN items : items[u] # c
    BY DEF TimerInv, TypeOK, NeverEarly, add
  <1>4. \A u \in DOMAIN clients : clients[u] # c
    BY DEF TimerInv, TypeOK, NeverEarly, add
  <1>5. emitted[c] = 0
    BY DEF TimerInv, TypeOK, NeverEarly, add
  <1>6. \A u \in DOMAIN items' : \/ u \in DOMAIN items /\ items'[u] = items[u]
                                 \/ u = t /\ items'[u] = c
    BY DEF add
  <1>7. asked'[c] = t /\ \A d \in Calls : d # c => asked'[d] = asked[d]
    BY DEF TimerInv, TypeOK, add
  <1>8. NeverEarly'
    <2>1. (\A u \in DOMAIN items : asked[items[u]] = u)'
      BY <1>3, <1>6, <1>7 DEF TimerInv, TypeOK, NeverEarly
    <2>2. (\A u \in DOMAIN clients : asked[clients[u]] = u /\ u <= now + Slack)'
      BY <1>4, <1>7 DEF TimerInv, TypeOK, NeverEarly, add
    <2>3. (\A d \in Calls : emitted[d] > 0 =>
                               asked[d] # NoTime /\ asked[d] <= now + Slack)'
      BY <1>5, <1>7 DEF TimerInv, TypeOK, NeverEarly, add
    <2> QED BY <2>1, <2>2, <2>3 DEF NeverEarly
  <1>9. EmittedOnce'
    BY <1>4, <1>5, <1>6 DEF TimerInv, EmittedOnce, add
  <1>10. NothingDropped'
    BY DEF TimerInv, NothingDropped, add
  <1> QED BY <1>1, <1>2, <1>8, <1>9, <1>10 DEF TimerInv

(* The end of the wait, by the predicate or by the clock, keeps it.        *)
LEMMA WakeStep ==
    ASSUME TimerInv, Wake
    PROVE  TimerInv'
  <1> USE TimeAssumption, SlackAssumption DEF Time
  <1>1. CASE break_flag
    BY <1>1 DEF TimerInv, TypeOK, NoLostWakeup, NeverEarly, EmittedOnce, NothingDropped, Wake
  <1>2. CASE ~break_flag
    <2>0. Taken \subseteq DOMAIN items /\ \A t \in Taken : t <= now + Slack
      BY DEF Taken, DueItems, TimerInv, TypeOK
    <2>1. /\ DOMAIN clients' = Taken
          /\ \A t \in Taken : clients'[t] = items[t]
          /\ clients' = [t \in Taken |-> items[t]]
      BY <1>2, RestrictFact DEF Wake
    <2>2. /\ DOMAIN items' = DOMAIN items \ Taken
          /\ \A t \in DOMAIN items \ Taken : items'[t] = items[t]
          /\ items' = [t \in DOMAIN items \ Taken |-> items[t]]
      BY <1>2, RestrictFact DEF Wake, ItemsLeft
    <2>3. TypeOK'
      <3>1. (DOMAIN items \subseteq Time /\ items \in [DOMAIN items -> Calls])'
        BY <2>2 DEF TimerInv, TypeOK
      <3>2. (DOMAIN clients \subseteq Time /\ clients \in [DOMAIN clients -> Calls])'
        BY <2>0, <2>1 DEF TimerInv, TypeOK
      <3> QED BY <1>2, <3>1, <3>2 DEF TimerInv, TypeOK, Wake
    <2>4. NoLostWakeup' /\ NothingDropped'
      BY <1>2 DEF NoLostWakeup, NothingDropped, Wake
    <2>5. NeverEarly'
      BY <2>0, <2>1, <2>2 DEF TimerInv, TypeOK, NeverEarly, Wake
    <2>6. \A t \in Taken, u \in DOMAIN items \ Taken : items[t] # items[u]
      BY <2>0 DEF TimerInv, NeverEarly
    <2>7. EmittedOnce'
      BY <2>0, <2>1, <2>2, <2>6 DEF TimerInv, EmittedOnce, Wake
    <2> QED BY <2>3, <2>4, <2>5, <2>7 DEF TimerInv
  <1> QED BY <1>1, <1>2

(* The emission of one item keeps it.                                      *)
LEMMA EmitStep ==
    ASSUME TimerInv, Emit
    PROVE  TimerInv'
  <1> USE TimeAssumption, SlackAssumption DEF Time
  <1>1. PICK t \in DOMAIN clients :
             /\ emitted' = [emitted EXCEPT ![clients[t]] = @ + 1]
             /\ clients' = Restrict(clients, DOMAIN clients \ {t})
    BY DEF Emit
  <1>2. /\ DOMAIN clients' = DOMAIN clients \ {t}
        /\ \A u \in DOMAIN clients \ {t} : clients'[u] = clients[u]
        /\ clients' = [u \in DOMAIN clients \ {t} |-> clients[u]]
    BY <1>1, RestrictFact
  <1>3. clients[t] \in Calls /\ emitted[clients[t]] = 0
    BY DEF TimerInv, TypeOK, EmittedOnce
  <1>4. /\ emitted'[clients[t]] = 1
        /\ \A c \in Calls : c # clients[t] => emitted'[c] = emitted[c]
    BY <1>1, <1>3 DEF TimerInv, TypeOK
  <1>5. TypeOK'
    <2>1. (DOMAIN clients \subseteq Time /\ clients \in [DOMAIN clients -> Calls])'
      BY <1>2 DEF TimerInv, TypeOK
    <2>2. emitted' \in [Calls -> Nat]
      BY <1>1, <1>3 DEF TimerInv, TypeOK
    <2> QED BY <2>1, <2>2 DEF TimerInv, TypeOK, Emit
  <1>6. NoLostWakeup' /\ NothingDropped'
    BY DEF NoLostWakeup, NothingDropped, Emit
  <1>7. NeverEarly'
    BY <1>2, <1>3, <1>4, SMTT(30) DEF TimerInv, TypeOK, NeverEarly, Emit
  <1>8. \A u \in DOMAIN clients \ {t} : clients[u] # clients[t]
    BY DEF TimerInv, NeverEarly
  <1>9. EmittedOnce'
    <2>1. (\A u \in DOMAIN items : emitted[items[u]] = 0)'
      BY <1>4 DEF TimerInv, TypeOK, EmittedOnce, Emit
    <2>2. (\A u \in DOMAIN clients : emitted[clients[u]] = 0)'
      BY <1>2, <1>4, <1>8 DEF TimerInv, TypeOK, EmittedOnce
    <2>3. (\A u \in DOMAIN items, v \in DOMAIN clients : items[u] # clients[v])'
      BY <1>2 DEF TimerInv, EmittedOnce, Emit
    <2>4. (\A c \in Calls : emitted[c] <= 1)'
      BY <1>4 DEF TimerInv, TypeOK, EmittedOnce
    <2> QED BY <2>1, <2>2, <2>3, <2>4 DEF EmittedOnce
  <1> QED BY <1>5, <1>6, <1>7, <1>9 DEF TimerInv

(* The step that goes to sleep fixes the earliest time point as deadline.  *)
LEMMA StartWaitStep ==
    ASSUME TimerInv, StartWait
    PROVE  TimerInv'
  <1> USE TimeAssumption, SlackAssumption DEF Time
  <1>1. TypeOK' /\ NeverEarly' /\ EmittedOnce' /\ NothingDropped'
    BY DEF TimerInv, TypeOK, NeverEarly, EmittedOnce, NothingDropped, StartWait
  <1>2. \A t \in DOMAIN items : deadline' \in Nat /\ deadline' <= t
    BY DEF StartWait, IsFirst, TimerInv, TypeOK
  <1>3. NoLostWakeup'
    BY <1>2 DEF NoLostWakeup, StartWait, TimerInv, TypeOK
  <1> QED BY <1>1, <1>3 DEF TimerInv

(* Every step keeps the invariant.                                         *)
LEMMA TimerNextInv == TimerInv /\ [TimerNext]_timerVars => TimerInv'
  <1> SUFFICES ASSUME TimerInv, [TimerNext]_timerVars PROVE TimerInv'
    OBVIOUS
  <1> USE TimeAssumption, SlackAssumption DEF Time
  <1>1. ASSUME NEW c \in Calls, NEW t \in Time, add(c, t) PROVE TimerInv'
    BY <1>1, AddStep
  <1>2. CASE stop
    BY <1>2 DEF stop, TimerInv, TypeOK, NoLostWakeup, NeverEarly, EmittedOnce, NothingDropped
  <1>3. CASE CheckBreak
    BY <1>3 DEF CheckBreak, TimerInv, TypeOK, NoLostWakeup, NeverEarly, EmittedOnce, NothingDropped
  <1>4. CASE StartWait
    BY <1>4, StartWaitStep
  <1>5. CASE Wake
    BY <1>5, WakeStep
  <1>6. CASE Emit
    BY <1>6, EmitStep
  <1>7. CASE EmitDone
    BY <1>7 DEF EmitDone, TimerInv, TypeOK, NoLostWakeup, NeverEarly, EmittedOnce, NothingDropped
  <1>8. CASE TimePasses
    BY <1>8 DEF TimePasses, TimerInv, TypeOK, NoLostWakeup, NeverEarly, EmittedOnce, NothingDropped
  <1>9. CASE UNCHANGED timerVars
    BY <1>9 DEF timerVars, TimerInv, TypeOK, NoLostWakeup, NeverEarly, EmittedOnce, NothingDropped
  <1> QED
    BY <1>1, <1>2, <1>3, <1>4, <1>5, <1>6, <1>7, <1>8, <1>9 DEF TimerNext, TimerThread

(* TimerInv holds in every state the timer and its callers can reach.      *)
THEOREM TimerInvHolds == TimerSpec => []TimerInv
  BY TimerInitInv, TimerNextInv, PTL DEF TimerSpec

(* The timer thread never sleeps through an item: one that is due before   *)
(* its deadline has the flag raised that ends the sleep.                   *)
THEOREM WakeupsNotLost == TimerSpec => []NoLostWakeup
  <1>1. TimerInv => NoLostWakeup
    BY DEF TimerInv
  <1> QED BY <1>1, TimerInvHolds, PTL

(* on_protocol_timeout is called at most once for a call of add().         *)
THEOREM OneEmissionPerCall == TimerSpec => []EmittedOnce
  <1>1. TimerInv => EmittedOnce
    BY DEF TimerInv
  <1> QED BY <1>1, TimerInvHolds, PTL

(* on_protocol_timeout is called no earlier than Slack before its time.    *)
THEOREM NoEarlyEmission == TimerSpec => []NeverEarly
  <1>1. TimerInv => NeverEarly
    BY DEF TimerInv
  <1> QED BY <1>1, TimerInvHolds, PTL
=============================================================================
