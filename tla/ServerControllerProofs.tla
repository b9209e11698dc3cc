------------------------ MODULE ServerControllerProofs ------------------------
(***************************************************************************)
(* Theorems about ServerController, for any number of endpoints, nodes and *)
(* threads.                                                                *)
(*                                                                         *)
(* The inductive invariant says what each thread has in its hands at each  *)
(* step (ShapeInv), that a mutex is held exactly by the thread whose step  *)
(* is inside of its critical section (LockInv), that the loop of the       *)
(* holder of clients_mutex_ visits what is in the map (TodoInv), that the  *)
(* map and the nodes agree (MapInv, UseInv), and, for the copies, how far  *)
(* a node on its way to being settled has come (CopyInv).                  *)
(***************************************************************************)
EXTENDS ServerController, TLAPS

ThreadState == [step : Steps, job : Jobs, ep : Endpoints \cup {Nobody},
                node : Nodes \cup {Nobody}]

(* What a thread has at each step.                                         *)
Shape(x) ==
    /\ x.step \in {"idle", "find", "create", "remove"} => x.node = Nobody
    /\ x.step \in {"find", "create", "remove", "lock", "locked"} => x.ep \in Endpoints
    /\ x.step \in {"lock", "locked", "protocol", "record", "bytes"} => x.node \in Nodes
    /\ x.step \in {"check", "exclusive", "erasing"} =>
          (x.job = "clean" /\ x.node = Nobody) \/ (x.job = "copy" /\ x.node \in Nodes)

ShapeInv == \A t \in Threads : Shape(th[t])

InProtocol == {"bytes", "check", "exclusive", "erasing"}

(* Who holds a mutex is inside of its critical section, and the reverse.   *)
NodeLockInv ==
    \A n \in Nodes, t \in Threads :
       node_mutex[n] = t <=> (th[t].step = "locked" /\ th[t].node = n)
RecordLockInv ==
    \A n \in Nodes, t \in Threads :
       record_mutex[n] = t <=> (th[t].step \in InProtocol /\ th[t].node = n)
MapLockInv == \A t \in Threads : clients_mutex = t <=> th[t].step = "erasing"

LockInv == NodeLockInv /\ RecordLockInv /\ MapLockInv

TodoInv == todo \subseteq DOMAIN clients /\ (clients_mutex = Nobody => todo = {})

(* The node in the map knows its endpoint; a node in use that is not       *)
(* marked erased is in the map.                                            *)
MapInv == \A e \in DOMAIN clients : node[clients[e]].ep = e /\ ~node[clients[e]].erased
UseInv ==
    \A n \in Nodes :
       n \in InUse => /\ node[n].ep \in Endpoints
                      /\ node[n].erased \/ (node[n].ep \in DOMAIN clients
                                            /\ clients[node[n].ep] = n)

(* dtls_ leaves the handshake before there is a protocol, and never comes  *)
(* back to it; only who has authenticated is settled, and not while the    *)
(* thread that did it is in remove_copy.                                   *)
NodeOK(x) ==
    /\ x.protocol \/ x.same => x.dtls # "handshake"
    /\ x.settled => x.same
NodeInv == \A n \in Nodes : NodeOK(node[n])

CallerOK(t) ==
    /\ th[t].step \in InProtocol \cup {"record"} /\ th[t].node # Nobody =>
          node[th[t].node].dtls # "handshake"
    /\ th[t].step \in {"check", "exclusive", "erasing"} /\ th[t].node # Nobody =>
          node[th[t].node].same /\ ~node[th[t].node].settled
CallerInv == \A t \in Threads : CallerOK(t)

Twin(n) == node[n].protocol /\ node[n].same /\ node[n].settled

(* What the loop of remove_copy has passed is no settled copy any more:    *)
(* no node settles while clients_mutex_ is held.                           *)
Passed(t) ==
    \A e \in DOMAIN clients :
       th[t].step = "erasing" /\ th[t].job = "copy" /\ e \notin todo
          /\ clients[e] # th[t].node => ~Twin(clients[e])
PassedInv == \A t \in Threads : Passed(t)
TwinInv ==
    \A d, e \in DOMAIN clients : clients[d] # clients[e] => ~(Twin(clients[d]) /\ Twin(clients[e]))

CopyInv == NodeInv /\ CallerInv /\ PassedInv /\ TwinInv

Inv == TypeOK /\ ShapeInv /\ LockInv /\ TodoInv /\ MapInv /\ UseInv /\ CopyInv

-----------------------------------------------------------------------------
(* What the invariant says about the properties.                           *)

LEMMA InvOneNode == Inv => OneNodePerEndpoint
  <1>1. ASSUME TypeOK, NEW n \in InUse \ {Nobody} PROVE n \in Nodes
    BY <1>1 DEF TypeOK, InUse, Range
  <1> QED BY <1>1 DEF Inv, UseInv, OneNodePerEndpoint

LEMMA InvOneInProtocol == Inv => OneInProtocol
  <1> SUFFICES ASSUME Inv, NEW t \in Threads, NEW u \in Threads,
                      th[t].node = th[u].node, th[t].node # Nobody,
                      th[t].step \in InProtocol, th[u].step \in InProtocol
               PROVE  t = u
    BY DEF OneInProtocol, InProtocol
  <1>1. th[t].node \in Nodes
    BY DEF Inv, TypeOK
  <1> QED BY <1>1 DEF Inv, LockInv, RecordLockInv

LEMMA InvOneCopy == Inv => AtMostOneCopy
  BY DEF Inv, CopyInv, TwinInv, Twin, AtMostOneCopy, Mapped

(* A thread with a Node::mutex_ waits for nothing, one that is in          *)
(* clients_mutex_ only for a Node::mutex_, one that is in a protocol for   *)
(* one of these two or for nothing.                                        *)
LEMMA InvNoWaitCycle == Inv => NoWaitCycle
  <1> SUFFICES ASSUME Inv, NEW S \in SUBSET Threads, S # {}
               PROVE  \E t \in S : \A u \in S : ~WaitsFor(t, u)
    BY DEF NoWaitCycle
  <1> USE DEF Inv, LockInv
  <1>1. CASE \E t \in S : th[t].step = "locked"
    BY <1>1 DEF WaitsFor
  <1>2. CASE ~(\E t \in S : th[t].step = "locked") /\ \E t \in S : th[t].step = "erasing"
    <2>1. PICK t \in S : th[t].step = "erasing"
      BY <1>2
    <2>2. ASSUME NEW u \in S, WaitsFor(t, u) PROVE FALSE
      <3>1. PICK e \in todo : node_mutex[clients[e]] = u
        BY <2>1, <2>2 DEF WaitsFor
      <3>2. clients[e] \in Nodes
        BY DEF TypeOK, TodoInv, Range
      <3> QED BY <1>2, <3>1, <3>2 DEF NodeLockInv
    <2> QED BY <2>2
  <1>3. CASE ~(\E t \in S : th[t].step \in {"locked", "erasing"})
             /\ \E t \in S : th[t].step \in InProtocol
    <2>1. PICK t \in S : th[t].step \in InProtocol
      BY <1>3
    <2> QED BY <1>3, <2>1 DEF WaitsFor, MapLockInv, InProtocol
  <1>4. CASE ~(\E t \in S : th[t].step \in InProtocol \cup {"locked"})
    <2>1. ASSUME NEW t \in S, NEW u \in S PROVE ~WaitsFor(t, u)
      <3>1. th[t].step = "lock" \/ th[t].step = "record" => th[t].node \in Nodes
        BY DEF ShapeInv, Shape
      <3> QED BY <1>4, <3>1 DEF WaitsFor, NodeLockInv, RecordLockInv, MapLockInv, InProtocol
    <2> QED BY <2>1
  <1> QED BY <1>1, <1>2, <1>3, <1>4 DEF InProtocol

-----------------------------------------------------------------------------
(* Types.                                                                  *)

LEMMA NodeTypes ==
    /\ Destroyed \in Node
    /\ \A e \in Endpoints : NewNode(e) \in Node
    /\ \A nodes \in [Nodes -> Node] : Collected(nodes) \in [Nodes -> Node]
  <1>1. Destroyed \in Node
    BY DEF Destroyed, Node
  <1>2. ASSUME NEW e \in Endpoints PROVE NewNode(e) \in Node
    BY DEF NewNode, Destroyed, Node
  <1>3. ASSUME NEW nodes \in [Nodes -> Node] PROVE Collected(nodes) \in [Nodes -> Node]
    BY <1>1 DEF Collected
  <1> QED BY <1>1, <1>2, <1>3

(* Every update of the nodes keeps their type.                             *)
LEMMA UpdateTypes ==
    ASSUME node \in [Nodes -> Node], NEW n \in Nodes
    PROVE  /\ \A b \in BOOLEAN : [node EXCEPT ![n].dtls = "hello", ![n].protocol = b] \in [Nodes -> Node]
           /\ [node EXCEPT ![n].dtls = "active"] \in [Nodes -> Node]
           /\ Closed(n) \in [Nodes -> Node]
           /\ Heard(n) \in [Nodes -> Node]
           /\ [Heard(n) EXCEPT ![n].same = TRUE] \in [Nodes -> Node]
           /\ [node EXCEPT ![n].heard = FALSE] \in [Nodes -> Node]
           /\ \A e \in Endpoints : [node EXCEPT ![n] = NewNode(e)] \in [Nodes -> Node]
  <1>1. \A b \in BOOLEAN : [node EXCEPT ![n].dtls = "hello", ![n].protocol = b] \in [Nodes -> Node]
    BY DEF Node
  <1>2. [node EXCEPT ![n].dtls = "active"] \in [Nodes -> Node]
    BY DEF Node
  <1>3. Closed(n) \in [Nodes -> Node]
    BY DEF Node, Closed
  <1>4. Heard(n) \in [Nodes -> Node]
    <2>1. (node[n].heard \/ node[n].protocol) \in BOOLEAN
      BY Zenon
    <2> QED BY <2>1 DEF Node, Heard
  <1>5. [Heard(n) EXCEPT ![n].same = TRUE] \in [Nodes -> Node]
    BY <1>4 DEF Node
  <1>6. [node EXCEPT ![n].heard = FALSE] \in [Nodes -> Node]
    BY DEF Node
  <1>7. \A e \in Endpoints : [node EXCEPT ![n] = NewNode(e)] \in [Nodes -> Node]
    BY NodeTypes
  <1> QED BY <1>1, <1>2, <1>3, <1>4, <1>5, <1>6, <1>7

LEMMA ErasedType ==
    ASSUME NEW nodes \in [Nodes -> Node], NEW e \in DOMAIN clients, TypeOK
    PROVE  Erased(nodes, e) \in [Nodes -> Node]
  <1>1. clients[e] \in Nodes
    BY DEF TypeOK, Range
  <1> QED BY <1>1 DEF Erased, Node

(* A return from remove_frozen_clients or remove_copy.                     *)
LEMMA ReturnStep ==
    ASSUME TypeOK, ShapeInv, LockInv, NEW t \in Threads, Return(t, node),
           th[t].step \in {"check", "erasing"}, UNCHANGED node_mutex
    PROVE  /\ th' \in [Threads -> ThreadState] /\ cleaning' \in BOOLEAN
           /\ record_mutex' \in [Nodes -> Threads \cup {Nobody}]
           /\ node' \in [Nodes -> Node]
           /\ ShapeInv' /\ NodeLockInv' /\ RecordLockInv'
           /\ \A u \in Threads : th'[u] = IF u = t THEN IdleThread ELSE th[u]
  <1> USE NobodyAssumption DEF Return, Finish
  <1>1. th' \in [Threads -> ThreadState]
    BY DEF TypeOK, ThreadState, IdleThread, Steps, Jobs
  <1>2. cleaning' \in BOOLEAN
    <2>1. (cleaning /\ th[t].job # "clean") \in BOOLEAN
      BY Zenon
    <2> QED BY <2>1
  <1>3. record_mutex' \in [Nodes -> Threads \cup {Nobody}]
    BY DEF TypeOK
  <1>4. node' \in [Nodes -> Node]
    <2> DEFINE nodes == [n \in Nodes |-> IF n = th[t].node THEN [node[n] EXCEPT !.settled = TRUE]
                                                           ELSE node[n]]
    <2>0. ASSUME NEW x \in Node PROVE [x EXCEPT !.settled = TRUE] \in Node
      BY DEF Node
    <2>1. ASSUME NEW n \in Nodes PROVE [node[n] EXCEPT !.settled = TRUE] \in Node
      BY <2>0 DEF TypeOK
    <2>2. nodes \in [Nodes -> Node]
      BY <2>1 DEF TypeOK
    <2>3. node' = Collected(nodes)
      BY Zenon
    <2> QED BY <2>2, <2>3, NodeTypes
  <1>5. \A u \in Threads : th'[u] = IF u = t THEN IdleThread ELSE th[u]
    BY DEF TypeOK
  <1>6. ShapeInv'
    BY <1>5 DEF ShapeInv, Shape, IdleThread
  <1>7. NodeLockInv'
    BY <1>5 DEF LockInv, NodeLockInv, IdleThread
  <1>8. RecordLockInv'
    BY <1>5 DEF TypeOK, LockInv, RecordLockInv, IdleThread, InProtocol
  <1> QED BY <1>1, <1>2, <1>3, <1>4, <1>5, <1>6, <1>7, <1>8

BaseInv == TypeOK /\ ShapeInv /\ LockInv /\ TodoInv

(* What the io_context, the timer and the record queue start.              *)
LEMMA BeginStep ==
    ASSUME BaseInv, NEW t \in Threads,
           \/ \E e \in Endpoints : handle_receive(t, e) \/ on_protocol_timeout(t, e)
           \/ run_posted(t) \/ start_cleaning(t) \/ take_record(t)
    PROVE  BaseInv'
  <1> USE NobodyAssumption DEF BaseInv, Begin
  <1>1. ASSUME NEW e \in Endpoints, handle_receive(t, e) \/ on_protocol_timeout(t, e)
        PROVE  BaseInv'
    <2>0. receiving' \in BOOLEAN
      <3>1. CASE handle_receive(t, e)
        BY <3>1, Zenon DEF handle_receive
      <3>2. CASE on_protocol_timeout(t, e)
        BY <3>2 DEF on_protocol_timeout, TypeOK
      <3> QED BY <1>1, <3>1, <3>2
    <2>1. \E j \in {"receive", "timeout"} :
             /\ th[t] = IdleThread
             /\ th' = [th EXCEPT ![t] = [step |-> "find", job |-> j, ep |-> e, node |-> Nobody]]
      BY <1>1 DEF handle_receive, on_protocol_timeout
    <2>2. UNCHANGED <<clients, node, records, posts, cleaning, clients_mutex, todo,
                      node_mutex, record_mutex>>
      BY <1>1 DEF handle_receive, on_protocol_timeout
    <2>3. TypeOK'
      BY <2>0, <2>1, <2>2 DEF TypeOK, Steps, Jobs
    <2>4. ShapeInv' /\ LockInv' /\ TodoInv'
      BY <2>1, <2>2 DEF TypeOK, IdleThread, InProtocol,
           ShapeInv, Shape, LockInv, NodeLockInv, RecordLockInv, MapLockInv, TodoInv
    <2> QED BY <2>3, <2>4
  <1>2. CASE run_posted(t)
    <2>0. posts[1] \in Post /\ posts' \in Seq(Post)
      BY <1>2 DEF run_posted, TypeOK
    <2>1. TypeOK'
      BY <1>2, <2>0 DEF run_posted, TypeOK, Post, Steps, Jobs
    <2>2. ShapeInv' /\ LockInv' /\ TodoInv'
      BY <1>2, <2>0 DEF run_posted, TypeOK, Post, IdleThread, InProtocol,
           ShapeInv, Shape, LockInv, NodeLockInv, RecordLockInv, MapLockInv, TodoInv
    <2> QED BY <2>1, <2>2
  <1>3. CASE start_cleaning(t)
    <2>0. cleaning' \in BOOLEAN
      BY <1>3, Zenon DEF start_cleaning
    <2>1. TypeOK'
      BY <1>3, <2>0 DEF start_cleaning, TypeOK, Steps, Jobs
    <2>2. ShapeInv' /\ LockInv' /\ TodoInv'
      BY <1>3 DEF start_cleaning, TypeOK, IdleThread, InProtocol,
           ShapeInv, Shape, LockInv, NodeLockInv, RecordLockInv, MapLockInv, TodoInv
    <2> QED BY <2>1, <2>2
  <1>4. CASE take_record(t)
    <2>0. records[1] \in Nodes /\ records' \in Seq(Nodes)
      BY <1>4 DEF take_record, TypeOK
    <2>1. TypeOK'
      BY <1>4, <2>0 DEF take_record, TypeOK, Steps, Jobs
    <2>2. ShapeInv' /\ LockInv' /\ TodoInv'
      BY <1>4, <2>0 DEF take_record, TypeOK, IdleThread, InProtocol,
           ShapeInv, Shape, LockInv, NodeLockInv, RecordLockInv, MapLockInv, TodoInv
    <2> QED BY <2>1, <2>2
  <1> QED BY <1>1, <1>2, <1>3, <1>4

(* A thread goes on, neither of its steps being in a critical section.     *)
LEMMA FreeStep ==
    ASSUME BaseInv, NEW t \in Threads, NEW x \in ThreadState, Shape(x),
           th' = [th EXCEPT ![t] = x],
           {x.step, th[t].step} \cap (InProtocol \cup {"locked"}) = {},
           UNCHANGED <<clients_mutex, node_mutex, record_mutex>>
    PROVE  th' \in [Threads -> ThreadState] /\ ShapeInv' /\ LockInv'
  <1> USE NobodyAssumption DEF BaseInv
  <1>1. th' \in [Threads -> ThreadState]
    BY DEF TypeOK, ThreadState
  <1>2. \A u \in Threads : th'[u] = IF u = t THEN x ELSE th[u]
    BY DEF TypeOK
  <1>3. ShapeInv'
    BY <1>2 DEF ShapeInv
  <1>4. /\ x.step \notin InProtocol /\ th[t].step \notin InProtocol
        /\ x.step # "locked" /\ th[t].step # "locked"
    BY Zenon
  <1>5. NodeLockInv'
    BY <1>2, <1>4 DEF LockInv, NodeLockInv
  <1>6. RecordLockInv'
    BY <1>2, <1>4 DEF LockInv, RecordLockInv
  <1>7. MapLockInv'
    BY <1>2, <1>4 DEF InProtocol, LockInv, MapLockInv
  <1> QED BY <1>1, <1>3, <1>5, <1>6, <1>7 DEF LockInv

(* get_node, up to the lock of the node.                                   *)
LEMMA GetNodeStep ==
    ASSUME BaseInv, NEW t \in Threads, find_client(t) \/ create_client(t) \/ lock_node(t)
    PROVE  BaseInv'
  <1> USE NobodyAssumption DEF BaseInv, Go, Finish
  <1>0. \A e \in DOMAIN clients : clients[e] \in Nodes
    BY DEF TypeOK, Range
  <1>1. CASE find_client(t)
    <2>1. \E x \in ThreadState :
             /\ th' = [th EXCEPT ![t] = x]
             /\ Shape(x) /\ x.step \in {"protocol", "lock", "create", "idle"}
      <3>0. th[t] \in ThreadState /\ th[t].ep \in Endpoints /\ th[t].node = Nobody
        BY <1>1 DEF find_client, TypeOK, ThreadState, ShapeInv, Shape
      <3>1. CASE th[t].ep \in DOMAIN clients
        <4> DEFINE x == [th[t] EXCEPT !.node = clients[th[t].ep],
                           !.step = IF th[t].job = "timeout" THEN "protocol" ELSE "lock"]
        <4>1. x \in ThreadState
          BY <1>0, <3>0, <3>1 DEF ThreadState, Steps
        <4>2. th' = [th EXCEPT ![t] = x]
          BY <1>1, <3>0, <3>1 DEF find_client, TypeOK, ThreadState
        <4>3. Shape(x) /\ x.step \in {"protocol", "lock"}
          BY <1>0, <3>0, <3>1 DEF Shape, ThreadState
        <4> HIDE DEF x
        <4> QED BY <4>1, <4>2, <4>3
      <3>2. CASE th[t].ep \notin DOMAIN clients /\ th[t].job = "timeout"
        <4>1. IdleThread \in ThreadState /\ Shape(IdleThread) /\ IdleThread.step = "idle"
          BY DEF IdleThread, ThreadState, Shape, Steps, Jobs
        <4> QED BY <1>1, <3>2, <4>1 DEF find_client
      <3>3. CASE th[t].ep \notin DOMAIN clients /\ th[t].job # "timeout"
        <4> DEFINE x == [th[t] EXCEPT !.step = "create"]
        <4>1. x \in ThreadState
          BY <3>0 DEF ThreadState, Steps
        <4>2. th' = [th EXCEPT ![t] = x]
          BY <1>1, <3>0, <3>3 DEF find_client, TypeOK, ThreadState
        <4>3. Shape(x) /\ x.step = "create"
          BY <3>0 DEF Shape, ThreadState
        <4> HIDE DEF x
        <4> QED BY <4>1, <4>2, <4>3
      <3> QED BY <3>1, <3>2, <3>3
    <2>2. th' \in [Threads -> ThreadState] /\ ShapeInv' /\ LockInv'
      BY <1>1, <2>1, FreeStep DEF find_client, InProtocol
    <2> QED BY <1>1, <2>2 DEF find_client, TypeOK, ThreadState, TodoInv
  <1>2. CASE create_client(t)
    <2>1. CASE th[t].ep \in DOMAIN clients
      <3>1. TypeOK'
        BY <1>0, <1>2, <2>1 DEF create_client, TypeOK, Steps
      <3>2. ShapeInv' /\ LockInv' /\ TodoInv'
        BY <1>0, <1>2, <2>1 DEF create_client, TypeOK, InProtocol,
             ShapeInv, Shape, LockInv, NodeLockInv, RecordLockInv, MapLockInv, TodoInv
      <3> QED BY <3>1, <3>2
    <2>2. CASE th[t].ep \notin DOMAIN clients
      <3>1. PICK n \in Nodes : Emplace(t, th[t].ep, n)
        BY <1>2, <2>2 DEF create_client
      <3>2. th[t].ep \in Endpoints
        BY <1>2 DEF create_client, ShapeInv, Shape
      <3>3. node' \in [Nodes -> Node]
        BY <3>1, <3>2, NodeTypes, UpdateTypes DEF Emplace, TypeOK
      <3>4. Range(clients)' \subseteq Nodes /\ (DOMAIN clients)' \subseteq Endpoints
        BY <1>0, <3>1, <3>2 DEF Emplace, Range, TypeOK
      <3> DEFINE x == [th[t] EXCEPT !.node = n, !.step = "lock"]
      <3>5. x \in ThreadState /\ Shape(x) /\ x.step = "lock"
        BY <3>2 DEF TypeOK, ThreadState, Steps, Shape
      <3>6. th' = [th EXCEPT ![t] = x]
        BY <3>1 DEF Emplace, TypeOK
      <3>7. th' \in [Threads -> ThreadState] /\ ShapeInv' /\ LockInv'
        BY <1>2, <3>5, <3>6, FreeStep DEF create_client, InProtocol
      <3>8. TypeOK'
        BY <1>2, <3>3, <3>4, <3>7 DEF create_client, TypeOK, ThreadState
      <3>9. TodoInv'
        BY <1>2, <3>1 DEF create_client, Emplace, TodoInv
      <3> QED BY <3>7, <3>8, <3>9
    <2> QED BY <2>1, <2>2
  <1>3. CASE lock_node(t)
    <2>0. receiving' \in BOOLEAN
      BY <1>3, Zenon DEF lock_node
    <2>1. TypeOK'
      <3>1. th' \in [Threads -> ThreadState]
        BY <1>3 DEF lock_node, TypeOK, ThreadState, Steps
      <3>2. node_mutex' \in [Nodes -> Threads \cup {Nobody}]
        BY <1>3 DEF lock_node, TypeOK
      <3> QED BY <1>3, <2>0, <3>1, <3>2 DEF lock_node, TypeOK, ThreadState
    <2>2. ShapeInv' /\ LockInv' /\ TodoInv'
      BY <1>3 DEF lock_node, TypeOK, InProtocol,
           ShapeInv, Shape, LockInv, NodeLockInv, RecordLockInv, MapLockInv, TodoInv
    <2> QED BY <2>1, <2>2
  <1> QED BY <1>1, <1>2, <1>3

(* A thread lets a node's mutex go and is done.                            *)
LEMMA UnlockStep ==
    ASSUME BaseInv, NEW t \in Threads, th[t].step = "locked", Unlock(t),
           UNCHANGED <<clients, clients_mutex, todo, record_mutex>>
    PROVE  /\ th[t].node \in Nodes /\ th[t].ep \in Endpoints
           /\ th' \in [Threads -> ThreadState]
           /\ node_mutex' \in [Nodes -> Threads \cup {Nobody}]
           /\ ShapeInv' /\ LockInv' /\ TodoInv'
  <1> USE NobodyAssumption DEF BaseInv, Unlock, Finish
  <1>1. th[t].node \in Nodes /\ th[t].ep \in Endpoints
    BY DEF ShapeInv, Shape
  <1>2. th' \in [Threads -> ThreadState] /\ node_mutex' \in [Nodes -> Threads \cup {Nobody}]
    BY DEF TypeOK, ThreadState, IdleThread, Steps, Jobs
  <1>3. ShapeInv' /\ LockInv' /\ TodoInv'
    BY <1>1 DEF TypeOK, IdleThread, InProtocol,
         ShapeInv, Shape, LockInv, NodeLockInv, RecordLockInv, MapLockInv, TodoInv
  <1> QED BY <1>1, <1>2, <1>3

LEMMA LockedStep ==
    ASSUME BaseInv, NEW t \in Threads, ReceivedData(t) \/ write_impl(t)
    PROVE  BaseInv'
  <1>1. /\ th[t].step = "locked" /\ Unlock(t)
        /\ UNCHANGED <<clients, receiving, cleaning, clients_mutex, todo, record_mutex>>
    BY DEF ReceivedData, ReceivedNothing, ReceivedHello, HandshakeDone, ReceivedRecord,
           ReceivedClose, write_impl, Processing
  <1>2. /\ th[t].node \in Nodes /\ th[t].ep \in Endpoints
        /\ th' \in [Threads -> ThreadState]
        /\ node_mutex' \in [Nodes -> Threads \cup {Nobody}]
        /\ ShapeInv' /\ LockInv' /\ TodoInv'
    BY <1>1, UnlockStep
  <1> USE DEF BaseInv
  <1>3. node' \in [Nodes -> Node] /\ posts' \in Seq(Post) /\ records' \in Seq(Nodes)
    <2>0. /\ node \in [Nodes -> Node] /\ posts \in Seq(Post) /\ records \in Seq(Nodes)
          /\ [job |-> "remove", ep |-> th[t].ep] \in Post
      BY <1>2 DEF TypeOK, Post
    <2>1. CASE ReceivedNothing(t) \/ write_impl(t)
      BY <2>0, <2>1, NodeTypes DEF ReceivedNothing, write_impl
    <2>2. CASE ReceivedHello(t)
      <3>1. PICK b \in BOOLEAN :
              /\ node' = Collected([node EXCEPT ![th[t].node].dtls = "hello",
                                               ![th[t].node].protocol = b])
              /\ posts' = posts \/ posts' = Append(posts, [job |-> "remove", ep |-> th[t].ep])
        BY <2>2 DEF ReceivedHello, PostRemoval
      <3>2. node' \in [Nodes -> Node]
        BY <1>2, <2>0, <3>1, NodeTypes, UpdateTypes
      <3>3. posts' \in Seq(Post)
        <4>1. \A r \in Post : Append(posts, r) \in Seq(Post)
          BY <2>0
        <4> QED BY <2>0, <3>1, <4>1, Zenon
      <3>4. records' \in Seq(Nodes)
        BY <2>0, <2>2 DEF ReceivedHello
      <3> QED BY <3>2, <3>3, <3>4
    <2>3. CASE HandshakeDone(t)
      BY <1>2, <2>0, <2>3, NodeTypes, UpdateTypes DEF HandshakeDone
    <2>4. CASE ReceivedRecord(t)
      BY <1>2, <2>0, <2>4, NodeTypes DEF ReceivedRecord, add_received_record
    <2>5. CASE ReceivedClose(t)
      <3>1. (IF node[th[t].node].protocol THEN Closed(th[t].node) ELSE node) \in [Nodes -> Node]
        BY <1>2, <2>0, UpdateTypes
      <3>2. node' \in [Nodes -> Node]
        BY <2>5, <3>1, NodeTypes DEF ReceivedClose
      <3> QED BY <2>0, <2>5, <3>2 DEF ReceivedClose, PostRemoval
    <2> QED BY <2>1, <2>2, <2>3, <2>4, <2>5 DEF ReceivedData
  <1>4. TypeOK'
    BY <1>1, <1>2, <1>3 DEF TypeOK, ThreadState
  <1> QED BY <1>2, <1>4

(* The map: removal by endpoint, and the two loops.                        *)
LEMMA WithoutType ==
    ASSUME TypeOK, NEW e, clients' = Without(e)
    PROVE  /\ (DOMAIN clients)' = DOMAIN clients \ {e}
           /\ \A d \in DOMAIN clients \ {e} : clients'[d] = clients[d]
           /\ (DOMAIN clients)' \subseteq Endpoints /\ Range(clients)' \subseteq Nodes
  BY DEF TypeOK, Without, Restrict, Range

LEMMA MapStep ==
    ASSUME BaseInv, NEW t \in Threads,
           \/ remove_client(t) \/ check(t) \/ lock_clients(t) \/ unlock_clients(t)
           \/ \E e \in Endpoints : erase_or_skip(t, e)
    PROVE  BaseInv'
  <1> USE NobodyAssumption DEF BaseInv
  <1>0. th[t] \in ThreadState /\ th \in [Threads -> ThreadState] /\ node \in [Nodes -> Node]
    BY DEF TypeOK, ThreadState
  <1>1. CASE remove_client(t)
    <2>1. IdleThread \in ThreadState /\ Shape(IdleThread) /\ IdleThread.step = "idle"
      BY DEF IdleThread, ThreadState, Shape, Steps, Jobs
    <2>2. th' \in [Threads -> ThreadState] /\ ShapeInv' /\ LockInv'
      BY <1>1, <2>1, FreeStep DEF remove_client, Finish, InProtocol
    <2>3. (IF th[t].ep \in DOMAIN clients THEN Erased(node, th[t].ep) ELSE node) \in [Nodes -> Node]
      BY <1>0, ErasedType
    <2>4. node' \in [Nodes -> Node]
      BY <1>1, <2>3, NodeTypes DEF remove_client
    <2>5. (DOMAIN clients)' \subseteq Endpoints /\ Range(clients)' \subseteq Nodes
      BY <1>1, WithoutType DEF remove_client
    <2>6. TypeOK'
      BY <1>1, <2>2, <2>4, <2>5 DEF remove_client, TypeOK, ThreadState
    <2>7. TodoInv'
      BY <1>1 DEF remove_client, TodoInv
    <2> QED BY <2>2, <2>6, <2>7
  <1>2. ASSUME th' = [th EXCEPT ![t].step = "exclusive"], th[t].step = "check",
               UNCHANGED <<clients_mutex, node_mutex, record_mutex>>
        PROVE  th' \in [Threads -> ThreadState] /\ ShapeInv' /\ LockInv'
    <2>1. th' \in [Threads -> ThreadState]
      BY <1>0, <1>2 DEF ThreadState, Steps
    <2>2. ShapeInv'
      BY <1>0, <1>2 DEF ThreadState, ShapeInv, Shape
    <2>3. NodeLockInv'
      BY <1>0, <1>2 DEF ThreadState, LockInv, NodeLockInv
    <2>4. RecordLockInv' /\ MapLockInv'
      BY <1>0, <1>2 DEF ThreadState, LockInv, RecordLockInv, MapLockInv, InProtocol
    <2> QED BY <2>1, <2>2, <2>3, <2>4 DEF LockInv
  <1>3. CASE check(t)
    <2>1. CASE Return(t, node)
      <3>1. /\ th' \in [Threads -> ThreadState] /\ cleaning' \in BOOLEAN
            /\ record_mutex' \in [Nodes -> Threads \cup {Nobody}]
            /\ node' \in [Nodes -> Node]
            /\ ShapeInv' /\ NodeLockInv' /\ RecordLockInv'
            /\ \A u \in Threads : th'[u] = IF u = t THEN IdleThread ELSE th[u]
        BY <1>3, <2>1, ReturnStep DEF check
      <3>2. MapLockInv'
        BY <1>3, <3>1 DEF check, LockInv, MapLockInv, IdleThread
      <3>3. TypeOK'
        BY <1>3, <3>1 DEF check, TypeOK, ThreadState
      <3> QED BY <1>3, <3>1, <3>2, <3>3 DEF check, LockInv, TodoInv
    <2>2. CASE Go(t, "exclusive") /\ UNCHANGED <<node, cleaning, record_mutex>>
      <3>1. th' \in [Threads -> ThreadState] /\ ShapeInv' /\ LockInv'
        BY <1>2, <1>3, <2>2 DEF check, Go
      <3> QED BY <1>3, <2>2, <3>1 DEF check, TypeOK, ThreadState, TodoInv
    <2> QED BY <1>3, <2>1, <2>2 DEF check
  <1>4. CASE lock_clients(t)
    <2>1. th' \in [Threads -> ThreadState]
      BY <1>0, <1>4 DEF lock_clients, Go, ThreadState, Steps
    <2>2. TypeOK'
      BY <1>4, <2>1 DEF lock_clients, TypeOK, ThreadState
    <2>3. ShapeInv'
      BY <1>0, <1>4 DEF lock_clients, Go, ThreadState, ShapeInv, Shape
    <2>4. NodeLockInv'
      BY <1>0, <1>4 DEF lock_clients, Go, ThreadState, LockInv, NodeLockInv
    <2>5. RecordLockInv'
      BY <1>0, <1>4 DEF lock_clients, Go, ThreadState, LockInv, RecordLockInv, InProtocol
    <2>6. MapLockInv' /\ TodoInv'
      BY <1>0, <1>4 DEF lock_clients, Go, ThreadState, LockInv, MapLockInv, TodoInv
    <2> QED BY <2>2, <2>3, <2>4, <2>5, <2>6 DEF LockInv
  <1>5. CASE unlock_clients(t)
    <2>1. /\ th' \in [Threads -> ThreadState] /\ cleaning' \in BOOLEAN
          /\ record_mutex' \in [Nodes -> Threads \cup {Nobody}]
          /\ node' \in [Nodes -> Node]
          /\ ShapeInv' /\ NodeLockInv' /\ RecordLockInv'
          /\ \A u \in Threads : th'[u] = IF u = t THEN IdleThread ELSE th[u]
      BY <1>5, ReturnStep DEF unlock_clients
    <2>2. clients_mutex = t
      BY <1>5 DEF unlock_clients, LockInv, MapLockInv
    <2>3. MapLockInv'
      BY <1>5, <2>1, <2>2 DEF unlock_clients, LockInv, MapLockInv, IdleThread
    <2>4. TypeOK'
      BY <1>5, <2>1 DEF unlock_clients, TypeOK, ThreadState
    <2>5. TodoInv'
      BY <1>5 DEF unlock_clients, TodoInv
    <2> QED BY <2>1, <2>3, <2>4, <2>5 DEF LockInv
  <1>6. ASSUME NEW e \in Endpoints, erase_or_skip(t, e) PROVE BaseInv'
    <2>1. clients_mutex = t /\ e \in DOMAIN clients /\ clients[e] \in Nodes
      BY <1>6 DEF erase_or_skip, LockInv, MapLockInv, TodoInv, TypeOK, Range
    <2>2. ShapeInv' /\ LockInv'
      BY <1>6 DEF erase_or_skip, ShapeInv, LockInv, NodeLockInv, RecordLockInv, MapLockInv
    <2>3. CASE Unwanted(t, clients[e])
      <3>1. clients' = Without(e) /\ node' = Collected(Erased(Closed(clients[e]), e))
        BY <1>6, <2>3 DEF erase_or_skip
      <3>2. Erased(Closed(clients[e]), e) \in [Nodes -> Node]
        BY <1>0, <2>1, UpdateTypes, ErasedType
      <3>3. node' \in [Nodes -> Node]
        BY <3>1, <3>2, NodeTypes
      <3>4. /\ (DOMAIN clients)' = DOMAIN clients \ {e}
            /\ (DOMAIN clients)' \subseteq Endpoints /\ Range(clients)' \subseteq Nodes
        BY <3>1, WithoutType
      <3>5. TypeOK'
        BY <1>6, <3>3, <3>4 DEF erase_or_skip, TypeOK
      <3>6. TodoInv'
        BY <1>6, <2>1, <3>4 DEF erase_or_skip, TodoInv
      <3> QED BY <2>2, <3>5, <3>6
    <2>4. CASE ~Unwanted(t, clients[e])
      BY <1>6, <2>1, <2>2, <2>4 DEF erase_or_skip, TypeOK, TodoInv
    <2> QED BY <2>3, <2>4
  <1> QED BY <1>1, <1>3, <1>4, <1>5, <1>6

(* A record or a timeout in a node's protocol.                             *)
LEMMA ProtocolStep ==
    ASSUME BaseInv, NEW t \in Threads,
           \/ read_protocol(t) \/ lock_record(t)
           \/ process_bytes(t) \/ Authenticate(t) \/ process_wait_list(t)
    PROVE  BaseInv'
  <1> USE NobodyAssumption DEF BaseInv
  <1>0. th[t] \in ThreadState /\ th \in [Threads -> ThreadState] /\ node \in [Nodes -> Node]
    BY DEF TypeOK, ThreadState
  <1>1. CASE read_protocol(t)
    <2>1. \E x \in ThreadState :
             th' = [th EXCEPT ![t] = x] /\ Shape(x) /\ x.step \in {"record", "idle"}
      <3>1. CASE node[th[t].node].protocol
        <4> DEFINE x == [th[t] EXCEPT !.step = "record"]
        <4>1. x \in ThreadState /\ x.step = "record"
          BY <1>0 DEF ThreadState, Steps
        <4>2. Shape(x)
          BY <1>0, <1>1 DEF ThreadState, read_protocol, ShapeInv, Shape
        <4>3. th' = [th EXCEPT ![t] = x]
          BY <1>0, <1>1, <3>1 DEF read_protocol, Go, ThreadState
        <4> HIDE DEF x
        <4> QED BY <4>1, <4>2, <4>3
      <3>2. CASE ~node[th[t].node].protocol
        <4>1. IdleThread \in ThreadState /\ Shape(IdleThread) /\ IdleThread.step = "idle"
          BY DEF IdleThread, ThreadState, Shape, Steps, Jobs
        <4> QED BY <1>1, <3>2, <4>1 DEF read_protocol, Finish
      <3> QED BY <3>1, <3>2
    <2>2. th' \in [Threads -> ThreadState] /\ ShapeInv' /\ LockInv'
      BY <1>1, <2>1, FreeStep DEF read_protocol, InProtocol
    <2>3. node' \in [Nodes -> Node]
      BY <1>0, <1>1, NodeTypes DEF read_protocol
    <2> QED BY <1>1, <2>2, <2>3 DEF read_protocol, TypeOK, ThreadState, TodoInv
  <1>2. CASE lock_record(t)
    <2>1. th' \in [Threads -> ThreadState]
      BY <1>0, <1>2 DEF lock_record, Go, ThreadState, Steps
    <2>2. TypeOK'
      BY <1>2, <2>1 DEF lock_record, TypeOK, ThreadState
    <2>3. ShapeInv'
      BY <1>0, <1>2 DEF lock_record, Go, ThreadState, ShapeInv, Shape
    <2>4. NodeLockInv' /\ MapLockInv' /\ TodoInv'
      BY <1>0, <1>2 DEF lock_record, Go, ThreadState, LockInv, NodeLockInv, MapLockInv, TodoInv
    <2>5. RecordLockInv'
      <3>1. /\ th[t].node \in Nodes /\ th[t].step = "record" /\ record_mutex[th[t].node] = Nobody
            /\ record_mutex' = [record_mutex EXCEPT ![th[t].node] = t]
            /\ \A u \in Threads : u # t => th'[u] = th[u]
            /\ th'[t].step = "bytes" /\ th'[t].node = th[t].node
        BY <1>0, <1>2 DEF lock_record, Go, ThreadState, ShapeInv, Shape
      <3> QED BY <3>1 DEF LockInv, RecordLockInv, InProtocol, TypeOK
    <2> QED BY <2>2, <2>3, <2>4, <2>5 DEF LockInv
  <1>3. CASE process_bytes(t) \/ process_wait_list(t)
    <2>1. /\ th[t].step = "bytes" /\ UnlockRecord(t)
          /\ UNCHANGED <<clients, records, posts, receiving, cleaning, clients_mutex,
                         todo, node_mutex>>
      BY <1>3 DEF process_bytes, process_wait_list
    <2>2. th[t].node \in Nodes
      BY <2>1 DEF ShapeInv, Shape
    <2>3. node' \in [Nodes -> Node]
      <3>1. CASE process_bytes(t)
        BY <1>0, <2>2, <3>1, NodeTypes, UpdateTypes DEF process_bytes
      <3>2. CASE process_wait_list(t)
        BY <1>0, <3>2, NodeTypes DEF process_wait_list
      <3> QED BY <1>3, <3>1, <3>2
    <2>4. th' \in [Threads -> ThreadState]
      BY <1>0, <2>1 DEF UnlockRecord, Finish, IdleThread, ThreadState, Steps, Jobs
    <2>5. record_mutex' \in [Nodes -> Threads \cup {Nobody}]
      BY <2>1 DEF UnlockRecord, TypeOK
    <2>6. TypeOK'
      BY <2>1, <2>3, <2>4, <2>5 DEF TypeOK, ThreadState
    <2>7. ShapeInv' /\ NodeLockInv' /\ MapLockInv' /\ TodoInv'
      BY <1>0, <2>1 DEF UnlockRecord, Finish, IdleThread, ShapeInv, Shape,
           LockInv, NodeLockInv, MapLockInv, TodoInv
    <2>8. RecordLockInv'
      BY <1>0, <2>1, <2>2 DEF UnlockRecord, Finish, IdleThread, LockInv, RecordLockInv, InProtocol, TypeOK
    <2> QED BY <2>6, <2>7, <2>8 DEF LockInv
  <1>4. CASE Authenticate(t)
    <2>2. th[t].node \in Nodes
      BY <1>4 DEF Authenticate, ShapeInv, Shape
    <2>3. node' \in [Nodes -> Node]
      BY <1>0, <1>4, <2>2, NodeTypes, UpdateTypes DEF Authenticate
    <2>4. th' \in [Threads -> ThreadState]
      BY <1>0, <1>4 DEF Authenticate, ThreadState, Steps, Jobs
    <2>5. TypeOK'
      BY <1>4, <2>3, <2>4 DEF Authenticate, TypeOK, ThreadState
    <2>6. ShapeInv'
      BY <1>0, <1>4, <2>2 DEF Authenticate, ThreadState, ShapeInv, Shape
    <2>7. NodeLockInv' /\ MapLockInv' /\ TodoInv'
      BY <1>0, <1>4 DEF Authenticate, ThreadState, LockInv, NodeLockInv, MapLockInv, TodoInv
    <2>8. RecordLockInv'
      BY <1>0, <1>4 DEF Authenticate, ThreadState, LockInv, RecordLockInv, InProtocol
    <2> QED BY <2>5, <2>6, <2>7, <2>8 DEF LockInv
  <1> QED BY <1>1, <1>2, <1>3, <1>4

(* A write from outside, and time passing; the endpoint that is posted is  *)
(* that of a node in use.                                                  *)
LEMMA OutsideStep ==
    ASSUME BaseInv, UseInv, NEW n \in Nodes, write(n) \/ Silence(n)
    PROVE  BaseInv'
  <1> USE DEF BaseInv
  <1>1. CASE write(n)
    <2>1. [job |-> "write", ep |-> node[n].ep] \in Post
      BY <1>1 DEF write, UseInv, Post
    <2>2. posts' \in Seq(Post)
      BY <1>1, <2>1 DEF write, TypeOK
    <2>3. TypeOK'
      BY <1>1, <2>2 DEF write, TypeOK
    <2> QED BY <1>1, <2>3 DEF write, ShapeInv, LockInv, NodeLockInv, RecordLockInv,
                              MapLockInv, TodoInv
  <1>2. CASE Silence(n)
    <2>1. node' \in [Nodes -> Node]
      BY <1>2, UpdateTypes DEF Silence, TypeOK
    <2>2. TypeOK'
      BY <1>2, <2>1 DEF Silence, TypeOK
    <2> QED BY <1>2, <2>2 DEF Silence, ShapeInv, LockInv, NodeLockInv, RecordLockInv,
                              MapLockInv, TodoInv
  <1> QED BY <1>1, <1>2

-----------------------------------------------------------------------------
(* The map and the nodes in use.                                           *)

LEMMA CollectedIs ==
    ASSUME NEW nodes, NEW n \in Nodes, n \in InUse'
    PROVE  Collected(nodes)[n] = nodes[n]
  BY DEF Collected

(* A thread t changes its pointer; the queue may lose its head or get that *)
(* pointer: no other node comes into use.                                  *)
LEMMA UseShrinks ==
    ASSUME TypeOK, NEW t \in Threads,
           \A u \in Threads : u # t => th'[u] = th[u],
           th'[t].node \in InUse \cup {Nobody},
           Range(clients') \subseteq InUse, Range(records') \subseteq InUse
    PROVE  \A n \in Nodes : n \in InUse' => n \in InUse
  <1> SUFFICES ASSUME NEW n \in Nodes, n \in InUse' PROVE n \in InUse
    OBVIOUS
  <1>1. CASE n \in Range(clients') \cup Range(records')
    BY <1>1
  <1>2. CASE \E u \in Threads : n = th'[u].node
    BY <1>2, NobodyAssumption DEF InUse
  <1> QED BY <1>1, <1>2 DEF InUse

LEMMA MapKept ==
    ASSUME TypeOK, MapInv, UseInv, clients' = clients,
           \A n \in Nodes : n \in InUse' => /\ n \in InUse
                                            /\ node'[n].ep = node[n].ep
                                            /\ node'[n].erased = node[n].erased
    PROVE  MapInv' /\ UseInv'
  <1>1. ASSUME NEW e \in DOMAIN clients PROVE clients[e] \in Nodes /\ clients[e] \in InUse'
    BY DEF TypeOK, InUse, Range
  <1>2. MapInv'
    BY <1>1 DEF MapInv
  <1>3. UseInv'
    BY DEF UseInv
  <1> QED BY <1>2, <1>3

LEMMA QueueRange ==
    ASSUME TypeOK
    PROVE  /\ records # <<>> => records[1] \in InUse /\ Range(Tail(records)) \subseteq InUse
           /\ \A n \in Nodes : n \in InUse => Range(Append(records, n)) \subseteq InUse
           /\ Range(records) \subseteq InUse /\ Range(clients) \subseteq InUse
           /\ \A t \in Threads : th[t].node \in InUse
  BY DEF TypeOK, InUse, Range

(* What a step may do to a node without touching the map: it keeps the     *)
(* endpoint, never goes back to the handshake, never takes back that it    *)
(* has authenticated, and does not settle.                                 *)
Keeps(n) == node'[n].ep = node[n].ep /\ node'[n].erased = node[n].erased
Ages(n) ==
    /\ node'[n].dtls = "handshake" => node[n].dtls = "handshake"
    /\ node[n].same => node'[n].same
    /\ node'[n].settled => node[n].settled
    /\ Twin(n)' => Twin(n)
Quiet ==
    /\ clients' = clients /\ NodeInv'
    /\ \A n \in Nodes : n \in InUse' => n \in InUse /\ Keeps(n) /\ Ages(n)

LEMMA NodeInvCollected ==
    ASSUME NEW nodes, \A n \in Nodes : NodeOK(nodes[n]), node' = Collected(nodes)
    PROVE  NodeInv'
  <1>1. NodeOK(Destroyed)
    BY DEF NodeOK, Destroyed
  <1> QED BY <1>1 DEF NodeInv, Collected

LEMMA QuietCollected ==
    ASSUME TypeOK, NodeInv, NEW k \in Nodes, NEW x \in Node, NodeOK(x),
           x.ep = node[k].ep, x.erased = node[k].erased,
           x.dtls = "handshake" => node[k].dtls = "handshake",
           node[k].same => x.same, x.settled => node[k].settled,
           x.protocol /\ x.same /\ x.settled => Twin(k),
           node' = Collected([node EXCEPT ![k] = x]),
           clients' = clients, \A n \in Nodes : n \in InUse' => n \in InUse
    PROVE  Quiet
  <1> DEFINE nodes == [node EXCEPT ![k] = x]
  <1>1. \A n \in Nodes : nodes[n] = IF n = k THEN x ELSE node[n]
    BY DEF TypeOK
  <1>0. node' = Collected(nodes)
    OBVIOUS
  <1> HIDE DEF nodes
  <1>2. NodeInv'
    <2>1. \A n \in Nodes : NodeOK(nodes[n])
      BY <1>1 DEF NodeInv
    <2> QED BY <1>0, <2>1, NodeInvCollected
  <1>3. ASSUME NEW n \in Nodes, n \in InUse' PROVE node'[n] = nodes[n]
    BY <1>3, CollectedIs DEF nodes
  <1>4. ASSUME NEW n \in Nodes, n \in InUse' PROVE Keeps(n) /\ Ages(n)
    <2>1. CASE n = k
      <3>1. node'[n] = x
        BY <1>1, <1>3, <1>4, <2>1
      <3> QED BY <2>1, <3>1 DEF Keeps, Ages, Twin
    <2>2. CASE n # k
      <3>1. node'[n] = node[n]
        BY <1>1, <1>3, <1>4, <2>2
      <3> QED BY <3>1 DEF Keeps, Ages, Twin
    <2> QED BY <2>1, <2>2
  <1> QED BY <1>2, <1>4 DEF Quiet

LEMMA QuietUnchanged ==
    ASSUME NodeInv, clients' = clients, node' = node \/ node' = Collected(node),
           \A n \in Nodes : n \in InUse' => n \in InUse
    PROVE  Quiet
  <1>1. NodeInv'
    BY NodeInvCollected DEF NodeInv
  <1>2. ASSUME NEW n \in Nodes, n \in InUse' PROVE node'[n] = node[n]
    BY <1>2, CollectedIs
  <1> QED BY <1>1, <1>2 DEF Quiet, Keeps, Ages, Twin

(* Everything but the changes of the map and the return from its loops is  *)
(* quiet.                                                                  *)
LEMMA QuietBegin ==
    ASSUME BaseInv, NodeInv, NEW t \in Threads,
           \/ \E e \in Endpoints : handle_receive(t, e) \/ on_protocol_timeout(t, e)
           \/ run_posted(t) \/ start_cleaning(t) \/ take_record(t)
    PROVE  Quiet
  <1>1. clients' = clients /\ node' = node
    BY DEF handle_receive, on_protocol_timeout, run_posted, start_cleaning, take_record
  <1>2. /\ \A u \in Threads : u # t => th'[u] = th[u]
        /\ th'[t].node \in InUse \cup {Nobody}
        /\ Range(records') \subseteq InUse
    <2>1. CASE take_record(t)
      BY <2>1, QueueRange DEF take_record, Begin, BaseInv, TypeOK
    <2>2. CASE run_posted(t) \/ start_cleaning(t)
      BY <2>2, QueueRange DEF run_posted, start_cleaning, Begin, BaseInv, TypeOK
    <2>3. CASE \E e \in Endpoints : handle_receive(t, e) \/ on_protocol_timeout(t, e)
      BY <2>3, QueueRange DEF handle_receive, on_protocol_timeout, Begin, BaseInv, TypeOK
    <2> QED BY <2>1, <2>2, <2>3
  <1>3. \A n \in Nodes : n \in InUse' => n \in InUse
    BY <1>1, <1>2, UseShrinks, QueueRange DEF BaseInv
  <1> QED BY <1>1, <1>3, QuietUnchanged

(* A thread that keeps, drops or finds in the map what it points to.       *)
LEMMA UseSteps ==
    ASSUME BaseInv, NEW t \in Threads, clients' = clients, records' = records,
           \/ \E x : Go(t, x)
           \/ Finish(t)
           \/ th' = [th EXCEPT ![t].step = "check", ![t].job = "copy"]
           \/ \E e \in DOMAIN clients : \E x :
                th' = [th EXCEPT ![t].node = clients[e], ![t].step = x]
    PROVE  \A n \in Nodes : n \in InUse' => n \in InUse
  <1>1. \A u \in Threads : u # t => th'[u] = th[u]
    BY DEF Go, Finish, BaseInv, TypeOK
  <1>2. th'[t].node \in InUse \cup {Nobody}
    <2>1. ASSUME NEW x, Go(t, x) PROVE th'[t].node = th[t].node
      BY <2>1 DEF Go, BaseInv, TypeOK
    <2>2. CASE Finish(t)
      BY <2>2 DEF Finish, IdleThread, BaseInv, TypeOK
    <2>3. CASE th' = [th EXCEPT ![t].step = "check", ![t].job = "copy"]
      BY <2>3, QueueRange DEF BaseInv, TypeOK
    <2>4. ASSUME NEW e \in DOMAIN clients, NEW x,
                 th' = [th EXCEPT ![t].node = clients[e], ![t].step = x]
          PROVE  th'[t].node = clients[e]
      BY <2>4 DEF BaseInv, TypeOK
    <2>5. \A e \in DOMAIN clients : clients[e] \in InUse
      BY DEF InUse, Range
    <2> QED BY <2>1, <2>2, <2>3, <2>4, <2>5, QueueRange DEF BaseInv
  <1> QED BY <1>1, <1>2, UseShrinks, QueueRange DEF BaseInv

LEMMA QuietGetNode ==
    ASSUME BaseInv, NodeInv, NEW t \in Threads,
           find_client(t) \/ (create_client(t) /\ th[t].ep \in DOMAIN clients) \/ lock_node(t)
    PROVE  Quiet
  <1>1. clients' = clients /\ node' = node /\ records' = records
    BY DEF find_client, create_client, lock_node
  <1>2. \A n \in Nodes : n \in InUse' => n \in InUse
    <2>1. CASE find_client(t) /\ th[t].ep \in DOMAIN clients
      <3>1. \E e \in DOMAIN clients : \E x : th' = [th EXCEPT ![t].node = clients[e], ![t].step = x]
        BY <2>1 DEF find_client
      <3> QED BY <1>1, <3>1, UseSteps
    <2>2. CASE find_client(t) /\ th[t].ep \notin DOMAIN clients
      <3>1. (\E x : Go(t, x)) \/ Finish(t)
        BY <2>2 DEF find_client
      <3> QED BY <1>1, <3>1, UseSteps
    <2>3. CASE create_client(t) /\ th[t].ep \in DOMAIN clients
      <3>1. \E e \in DOMAIN clients : \E x : th' = [th EXCEPT ![t].node = clients[e], ![t].step = x]
        BY <2>3 DEF create_client
      <3> QED BY <1>1, <3>1, UseSteps
    <2>4. CASE lock_node(t)
      <3>1. \E x : Go(t, x)
        BY <2>4 DEF lock_node
      <3> QED BY <1>1, <3>1, UseSteps
    <2> QED BY <2>1, <2>2, <2>3, <2>4
  <1> QED BY <1>1, <1>2, QuietUnchanged

LEMMA QuietLocked ==
    ASSUME BaseInv, NodeInv, NEW t \in Threads, ReceivedData(t) \/ write_impl(t)
    PROVE  Quiet
  <1> DEFINE k == th[t].node
  <1>1. th[t].step = "locked" /\ Finish(t) /\ clients' = clients
    BY DEF ReceivedData, ReceivedNothing, ReceivedHello, HandshakeDone, ReceivedRecord,
           ReceivedClose, write_impl, Processing, Unlock
  <1>2. k \in Nodes /\ k \in InUse
    BY <1>1, QueueRange DEF BaseInv, ShapeInv, Shape
  <1>3. \A n \in Nodes : n \in InUse' => n \in InUse
    <2>1. CASE ReceivedRecord(t)
      <3>1. /\ \A u \in Threads : u # t => th'[u] = th[u]
            /\ th'[t].node = Nobody
        BY <1>1 DEF Finish, IdleThread, BaseInv, TypeOK
      <3>2. Range(records') \subseteq InUse
        BY <1>2, <2>1, QueueRange DEF ReceivedRecord, add_received_record, BaseInv
      <3> QED BY <1>1, <3>1, <3>2, UseShrinks, QueueRange DEF BaseInv
    <2>2. CASE records' = records
      BY <1>1, <2>2, UseSteps
    <2> QED BY <2>1, <2>2 DEF ReceivedData, ReceivedNothing, ReceivedHello, HandshakeDone,
                              ReceivedClose, write_impl
  <1>4. node[k] \in Node /\ NodeOK(node[k])
    BY <1>2 DEF BaseInv, TypeOK, NodeInv
  <1>5. CASE ReceivedNothing(t) \/ ReceivedRecord(t) \/ write_impl(t)
    <2>1. node' = Collected(node)
      BY <1>5 DEF ReceivedNothing, ReceivedRecord, write_impl
    <2> QED BY <1>1, <1>3, <2>1, QuietUnchanged
  <1>6. CASE ReceivedHello(t)
    <2>1. PICK b \in BOOLEAN : node' = Collected([node EXCEPT ![k].dtls = "hello", ![k].protocol = b])
      BY <1>6 DEF ReceivedHello
    <2>2. node[k].dtls = "handshake"
      BY <1>6 DEF ReceivedHello, Processing
    <2> DEFINE x == [node[k] EXCEPT !.dtls = "hello", !.protocol = b]
    <2>3. x \in Node /\ x.ep = node[k].ep /\ x.erased = node[k].erased /\ x.dtls = "hello"
          /\ x.same = node[k].same /\ x.settled = node[k].settled
      BY <1>4 DEF Node
    <2>4. [node EXCEPT ![k].dtls = "hello", ![k].protocol = b] = [node EXCEPT ![k] = x]
      BY <1>2 DEF BaseInv, TypeOK, Node
    <2> HIDE DEF x
    <2>5. NodeOK(x) /\ ~x.same /\ ~node[k].same
      BY <1>4, <2>2, <2>3 DEF NodeOK
    <2> QED BY <1>1, <1>2, <1>3, <2>1, <2>3, <2>4, <2>5, QuietCollected DEF BaseInv
  <1>7. CASE HandshakeDone(t)
    <2> DEFINE x == [node[k] EXCEPT !.dtls = "active"]
    <2>1. node' = Collected([node EXCEPT ![k] = x])
      BY <1>2, <1>7 DEF HandshakeDone, BaseInv, TypeOK
    <2>2. x \in Node /\ x.ep = node[k].ep /\ x.erased = node[k].erased /\ x.dtls = "active"
          /\ x.same = node[k].same /\ x.settled = node[k].settled /\ x.protocol = node[k].protocol
      BY <1>4 DEF Node
    <2> HIDE DEF x
    <2>3. NodeOK(x)
      BY <1>4, <2>2 DEF NodeOK
    <2> QED BY <1>1, <1>2, <1>3, <2>1, <2>2, <2>3, QuietCollected DEF BaseInv, Twin
  <1>8. CASE ReceivedClose(t)
    <2>1. CASE ~node[k].protocol
      <3>1. node' = Collected(node)
        BY <1>8, <2>1 DEF ReceivedClose
      <3> QED BY <1>1, <1>3, <3>1, QuietUnchanged
    <2>2. CASE node[k].protocol
      <3> DEFINE x == [node[k] EXCEPT !.dtls = "closed", !.protocol = FALSE]
      <3>1. node' = Collected(Closed(k))
        BY <1>8, <2>2 DEF ReceivedClose
      <3>2. Closed(k) = [node EXCEPT ![k] = x]
        BY <1>2 DEF Closed, BaseInv, TypeOK, Node
      <3>3. x \in Node /\ x.ep = node[k].ep /\ x.erased = node[k].erased /\ x.dtls = "closed"
            /\ x.same = node[k].same /\ x.settled = node[k].settled /\ ~x.protocol
        BY <1>4 DEF Node
      <3> HIDE DEF x
      <3>4. NodeOK(x)
        BY <1>4, <3>3 DEF NodeOK
      <3> QED BY <1>1, <1>2, <1>3, <3>1, <3>2, <3>3, <3>4, QuietCollected DEF BaseInv
    <2> QED BY <2>1, <2>2
  <1> QED BY <1>5, <1>6, <1>7, <1>8 DEF ReceivedData

LEMMA QuietProtocol ==
    ASSUME BaseInv, NodeInv, CallerInv, NEW t \in Threads,
           \/ read_protocol(t) \/ lock_record(t)
           \/ process_bytes(t) \/ Authenticate(t) \/ process_wait_list(t)
    PROVE  Quiet
  <1> DEFINE k == th[t].node
  <1>1. /\ clients' = clients /\ records' = records
        /\ th[t].step \in {"protocol", "record", "bytes"}
    BY DEF read_protocol, lock_record, process_bytes, Authenticate, process_wait_list
  <1>2. k \in Nodes /\ k \in InUse
    BY <1>1, QueueRange DEF BaseInv, ShapeInv, Shape
  <1>3. \A n \in Nodes : n \in InUse' => n \in InUse
    <2>1. \/ \E x : Go(t, x)
          \/ Finish(t)
          \/ th' = [th EXCEPT ![t].step = "check", ![t].job = "copy"]
      BY DEF read_protocol, lock_record, process_bytes, Authenticate, process_wait_list,
             UnlockRecord
    <2> QED BY <1>1, <2>1, UseSteps
  <1>4. node[k] \in Node /\ NodeOK(node[k])
    BY <1>2 DEF BaseInv, TypeOK, NodeInv
  <1>5. CASE read_protocol(t) \/ lock_record(t) \/ process_wait_list(t)
    <2>1. node' = node \/ node' = Collected(node)
      BY <1>5 DEF read_protocol, lock_record, process_wait_list
    <2> QED BY <1>1, <1>3, <2>1, QuietUnchanged
  <1> DEFINE h == node[k].heard \/ node[k].protocol
             x == [node[k] EXCEPT !.heard = h]
  <1>6. h \in BOOLEAN
    BY Zenon
  <1>7. Heard(k) = [node EXCEPT ![k] = x]
    BY <1>2 DEF Heard, BaseInv, TypeOK
  <1> HIDE DEF h
  <1>8. x \in Node /\ x.ep = node[k].ep /\ x.erased = node[k].erased /\ x.dtls = node[k].dtls
        /\ x.same = node[k].same /\ x.settled = node[k].settled /\ x.protocol = node[k].protocol
    BY <1>4, <1>6 DEF Node
  <1> HIDE DEF x
  <1>9. CASE process_bytes(t)
    <2>1. node' = Collected([node EXCEPT ![k] = x])
      BY <1>7, <1>9 DEF process_bytes
    <2>2. NodeOK(x)
      BY <1>4, <1>8 DEF NodeOK
    <2> QED BY <1>1, <1>2, <1>3, <1>8, <2>1, <2>2, QuietCollected DEF BaseInv, Twin
  <1>10. CASE Authenticate(t)
    <2> DEFINE y == [x EXCEPT !.same = TRUE]
    <2>1. node' = Collected([node EXCEPT ![k] = y])
      BY <1>2, <1>7, <1>10 DEF Authenticate, BaseInv, TypeOK
    <2>2. y \in Node /\ y.ep = node[k].ep /\ y.erased = node[k].erased /\ y.dtls = node[k].dtls
          /\ y.same = TRUE /\ y.settled = node[k].settled /\ y.protocol = node[k].protocol
      BY <1>8 DEF Node
    <2> HIDE DEF y
    <2>3. ~node[k].same /\ ~node[k].settled
      BY <1>4, <1>10 DEF Authenticate, NodeOK
    <2>4. node[k].dtls # "handshake"
      BY <1>2, <1>10, NobodyAssumption DEF Authenticate, CallerInv, CallerOK, InProtocol
    <2>5. NodeOK(y)
      BY <2>2, <2>3, <2>4 DEF NodeOK
    <2> QED BY <1>1, <1>2, <1>3, <2>1, <2>2, <2>3, <2>4, <2>5, QuietCollected DEF BaseInv
  <1> QED BY <1>5, <1>9, <1>10

LEMMA QuietOutside ==
    ASSUME BaseInv, NodeInv, NEW k \in Nodes, write(k) \/ Silence(k)
    PROVE  Quiet
  <1>1. clients' = clients /\ records' = records /\ th' = th
    BY DEF write, Silence
  <1>2. \A n \in Nodes : n \in InUse' => n \in InUse
    BY <1>1 DEF InUse
  <1>3. CASE write(k)
    BY <1>1, <1>2, <1>3, QuietUnchanged DEF write
  <1>4. CASE Silence(k)
    <2>1. ASSUME NEW n \in Nodes
          PROVE  /\ node'[n].ep = node[n].ep /\ node'[n].erased = node[n].erased
                 /\ node'[n].dtls = node[n].dtls /\ node'[n].protocol = node[n].protocol
                 /\ node'[n].same = node[n].same /\ node'[n].settled = node[n].settled
      BY <1>4 DEF Silence, BaseInv, TypeOK, Node
    <2>2. NodeInv'
      BY <2>1 DEF NodeInv, NodeOK
    <2> QED BY <1>1, <1>2, <2>1, <2>2 DEF Quiet, Keeps, Ages, Twin
  <1> QED BY <1>3, <1>4

(* check finds something, the map is locked, or the loop passes a node.    *)
LEMMA QuietMap ==
    ASSUME BaseInv, NodeInv, NEW t \in Threads,
           \/ check(t) /\ ~Return(t, node)
           \/ lock_clients(t)
           \/ \E e \in Endpoints : erase_or_skip(t, e) /\ ~Unwanted(t, clients[e])
    PROVE  Quiet
  <1>1. /\ clients' = clients /\ records' = records /\ node' = node
        /\ (\E x : Go(t, x)) \/ th' = th
    BY DEF check, lock_clients, erase_or_skip
  <1>2. \A n \in Nodes : n \in InUse' => n \in InUse
    <2>1. CASE th' = th
      BY <1>1, <2>1 DEF InUse
    <2>2. CASE \E x : Go(t, x)
      BY <1>1, <2>2, UseSteps
    <2> QED BY <1>1, <2>1, <2>2
  <1> QED BY <1>1, <1>2, QuietUnchanged

(* What a quiet step leaves to be shown: the case of its own thread.       *)
LEMMA CallerAges ==
    ASSUME TypeOK, CallerInv, \A n \in Nodes : n \in InUse' => Ages(n),
           NEW u \in Threads, TypeOK', th'[u].node = th[u].node,
           th'[u].step = th[u].step \/ (th[u].step \in {"check", "exclusive"}
                                        /\ th'[u].step \in {"exclusive", "erasing"})
    PROVE  CallerOK(u)'
  <1>1. CASE th[u].node = Nobody
    BY <1>1 DEF CallerOK
  <1>2. CASE th[u].node # Nobody
    <2>1. th[u].node \in Nodes /\ th[u].node \in InUse'
      BY <1>2 DEF TypeOK, InUse
    <2>2. Ages(th[u].node)
      BY <2>1
    <2> QED BY <1>2, <2>1, <2>2 DEF Ages, CallerInv, CallerOK, InProtocol
  <1> QED BY <1>1, <1>2

LEMMA PassedAges ==
    ASSUME TypeOK, PassedInv, clients' = clients, \A n \in Nodes : n \in InUse' => Ages(n),
           NEW u \in Threads, th'[u] = th[u], todo' = todo
    PROVE  Passed(u)'
  <1>1. ASSUME NEW e \in DOMAIN clients PROVE Twin(clients[e])' => Twin(clients[e])
    <2>1. clients[e] \in Nodes /\ clients[e] \in InUse'
      BY DEF TypeOK, InUse, Range
    <2> QED BY <2>1 DEF Ages, Twin
  <1> QED BY <1>1 DEF PassedInv, Passed

LEMMA QuietTwin ==
    ASSUME TypeOK, TwinInv, Quiet
    PROVE  TwinInv'
  <1>1. ASSUME NEW e \in DOMAIN clients PROVE Twin(clients[e])' => Twin(clients[e])
    <2>1. clients[e] \in Nodes /\ clients[e] \in InUse'
      BY DEF TypeOK, InUse, Range, Quiet
    <2> QED BY <2>1 DEF Ages, Twin, Quiet
  <1> QED BY <1>1 DEF TwinInv, Quiet

LEMMA QuietCopy ==
    ASSUME TypeOK, TypeOK', CopyInv, Quiet, NEW t \in Threads,
           \A u \in Threads : u # t => th'[u] = th[u],
           todo' = todo \/ \A u \in Threads : u # t => th[u].step # "erasing",
           CallerOK(t)', Passed(t)'
    PROVE  CopyInv'
  <1> USE DEF CopyInv
  <1>1. NodeInv'
    BY DEF Quiet
  <1>2. CallerInv'
    <2>1. ASSUME NEW u \in Threads, u # t PROVE CallerOK(u)'
      BY <2>1, CallerAges DEF Quiet
    <2> QED BY <2>1 DEF CallerInv
  <1>3. PassedInv'
    <2>1. ASSUME NEW u \in Threads, u # t PROVE Passed(u)'
      <3>1. CASE todo' = todo
        BY <2>1, <3>1, PassedAges DEF Quiet
      <3>2. CASE th[u].step # "erasing"
        BY <2>1, <3>2 DEF Passed
      <3> QED BY <2>1, <3>1, <3>2
    <2> QED BY <2>1 DEF PassedInv
  <1>4. TwinInv'
    BY QuietTwin
  <1> QED BY <1>1, <1>2, <1>3, <1>4

Rest == MapInv /\ UseInv /\ CopyInv

LEMMA QuietRest ==
    ASSUME BaseInv, BaseInv', Rest, Quiet, NEW t \in Threads,
           \A u \in Threads : u # t => th'[u] = th[u],
           todo' = todo \/ \A u \in Threads : u # t => th[u].step # "erasing",
           CallerOK(t)', Passed(t)'
    PROVE  Rest'
  <1>1. MapInv' /\ UseInv'
    BY MapKept DEF BaseInv, Rest, Quiet, Keeps
  <1>2. CopyInv'
    BY QuietCopy DEF BaseInv, Rest
  <1> QED BY <1>1, <1>2 DEF Rest

(* A step that ends outside of every protocol asks nothing of its node.    *)
LEMMA OutsideOfProtocol ==
    ASSUME NEW t \in Threads, th'[t].step \notin InProtocol \cup {"record"} \/ th'[t].node = Nobody
    PROVE  CallerOK(t)' /\ (th'[t].step # "erasing" => Passed(t)')
  BY DEF CallerOK, Passed, InProtocol

LEMMA RestBegin ==
    ASSUME BaseInv, BaseInv', Rest, NEW t \in Threads,
           \/ \E e \in Endpoints : handle_receive(t, e) \/ on_protocol_timeout(t, e)
           \/ run_posted(t) \/ start_cleaning(t) \/ take_record(t)
    PROVE  Rest'
  <1>1. Quiet
    BY QuietBegin DEF Rest, CopyInv
  <1>2. /\ todo' = todo /\ \A u \in Threads : u # t => th'[u] = th[u]
        /\ th'[t].step \in {"find", "remove", "check", "protocol"}
        /\ th'[t].step = "check" => th'[t].node = Nobody
    <2>1. CASE \E e \in Endpoints : handle_receive(t, e) \/ on_protocol_timeout(t, e)
      BY <2>1 DEF handle_receive, on_protocol_timeout, Begin, BaseInv, TypeOK
    <2>2. CASE run_posted(t)
      BY <2>2 DEF run_posted, Begin, BaseInv, TypeOK
    <2>3. CASE start_cleaning(t)
      BY <2>3 DEF start_cleaning, Begin, BaseInv, TypeOK
    <2>4. CASE take_record(t)
      BY <2>4 DEF take_record, Begin, BaseInv, TypeOK
    <2> QED BY <2>1, <2>2, <2>3, <2>4
  <1> QED BY <1>1, <1>2, OutsideOfProtocol, QuietRest DEF InProtocol

LEMMA RestGetNode ==
    ASSUME BaseInv, BaseInv', Rest, NEW t \in Threads,
           find_client(t) \/ (create_client(t) /\ th[t].ep \in DOMAIN clients) \/ lock_node(t)
    PROVE  Rest'
  <1>1. Quiet
    BY QuietGetNode DEF Rest, CopyInv
  <1>2. /\ todo' = todo /\ \A u \in Threads : u # t => th'[u] = th[u]
        /\ th'[t].step \in {"protocol", "lock", "create", "idle", "locked"}
    <2>1. CASE find_client(t)
      BY <2>1 DEF find_client, Go, Finish, IdleThread, BaseInv, TypeOK
    <2>2. CASE create_client(t) /\ th[t].ep \in DOMAIN clients
      BY <2>2 DEF create_client, BaseInv, TypeOK
    <2>3. CASE lock_node(t)
      BY <2>3 DEF lock_node, Go, BaseInv, TypeOK
    <2> QED BY <2>1, <2>2, <2>3
  <1> QED BY <1>1, <1>2, OutsideOfProtocol, QuietRest DEF InProtocol

LEMMA RestLocked ==
    ASSUME BaseInv, BaseInv', Rest, NEW t \in Threads, ReceivedData(t) \/ write_impl(t)
    PROVE  Rest'
  <1>1. Quiet
    BY QuietLocked DEF Rest, CopyInv
  <1>2. todo' = todo /\ Finish(t)
    BY DEF ReceivedData, ReceivedNothing, ReceivedHello, HandshakeDone, ReceivedRecord,
           ReceivedClose, write_impl, Unlock
  <1>3. (\A u \in Threads : u # t => th'[u] = th[u]) /\ th'[t].step = "idle"
    BY <1>2 DEF Finish, IdleThread, BaseInv, TypeOK
  <1> QED BY <1>1, <1>2, <1>3, OutsideOfProtocol, QuietRest DEF InProtocol

LEMMA RestProtocol ==
    ASSUME BaseInv, BaseInv', Rest, NEW t \in Threads,
           \/ read_protocol(t) \/ lock_record(t)
           \/ process_bytes(t) \/ Authenticate(t) \/ process_wait_list(t)
    PROVE  Rest'
  <1>0. th \in [Threads -> ThreadState]
    BY DEF BaseInv, TypeOK, ThreadState
  <1>1. Quiet
    BY QuietProtocol DEF Rest, CopyInv
  <1>2. /\ todo' = todo
        /\ \E x : Go(t, x) \/ Finish(t) \/ th' = [th EXCEPT ![t].step = "check", ![t].job = "copy"]
    BY DEF read_protocol, lock_record, process_bytes, Authenticate, process_wait_list,
           UnlockRecord
  <1>3. \A u \in Threads : u # t => th'[u] = th[u]
    BY <1>0, <1>2 DEF Go, Finish, ThreadState
  <1>4. CallerOK(t)' /\ Passed(t)'
    <2>1. CASE Finish(t)
      <3>1. th'[t].step = "idle"
        BY <1>0, <2>1 DEF Finish, IdleThread
      <3> QED BY <3>1, OutsideOfProtocol DEF InProtocol
    <2> DEFINE k == th[t].node
    <2>2. CASE lock_record(t)
      <3>1. th[t].step = "record" /\ th'[t].step = "bytes" /\ th'[t].node = k /\ k \in Nodes
        BY <1>0, <2>2 DEF lock_record, Go, ThreadState, BaseInv, ShapeInv, Shape
      <3>2. k \in InUse'
        BY <3>1 DEF InUse
      <3>3. node'[k].dtls # "handshake"
        BY <1>1, <3>1, <3>2, NobodyAssumption
           DEF Quiet, Ages, Rest, CopyInv, CallerInv, CallerOK, InProtocol
      <3> QED BY <3>1, <3>3 DEF CallerOK, Passed
    <2>3. CASE Authenticate(t)
      <3>1. /\ th[t].step = "bytes" /\ th'[t].step = "check" /\ th'[t].node = k
            /\ k \in Nodes /\ ~node[k].same
        BY <1>0, <2>3 DEF Authenticate, ThreadState, BaseInv, ShapeInv, Shape
      <3>2. k \in InUse'
        BY <3>1 DEF InUse
      <3>3. node'[k].dtls # "handshake" /\ ~node'[k].settled
        BY <1>1, <3>1, <3>2, NobodyAssumption
           DEF Quiet, Ages, Rest, CopyInv, CallerInv, CallerOK, NodeInv, NodeOK, InProtocol
      <3>4. node'[k].same
        <4>0. Heard(k) \in [Nodes -> Node]
          BY <3>1, UpdateTypes DEF BaseInv, TypeOK
        <4>1. node'[k] = [Heard(k) EXCEPT ![k].same = TRUE][k]
          BY <2>3, <3>1, <3>2, CollectedIs DEF Authenticate
        <4> QED BY <3>1, <4>0, <4>1 DEF Node
      <3> QED BY <3>1, <3>3, <3>4 DEF CallerOK, Passed
    <2>4. CASE read_protocol(t) /\ node[k].protocol
      <3>1. th'[t].step = "record" /\ th'[t].node = k /\ k \in Nodes
        BY <1>0, <2>4 DEF read_protocol, Go, ThreadState, BaseInv, ShapeInv, Shape
      <3>2. k \in InUse'
        BY <3>1 DEF InUse
      <3>3. node'[k].dtls # "handshake"
        BY <1>1, <2>4, <3>1, <3>2 DEF Quiet, Ages, Rest, CopyInv, NodeInv, NodeOK
      <3> QED BY <3>1, <3>3 DEF CallerOK, Passed
    <2> QED BY <2>1, <2>2, <2>3, <2>4 DEF read_protocol, process_bytes, process_wait_list,
                                          UnlockRecord
  <1> QED BY <1>1, <1>2, <1>3, <1>4, QuietRest

LEMMA RestOutside ==
    ASSUME BaseInv, BaseInv', Rest, NEW k \in Nodes, write(k) \/ Silence(k)
    PROVE  Rest'
  <1>1. Quiet
    BY QuietOutside DEF Rest, CopyInv
  <1>2. todo' = todo /\ th' = th
    BY DEF write, Silence
  <1>3. MapInv' /\ UseInv' /\ NodeInv' /\ TwinInv'
    BY <1>1, MapKept, QuietTwin DEF BaseInv, Rest, CopyInv, Quiet, Keeps
  <1>4. ASSUME NEW t \in Threads PROVE CallerOK(t)' /\ Passed(t)'
    BY <1>1, <1>2, CallerAges, PassedAges DEF Quiet, BaseInv, Rest, CopyInv
  <1> QED BY <1>3, <1>4 DEF Rest, CopyInv, CallerInv, PassedInv

(* create_client puts a node that nobody uses into the map.                *)
LEMMA RestEmplace ==
    ASSUME BaseInv, BaseInv', Rest, NEW t \in Threads, create_client(t),
           th[t].ep \notin DOMAIN clients
    PROVE  Rest'
  <1> DEFINE e == th[t].ep
  <1>1. PICK n \in Nodes \ InUse : Emplace(t, e, n)
    BY DEF create_client
  <1>2. e \in Endpoints /\ th[t].step = "create" /\ clients_mutex = Nobody
    BY DEF create_client, BaseInv, ShapeInv, Shape
  <1>3. /\ (DOMAIN clients)' = DOMAIN clients \cup {e} /\ clients'[e] = n
        /\ \A d \in DOMAIN clients : d # e /\ clients'[d] = clients[d] /\ clients[d] # n
                                     /\ clients[d] \in Nodes /\ clients[d] \in InUse
    BY <1>1 DEF Emplace, BaseInv, TypeOK, InUse, Range
  <1>4. /\ \A u \in Threads : u # t => th'[u] = th[u] /\ th[u].node # n
        /\ th'[t].node = n /\ th'[t].step = "lock"
    BY <1>1 DEF Emplace, BaseInv, TypeOK, InUse
  <1>5. records' = records
    BY DEF create_client
  <1>6. ASSUME NEW m \in Nodes, m \in InUse', m # n PROVE m \in InUse
    <2>1. CASE m \in Range(clients')
      BY <1>3, <1>6, <2>1 DEF Range
    <2>2. CASE m \in Range(records')
      BY <1>5, <2>2 DEF InUse
    <2>3. CASE \E u \in Threads : m = th'[u].node
      BY <1>4, <1>6, <2>3 DEF InUse
    <2> QED BY <1>6, <2>1, <2>2, <2>3 DEF InUse
  <1> DEFINE nodes == [node EXCEPT ![n] = NewNode(e)]
  <1>7. nodes[n] = NewNode(e) /\ \A m \in Nodes : m # n => nodes[m] = node[m]
    BY DEF BaseInv, TypeOK
  <1>8. node' = Collected(nodes)
    BY <1>1 DEF Emplace
  <1> HIDE DEF nodes
  <1>9. ASSUME NEW m \in Nodes, m \in InUse'
        PROVE  node'[m] = IF m = n THEN NewNode(e) ELSE node[m]
    BY <1>7, <1>8, <1>9, CollectedIs
  <1>10. n \in InUse' /\ \A d \in DOMAIN clients : clients[d] \in InUse'
    BY <1>3 DEF InUse, Range
  <1>11. MapInv'
    <2>1. node'[n].ep = e /\ ~node'[n].erased
      BY <1>9, <1>10 DEF NewNode, Destroyed
    <2>2. ASSUME NEW d \in DOMAIN clients PROVE node'[clients[d]] = node[clients[d]]
      BY <1>3, <1>9, <1>10
    <2> QED BY <1>3, <2>1, <2>2 DEF MapInv, Rest
  <1>12. UseInv'
    <2> SUFFICES ASSUME NEW m \in Nodes, m \in InUse'
                 PROVE  /\ node'[m].ep \in Endpoints
                        /\ node'[m].erased \/ (node'[m].ep \in (DOMAIN clients)'
                                               /\ clients'[node'[m].ep] = m)
      BY DEF UseInv
    <2>1. CASE m = n
      <3>1. node'[m].ep = e
        BY <1>9, <2>1 DEF NewNode, Destroyed
      <3> QED BY <1>2, <1>3, <2>1, <3>1
    <2>2. CASE m # n
      <3>1. m \in InUse /\ node'[m] = node[m]
        BY <1>6, <1>9, <2>2
      <3> QED BY <1>3, <3>1 DEF UseInv, Rest
    <2> QED BY <2>1, <2>2
  <1>13. NodeInv'
    <2>1. NodeOK(NewNode(e))
      BY DEF NodeOK, NewNode, Destroyed
    <2>2. \A m \in Nodes : NodeOK(nodes[m])
      BY <1>7, <2>1 DEF Rest, CopyInv, NodeInv
    <2> QED BY <1>8, <2>2, NodeInvCollected
  <1>14. CallerInv'
    <2>1. ASSUME NEW u \in Threads, u # t, th[u].node # Nobody
          PROVE  node'[th[u].node] = node[th[u].node]
      <3>1. th[u].node \in Nodes /\ th[u].node \in InUse'
        BY <1>4, <2>1 DEF BaseInv, TypeOK, InUse
      <3> QED BY <1>4, <1>9, <2>1, <3>1
    <2>2. ASSUME NEW u \in Threads, u # t PROVE CallerOK(u)'
      BY <1>4, <2>1, <2>2 DEF Rest, CopyInv, CallerInv, CallerOK
    <2>3. CallerOK(t)'
      BY <1>4 DEF CallerOK, InProtocol
    <2> QED BY <2>2, <2>3 DEF CallerInv
  <1>15. PassedInv'
    <2>1. \A u \in Threads : th'[u].step # "erasing"
      BY <1>2, <1>4, NobodyAssumption DEF BaseInv, LockInv, MapLockInv
    <2> QED BY <2>1 DEF PassedInv, Passed
  <1>16. TwinInv'
    <2>1. ~Twin(n)'
      BY <1>9, <1>10 DEF Twin, NewNode, Destroyed
    <2>2. ASSUME NEW d \in DOMAIN clients PROVE Twin(clients[d])' => Twin(clients[d])
      BY <1>3, <1>9, <1>10 DEF Twin
    <2> QED BY <1>3, <2>1, <2>2 DEF Rest, CopyInv, TwinInv, Twin
  <1> QED BY <1>11, <1>12, <1>13, <1>14, <1>15, <1>16 DEF Rest, CopyInv

(* An endpoint is taken out of the map and its node marked.                *)
LEMMA MapErase ==
    ASSUME BaseInv, Rest, NEW e, clients' = Without(e),
           \A m \in Nodes : m \in InUse' =>
              /\ m \in InUse /\ node'[m].ep = node[m].ep /\ Ages(m)
              /\ IF e \in DOMAIN clients /\ m = clients[e]
                   THEN node'[m].erased ELSE node'[m].erased = node[m].erased
    PROVE  MapInv' /\ UseInv' /\ TwinInv'
  <1>1. /\ (DOMAIN clients)' = DOMAIN clients \ {e}
        /\ \A d \in DOMAIN clients \ {e} : clients'[d] = clients[d]
    BY WithoutType DEF BaseInv
  <1>2. ASSUME NEW d \in DOMAIN clients \ {e}
        PROVE  clients[d] \in Nodes /\ clients[d] \in InUse'
               /\ (e \in DOMAIN clients => clients[d] # clients[e])
    BY <1>1 DEF BaseInv, TypeOK, InUse, Range, Rest, MapInv
  <1>3. MapInv'
    BY <1>1, <1>2 DEF Rest, MapInv
  <1>4. UseInv'
    BY <1>1 DEF Rest, UseInv
  <1>5. TwinInv'
    <2>1. ASSUME NEW d \in DOMAIN clients \ {e} PROVE Twin(clients[d])' => Twin(clients[d])
      BY <1>1, <1>2 DEF Ages, Twin
    <2> QED BY <1>1, <2>1 DEF Rest, CopyInv, TwinInv
  <1> QED BY <1>3, <1>4, <1>5

(* The fields of a node that is marked, or closed and marked.              *)
LEMMA ErasedFields ==
    ASSUME NEW nodes \in [Nodes -> Node], NEW e \in DOMAIN clients, clients[e] \in Nodes,
           NEW m \in Nodes
    PROVE  /\ Erased(nodes, e)[m].ep = nodes[m].ep
           /\ Erased(nodes, e)[m].dtls = nodes[m].dtls
           /\ Erased(nodes, e)[m].protocol = nodes[m].protocol
           /\ Erased(nodes, e)[m].same = nodes[m].same
           /\ Erased(nodes, e)[m].settled = nodes[m].settled
           /\ m = clients[e] => Erased(nodes, e)[m].erased
           /\ m # clients[e] => Erased(nodes, e)[m].erased = nodes[m].erased
  BY DEF Erased, Node

LEMMA ClosedFields ==
    ASSUME node \in [Nodes -> Node], NEW n \in Nodes, NEW m \in Nodes
    PROVE  /\ Closed(n)[m].ep = node[m].ep
           /\ Closed(n)[m].same = node[m].same
           /\ Closed(n)[m].settled = node[m].settled
           /\ Closed(n)[m].erased = node[m].erased
           /\ Closed(n)[m].dtls = IF m = n THEN "closed" ELSE node[m].dtls
           /\ Closed(n)[m].protocol => node[m].protocol /\ m # n
  BY DEF Closed, Node

LEMMA RestRemove ==
    ASSUME BaseInv, BaseInv', Rest, NEW t \in Threads, remove_client(t)
    PROVE  Rest'
  <1> DEFINE e == th[t].ep
  <1>1. clients' = Without(e) /\ records' = records /\ clients_mutex = Nobody
    BY DEF remove_client
  <1>2. /\ (DOMAIN clients)' = DOMAIN clients \ {e}
        /\ \A d \in DOMAIN clients \ {e} : clients'[d] = clients[d]
    BY <1>1, WithoutType DEF BaseInv
  <1>3. (\A u \in Threads : u # t => th'[u] = th[u]) /\ th'[t] = IdleThread
    BY DEF remove_client, Finish, BaseInv, TypeOK
  <1>4. \A n \in Nodes : n \in InUse' => n \in InUse
    <2>1. Range(clients') \subseteq InUse
      BY <1>2 DEF InUse, Range
    <2> QED BY <1>1, <1>3, <2>1, UseShrinks, QueueRange DEF BaseInv, IdleThread
  <1> DEFINE nodes == IF e \in DOMAIN clients THEN Erased(node, e) ELSE node
  <1>5. ASSUME NEW m \in Nodes
        PROVE  /\ nodes[m].ep = node[m].ep /\ nodes[m].dtls = node[m].dtls
               /\ nodes[m].protocol = node[m].protocol /\ nodes[m].same = node[m].same
               /\ nodes[m].settled = node[m].settled
               /\ IF e \in DOMAIN clients /\ m = clients[e]
                    THEN nodes[m].erased ELSE nodes[m].erased = node[m].erased
    <2>1. CASE e \in DOMAIN clients
      <3>1. clients[e] \in Nodes /\ node \in [Nodes -> Node]
        BY <2>1 DEF BaseInv, TypeOK, Range
      <3> QED BY <2>1, <3>1, ErasedFields
    <2>2. CASE e \notin DOMAIN clients
      BY <2>2
    <2> QED BY <2>1, <2>2
  <1>6. node' = Collected(nodes)
    BY DEF remove_client
  <1> HIDE DEF nodes
  <1>7. ASSUME NEW m \in Nodes, m \in InUse'
        PROVE  /\ m \in InUse /\ node'[m].ep = node[m].ep /\ Ages(m)
               /\ IF e \in DOMAIN clients /\ m = clients[e]
                    THEN node'[m].erased ELSE node'[m].erased = node[m].erased
    <2>1. node'[m] = nodes[m]
      BY <1>6, <1>7, CollectedIs
    <2> QED BY <1>4, <1>5, <1>7, <2>1 DEF Ages, Twin
  <1>8. MapInv' /\ UseInv' /\ TwinInv'
    BY <1>1, <1>7, MapErase
  <1>9. NodeInv'
    <2>1. \A m \in Nodes : NodeOK(nodes[m])
      BY <1>5 DEF NodeOK, Rest, CopyInv, NodeInv
    <2> QED BY <1>6, <2>1, NodeInvCollected
  <1>10. CallerInv'
    <2>1. ASSUME NEW u \in Threads, u # t PROVE CallerOK(u)'
      BY <1>3, <1>7, <2>1, CallerAges DEF BaseInv, Rest, CopyInv
    <2>2. CallerOK(t)'
      BY <1>3 DEF CallerOK, IdleThread, InProtocol
    <2> QED BY <2>1, <2>2 DEF CallerInv
  <1>11. PassedInv'
    <2>1. \A u \in Threads : th'[u].step # "erasing"
      BY <1>1, <1>3, NobodyAssumption DEF BaseInv, LockInv, MapLockInv, IdleThread
    <2> QED BY <2>1 DEF PassedInv, Passed
  <1> QED BY <1>8, <1>9, <1>10, <1>11 DEF Rest, CopyInv

(* One turn of a loop under clients_mutex_.                                *)
LEMMA RestTurn ==
    ASSUME BaseInv, BaseInv', Rest, NEW t \in Threads, NEW e \in Endpoints, erase_or_skip(t, e)
    PROVE  Rest'
  <1>1. /\ e \in DOMAIN clients /\ clients[e] \in Nodes /\ th' = th /\ records' = records
        /\ th[t].step = "erasing" /\ todo' = todo \ {e} /\ clients_mutex = t
    BY DEF erase_or_skip, BaseInv, TodoInv, TypeOK, Range, LockInv, MapLockInv
  <1>2. \A u \in Threads : u # t => th[u].step # "erasing"
    BY <1>1 DEF BaseInv, LockInv, MapLockInv
  <1>3. CASE ~Unwanted(t, clients[e])
    <2>1. Quiet
      BY <1>3, QuietMap DEF Rest, CopyInv
    <2>2. CallerOK(t)'
      BY <1>1, <2>1, CallerAges DEF Quiet, BaseInv, Rest, CopyInv
    <2>3. Passed(t)'
      <3> SUFFICES ASSUME NEW d \in DOMAIN clients, th[t].job = "copy", d \notin todo \ {e},
                          clients[d] # th[t].node, Twin(clients[d])'
                   PROVE  FALSE
        BY <1>1, <2>1 DEF Passed, Twin, Quiet
      <3>1. clients[d] \in Nodes /\ clients[d] \in InUse'
        BY <2>1 DEF BaseInv, TypeOK, InUse, Range, Quiet
      <3>2. Twin(clients[d])
        BY <2>1, <3>1 DEF Quiet, Ages, Twin
      <3>3. CASE d = e
        <4>1. th[t].node # Nobody
          BY <1>1, NobodyAssumption DEF BaseInv, ShapeInv, Shape
        <4>2. node[th[t].node].same
          BY <1>1, <4>1 DEF Rest, CopyInv, CallerInv, CallerOK
        <4> QED BY <1>3, <3>2, <3>3, <4>2 DEF Unwanted, IsCopy, Twin
      <3>4. CASE d # e
        BY <1>1, <3>2, <3>4 DEF Rest, CopyInv, PassedInv, Passed
      <3> QED BY <3>3, <3>4
    <2> QED BY <1>1, <1>2, <2>1, <2>2, <2>3, QuietRest
  <1>4. CASE Unwanted(t, clients[e])
    <2> DEFINE k == clients[e]
               nodes == Erased(Closed(k), e)
    <2>1. clients' = Without(e) /\ node' = Collected(nodes)
      BY <1>4 DEF erase_or_skip
    <2>2. /\ (DOMAIN clients)' = DOMAIN clients \ {e}
          /\ \A d \in DOMAIN clients \ {e} : clients'[d] = clients[d]
      BY <2>1, WithoutType DEF BaseInv
    <2>3. \A n \in Nodes : n \in InUse' => n \in InUse
      <3>1. Range(clients') \subseteq InUse
        BY <2>2 DEF InUse, Range
      <3> QED BY <1>1, <3>1, UseShrinks, QueueRange DEF BaseInv
    <2>4. node \in [Nodes -> Node] /\ Closed(k) \in [Nodes -> Node]
      BY <1>1, UpdateTypes DEF BaseInv, TypeOK
    <2>5. ASSUME NEW m \in Nodes
          PROVE  /\ nodes[m].ep = node[m].ep /\ nodes[m].same = node[m].same
                 /\ nodes[m].settled = node[m].settled
                 /\ nodes[m].dtls = IF m = k THEN "closed" ELSE node[m].dtls
                 /\ nodes[m].protocol => node[m].protocol /\ m # k
                 /\ m = k => nodes[m].erased
                 /\ m # k => nodes[m].erased = node[m].erased
      BY <1>1, <2>4, ClosedFields, ErasedFields
    <2> HIDE DEF nodes
    <2>6. ASSUME NEW m \in Nodes, m \in InUse'
          PROVE  /\ m \in InUse /\ node'[m].ep = node[m].ep /\ Ages(m)
                 /\ IF e \in DOMAIN clients /\ m = clients[e]
                      THEN node'[m].erased ELSE node'[m].erased = node[m].erased
      <3>1. node'[m] = nodes[m]
        BY <2>1, <2>6, CollectedIs
      <3>2. Ages(m)
        <4>1. CASE m = k
          BY <2>5, <3>1, <4>1 DEF Ages, Twin
        <4>2. CASE m # k
          BY <2>5, <3>1, <4>2 DEF Ages, Twin
        <4> QED BY <4>1, <4>2
      <3>3. m \in InUse /\ node'[m].ep = node[m].ep
        BY <2>3, <2>5, <2>6, <3>1
      <3>4. CASE m = k
        BY <1>1, <2>5, <3>1, <3>2, <3>3, <3>4
      <3>5. CASE m # k
        BY <2>5, <3>1, <3>2, <3>3, <3>5
      <3> QED BY <3>4, <3>5
    <2>7. MapInv' /\ UseInv' /\ TwinInv'
      BY <2>1, <2>6, MapErase
    <2>8. NodeInv'
      <3>1. \A m \in Nodes : NodeOK(nodes[m])
        BY <2>5 DEF NodeOK, Rest, CopyInv, NodeInv
      <3> QED BY <2>1, <3>1, NodeInvCollected
    <2>9. CallerInv'
      BY <1>1, <2>6, CallerAges DEF BaseInv, Rest, CopyInv, CallerInv
    <2>10. PassedInv'
      <3>1. Passed(t)'
        <4> SUFFICES ASSUME NEW d \in DOMAIN clients \ {e}, th[t].job = "copy",
                            d \notin todo \ {e}, clients[d] # th[t].node, Twin(clients[d])'
                     PROVE  FALSE
          BY <1>1, <2>2 DEF Passed, Twin
        <4>1. clients[d] \in Nodes /\ clients[d] \in InUse'
          BY <2>2 DEF BaseInv, TypeOK, InUse, Range
        <4>2. Twin(clients[d])
          BY <2>2, <2>6, <4>1 DEF Ages, Twin
        <4> QED BY <1>1, <4>2 DEF Rest, CopyInv, PassedInv, Passed
      <3>2. ASSUME NEW u \in Threads, u # t PROVE Passed(u)'
        BY <1>1, <1>2, <3>2 DEF Passed
      <3> QED BY <3>1, <3>2 DEF PassedInv
    <2> QED BY <2>7, <2>8, <2>9, <2>10 DEF Rest, CopyInv
  <1> QED BY <1>3, <1>4

(* A node settles when its thread returns from remove_copy: nothing that   *)
(* the check or the loop has seen, and nothing that has changed since, is  *)
(* a settled copy of it.                                                   *)
LEMMA RestReturn ==
    ASSUME BaseInv, BaseInv', Rest, NEW t \in Threads, Return(t, node),
           clients' = clients, records' = records, todo' = todo,
           th[t].step \in {"check", "erasing"},
           \A u \in Threads : u # t => th[u].step # "erasing",
           th[t].job = "copy" =>
              \A d \in DOMAIN clients : clients[d] # th[t].node => ~Twin(clients[d])
    PROVE  Rest'
  <1> DEFINE k == th[t].node
             nodes == [n \in Nodes |-> IF n = k THEN [node[n] EXCEPT !.settled = TRUE] ELSE node[n]]
  <1>1. (\A u \in Threads : u # t => th'[u] = th[u]) /\ th'[t] = IdleThread
    BY DEF Return, Finish, BaseInv, TypeOK
  <1>2. \A n \in Nodes : n \in InUse' => n \in InUse
    <2>1. UNCHANGED <<clients, records>> /\ Finish(t)
      BY DEF Return
    <2> QED BY <2>1, UseSteps
  <1>3. node' = Collected(nodes)
    BY Zenon DEF Return
  <1>4. ASSUME NEW x \in Node
        PROVE  LET y == [x EXCEPT !.settled = TRUE] IN
               /\ y.ep = x.ep /\ y.erased = x.erased /\ y.dtls = x.dtls
               /\ y.protocol = x.protocol /\ y.same = x.same /\ y.settled
    BY DEF Node
  <1>5. ASSUME NEW m \in Nodes
        PROVE  /\ nodes[m].ep = node[m].ep /\ nodes[m].erased = node[m].erased
               /\ nodes[m].dtls = node[m].dtls /\ nodes[m].protocol = node[m].protocol
               /\ nodes[m].same = node[m].same
               /\ m # k => nodes[m].settled = node[m].settled
    <2>1. node[m] \in Node
      BY DEF BaseInv, TypeOK
    <2>2. CASE m = k
      BY <1>4, <2>1, <2>2
    <2>3. CASE m # k
      BY <2>3
    <2> QED BY <2>2, <2>3
  <1> HIDE DEF nodes
  <1>6. ASSUME NEW m \in Nodes, m \in InUse' PROVE node'[m] = nodes[m]
    BY <1>3, <1>6, CollectedIs
  <1>7. MapInv' /\ UseInv'
    <2>1. ASSUME NEW n \in Nodes, n \in InUse'
          PROVE  n \in InUse /\ node'[n].ep = node[n].ep /\ node'[n].erased = node[n].erased
      BY <1>2, <1>5, <1>6, <2>1
    <2> QED BY <2>1, MapKept DEF BaseInv, Rest
  <1>8. NodeInv'
    <2>1. ASSUME NEW m \in Nodes PROVE NodeOK(nodes[m])
      <3>1. CASE m = k
        <4>1. node[m].same
          BY <3>1, NobodyAssumption DEF Rest, CopyInv, CallerInv, CallerOK
        <4> QED BY <1>5, <3>1, <4>1 DEF NodeOK, Rest, CopyInv, NodeInv
      <3>2. CASE m # k
        BY <1>5, <3>2 DEF NodeOK, Rest, CopyInv, NodeInv
      <3> QED BY <3>1, <3>2
    <2> QED BY <1>3, <2>1, NodeInvCollected
  <1>9. CallerInv'
    <2>1. ASSUME NEW u \in Threads, u # t PROVE CallerOK(u)'
      <3>1. CASE th[u].node = Nobody
        BY <1>1, <2>1, <3>1 DEF CallerOK
      <3>2. CASE th[u].node # Nobody
        <4> DEFINE n == th[u].node
        <4>1. n \in Nodes /\ n \in InUse'
          BY <1>1, <2>1, <3>2 DEF BaseInv, TypeOK, InUse
        <4>2. th[u].step \in InProtocol => n # k
          BY <2>1, <4>1 DEF BaseInv, LockInv, RecordLockInv, InProtocol
        <4>3. /\ node'[n].dtls = node[n].dtls /\ node'[n].same = node[n].same
              /\ n # k => node'[n].settled = node[n].settled
          BY <1>5, <1>6, <4>1
        <4> QED BY <1>1, <2>1, <3>2, <4>2, <4>3 DEF Rest, CopyInv, CallerInv, CallerOK, InProtocol
      <3> QED BY <3>1, <3>2
    <2>2. CallerOK(t)'
      BY <1>1 DEF CallerOK, IdleThread, InProtocol
    <2> QED BY <2>1, <2>2 DEF CallerInv
  <1>10. PassedInv'
    <2>1. \A u \in Threads : th'[u].step # "erasing"
      BY <1>1 DEF IdleThread
    <2> QED BY <2>1 DEF PassedInv, Passed
  <1>11. TwinInv'
    <2>1. ASSUME NEW d \in DOMAIN clients, clients[d] # k PROVE Twin(clients[d])' => Twin(clients[d])
      <3>1. clients[d] \in Nodes /\ clients[d] \in InUse'
        BY DEF BaseInv, TypeOK, InUse, Range
      <3> QED BY <1>5, <1>6, <2>1, <3>1 DEF Twin
    <2>2. CASE th[t].job = "copy"
      BY <2>1, <2>2 DEF TwinInv, Twin
    <2>3. CASE th[t].job # "copy"
      <3>1. \A d \in DOMAIN clients : clients[d] # k
        BY <2>3, NobodyAssumption DEF BaseInv, ShapeInv, Shape, TypeOK, Range
      <3> QED BY <2>1, <3>1 DEF Rest, CopyInv, TwinInv, Twin
    <2> QED BY <2>2, <2>3
  <1> QED BY <1>7, <1>8, <1>9, <1>10, <1>11 DEF Rest, CopyInv

LEMMA RestMap ==
    ASSUME BaseInv, BaseInv', Rest, NEW t \in Threads,
           check(t) \/ lock_clients(t) \/ unlock_clients(t)
    PROVE  Rest'
  <1>0. th \in [Threads -> ThreadState]
    BY DEF BaseInv, TypeOK, ThreadState
  <1>1. CASE check(t)
    <2>1. \A u \in Threads : th[u].step # "erasing"
      BY <1>1, NobodyAssumption DEF check, BaseInv, LockInv, MapLockInv
    <2>2. CASE \E e \in DOMAIN clients : Unwanted(t, clients[e])
      <3>1. Go(t, "exclusive") /\ node' = node
        BY <1>1, <2>2 DEF check
      <3>2. (\A u \in Threads : u # t => th'[u] = th[u]) /\ th'[t].step = "exclusive"
            /\ th'[t].node = th[t].node
        BY <1>0, <3>1 DEF Go, ThreadState
      <3>3. clients' = clients /\ records' = records /\ todo' = todo
        BY <1>1 DEF check
      <3>4. \A n \in Nodes : n \in InUse' => n \in InUse
        BY <3>1, <3>3, UseSteps
      <3>5. Quiet
        BY <3>1, <3>3, <3>4, QuietUnchanged DEF Rest, CopyInv
      <3>6. CallerOK(t)'
        BY <1>1, <3>2, <3>5, CallerAges DEF check, Quiet, BaseInv, Rest, CopyInv
      <3>7. Passed(t)'
        BY <3>2 DEF Passed
      <3> QED BY <3>2, <3>3, <3>5, <3>6, <3>7, QuietRest
    <2>3. CASE ~\E e \in DOMAIN clients : Unwanted(t, clients[e])
      <3>1. Return(t, node) /\ clients' = clients /\ records' = records /\ todo' = todo
            /\ th[t].step = "check"
        BY <1>1, <2>3 DEF check
      <3>2. ASSUME th[t].job = "copy", NEW d \in DOMAIN clients, clients[d] # th[t].node
            PROVE  ~Twin(clients[d])
        <4>1. th[t].node # Nobody
          BY <3>1, <3>2, NobodyAssumption DEF BaseInv, ShapeInv, Shape
        <4>2. node[th[t].node].same
          BY <3>1, <4>1 DEF Rest, CopyInv, CallerInv, CallerOK
        <4> QED BY <2>3, <3>2, <4>2 DEF Unwanted, IsCopy, Twin
      <3> QED BY <2>1, <3>1, <3>2, RestReturn
    <2> QED BY <2>2, <2>3
  <1>2. CASE lock_clients(t)
    <2>1. Quiet
      BY <1>2, QuietMap DEF Rest, CopyInv
    <2>2. (\A u \in Threads : u # t => th'[u] = th[u]) /\ th'[t].step = "erasing"
          /\ th'[t].node = th[t].node /\ todo' = DOMAIN clients /\ clients' = clients
          /\ th[t].step = "exclusive"
      BY <1>0, <1>2 DEF lock_clients, Go, ThreadState
    <2>3. \A u \in Threads : th[u].step # "erasing"
      BY <1>2, NobodyAssumption DEF lock_clients, BaseInv, LockInv, MapLockInv
    <2>4. CallerOK(t)'
      BY <2>1, <2>2, CallerAges DEF Quiet, BaseInv, Rest, CopyInv
    <2>5. Passed(t)'
      BY <2>2 DEF Passed
    <2> QED BY <2>1, <2>2, <2>3, <2>4, <2>5, QuietRest
  <1>3. CASE unlock_clients(t)
    <2>1. Return(t, node) /\ clients' = clients /\ records' = records /\ todo' = todo
          /\ th[t].step = "erasing" /\ todo = {}
      BY <1>3 DEF unlock_clients
    <2>2. \A u \in Threads : u # t => th[u].step # "erasing"
      BY <2>1 DEF BaseInv, LockInv, MapLockInv
    <2>3. ASSUME th[t].job = "copy", NEW d \in DOMAIN clients, clients[d] # th[t].node
          PROVE  ~Twin(clients[d])
      BY <2>1, <2>3 DEF Rest, CopyInv, PassedInv, Passed
    <2> QED BY <2>1, <2>2, <2>3, RestReturn
  <1> QED BY <1>1, <1>2, <1>3

-----------------------------------------------------------------------------
LEMMA InitInv == Init => Inv
  <1> SUFFICES ASSUME Init PROVE Inv
    OBVIOUS
  <1> USE NobodyAssumption DEF Init
  <1>0. DOMAIN clients = {}
    OBVIOUS
  <1>1. TypeOK
    <2>1. receiving \in BOOLEAN /\ cleaning \in BOOLEAN
      BY Zenon
    <2>2. node \in [Nodes -> Node]
      BY NodeTypes
    <2>3. th \in [Threads -> ThreadState]
      BY DEF ThreadState, IdleThread, Steps, Jobs
    <2> QED BY <2>1, <2>2, <2>3 DEF TypeOK, ThreadState, Range
  <1>2. ShapeInv /\ LockInv /\ TodoInv
    BY DEF ShapeInv, Shape, LockInv, NodeLockInv, RecordLockInv, MapLockInv, TodoInv,
           IdleThread, InProtocol
  <1>3. MapInv /\ PassedInv /\ TwinInv
    BY <1>0 DEF MapInv, PassedInv, Passed, TwinInv
  <1>4. UseInv
    <2>1. Range(clients) = {} /\ Range(records) = {} /\ \A t \in Threads : th[t].node = Nobody
      BY <1>0 DEF Range, IdleThread
    <2> QED BY <2>1 DEF UseInv, InUse
  <1>5. NodeInv /\ CallerInv
    BY DEF NodeInv, NodeOK, Destroyed, CallerInv, CallerOK, IdleThread, InProtocol
  <1> QED BY <1>1, <1>2, <1>3, <1>4, <1>5 DEF Inv, CopyInv

LEMMA NextInv == Inv /\ [Next]_vars => Inv'
  <1> SUFFICES ASSUME BaseInv /\ Rest, [Next]_vars PROVE BaseInv' /\ Rest'
    BY DEF Inv, BaseInv, Rest
  <1>1. ASSUME NEW t \in Threads,
               \/ \E e \in Endpoints : handle_receive(t, e) \/ on_protocol_timeout(t, e)
               \/ run_posted(t) \/ start_cleaning(t) \/ take_record(t)
        PROVE  BaseInv' /\ Rest'
    BY <1>1, BeginStep, RestBegin
  <1>2. ASSUME NEW t \in Threads, Step(t) PROVE BaseInv' /\ Rest'
    <2>1. CASE find_client(t) \/ lock_node(t)
      BY <2>1, GetNodeStep, RestGetNode
    <2>2. CASE create_client(t)
      BY <2>2, GetNodeStep, RestGetNode, RestEmplace
    <2>3. CASE ReceivedData(t) \/ write_impl(t)
      BY <2>3, LockedStep, RestLocked
    <2>4. CASE remove_client(t)
      BY <2>4, MapStep, RestRemove
    <2>5. CASE check(t) \/ lock_clients(t) \/ unlock_clients(t)
      BY <2>5, MapStep, RestMap
    <2>6. CASE \E e \in Endpoints : erase_or_skip(t, e)
      BY <2>6, MapStep, RestTurn
    <2>7. CASE \/ read_protocol(t) \/ lock_record(t)
               \/ process_bytes(t) \/ Authenticate(t) \/ process_wait_list(t)
      BY <2>7, ProtocolStep, RestProtocol
    <2> QED BY <1>2, <2>1, <2>2, <2>3, <2>4, <2>5, <2>6, <2>7 DEF Step
  <1>3. ASSUME NEW n \in Nodes, write(n) \/ Silence(n) PROVE BaseInv' /\ Rest'
    BY <1>3, OutsideStep, RestOutside DEF Rest
  <1>4. CASE UNCHANGED vars
    BY <1>4 DEF vars, BaseInv, TypeOK, ShapeInv, LockInv, NodeLockInv, RecordLockInv,
         MapLockInv, TodoInv, Rest, MapInv, UseInv, InUse, CopyInv, NodeInv, CallerInv,
         CallerOK, PassedInv, Passed, TwinInv, Twin
  <1> QED BY <1>1, <1>2, <1>3, <1>4 DEF Next, Threads

(* Whatever the numbers of endpoints, nodes and threads, the inductive     *)
(* invariant holds.                                                        *)
THEOREM InvHolds == Spec => []Inv
  BY InitInv, NextInv, PTL DEF Spec

(* The state has its type: no thread follows a pointer that is not one.    *)
THEOREM ServerTypeOK == Spec => []TypeOK
  <1>1. Inv => TypeOK
    BY DEF Inv
  <1> QED BY <1>1, InvHolds, PTL

(* find_client and create_client never make two nodes for one endpoint:    *)
(* a node in use that is not in the map was taken out of it.               *)
THEOREM NodePerEndpoint == Spec => []OneNodePerEndpoint
  BY InvOneNode, InvHolds, PTL

(* clients_mutex_, Node::mutex_ and record_mutex_ never make threads wait  *)
(* in a circle.                                                            *)
THEOREM NoDeadlock == Spec => []NoWaitCycle
  BY InvNoWaitCycle, InvHolds, PTL

(* A node's protocol is run by one thread at a time.                       *)
THEOREM ProtocolIsExclusive == Spec => []OneInProtocol
  BY InvOneInProtocol, InvHolds, PTL

(* remove_copy leaves at most one of the clients that are the same.        *)
THEOREM CopiesGo == Spec => []AtMostOneCopy
  BY InvOneCopy, InvHolds, PTL
=============================================================================
