--------------------------- MODULE ServerController ---------------------------
(***************************************************************************)
(* Server_Controller and the Server_Node objects it keeps                  *)
(* (DTLS/dtls_server_controller.cpp, dtls_node.cpp, dtls_server_node.cpp,  *)
(* dtls_socket.cpp, dtls_server.cpp).                                      *)
(*                                                                         *)
(* The io threads run what the io_context gives them: a received datagram, *)
(* a posted write or removal, the cleaning timer.  Record threads process  *)
(* decrypted records, the timer thread protocol timeouts.  They meet in    *)
(* the map of clients (clients_mutex_, exclusive or shared), in a node     *)
(* (Node::mutex_) and in a node's protocol (record_mutex_).  A step is     *)
(* what a thread does between two of these locks; a critical section that  *)
(* waits for nothing is one step.  A node is destroyed when the map, the   *)
(* queue and the threads no longer refer to it.                            *)
(***************************************************************************)
EXTENDS Naturals, Sequences, Functions, FiniteSets

CONSTANTS Endpoints,       \* remote endpoints
          Nodes,           \* Server_Node objects, used again when destroyed
          IoThreads, RecordThreads,
          TimerThreads,    \* the thread of protocol_timer_
          Nobody,          \* no thread, no node, no endpoint
          QueueCap         \* bound: length of the io_context's and record queues

Threads == IoThreads \cup RecordThreads \cup TimerThreads

ASSUME ThreadsAssumption ==
    /\ IoThreads \cap RecordThreads = {} /\ TimerThreads \cap IoThreads = {}
    /\ TimerThreads \cap RecordThreads = {}
ASSUME NobodyAssumption == Nobody \notin Threads \cup Nodes \cup Endpoints
ASSUME CapAssumption == QueueCap \in Nat \ {0}

VARIABLES clients,         \* clients_: endpoint -> node
          node,            \* the nodes' own state
          records,         \* records_queue_: the nodes the records came from
          posts,           \* jobs posted to the io_context
          receiving,       \* async_receive_from is under way
          cleaning,        \* the cleaning timer's handler is running
          clients_mutex,   \* who holds clients_mutex_ exclusively
          todo,            \* the endpoints its loop has yet to visit
          node_mutex,      \* node -> who holds Node::mutex_
          record_mutex,    \* node -> who holds record_mutex_
          th               \* what each thread is doing

vars == <<clients, node, records, posts, receiving, cleaning, clients_mutex,
          todo, node_mutex, record_mutex, th>>

Post == [job : {"write", "remove"}, ep : Endpoints]

Steps == {"idle", "find", "create", "lock", "locked", "remove", "check",
          "exclusive", "erasing", "protocol", "record", "bytes"}
Jobs == {"none", "receive", "write", "remove", "clean", "record", "timeout", "copy"}

IdleThread == [step |-> "idle", job |-> "none", ep |-> Nobody, node |-> Nobody]

(* dtls_: being set up, with the client's hello seen, active, or closed.   *)
Destroyed == [ep |-> Nobody, dtls |-> "closed", protocol |-> FALSE,
              same |-> FALSE, settled |-> FALSE, heard |-> FALSE, erased |-> FALSE]

(* Server_Node's constructor.  last_msg_recv_time_ is the epoch, so the    *)
(* node has not been heard of.                                             *)
NewNode(ep) == [Destroyed EXCEPT !.ep = ep, !.dtls = "handshake"]

Init ==
    /\ clients = [e \in {} |-> Nobody]
    /\ node = [n \in Nodes |-> Destroyed]
    /\ records = <<>> /\ posts = <<>>
    /\ receiving = TRUE /\ cleaning = FALSE
    /\ clients_mutex = Nobody /\ todo = {}
    /\ node_mutex = [n \in Nodes |-> Nobody]
    /\ record_mutex = [n \in Nodes |-> Nobody]
    /\ th = [t \in Threads |-> IdleThread]

-----------------------------------------------------------------------------
Mapped(n) == \E e \in DOMAIN clients : clients[e] = n
InUse == Range(clients) \cup Range(records) \cup {th[t].node : t \in Threads}

(* ~Node: what no shared_ptr refers to after the step is gone.             *)
Collected(nodes) == [n \in Nodes |-> IF n \in InUse' THEN nodes[n] ELSE Destroyed]

Go(t, step) == th' = [th EXCEPT ![t].step = step]
Finish(t) == th' = [th EXCEPT ![t] = IdleThread]

Begin(t, job, step, ep, n) ==
    /\ th[t] = IdleThread
    /\ th' = [th EXCEPT ![t] = [step |-> step, job |-> job, ep |-> ep, node |-> n]]

(* A node is free for every thread that may yet have to create one.        *)
Spare == {t \in Threads : th[t].step \in {"find", "create"}}
MayCreate == Cardinality(Nodes \ InUse) > Cardinality(Spare)

-----------------------------------------------------------------------------
(* What the io_context starts.                                             *)

(* Socket::handle_receive without an error: get_node begins.               *)
handle_receive(t, e) ==
    /\ receiving /\ MayCreate
    /\ Begin(t, "receive", "find", e, Nobody)
    /\ receiving' = FALSE
    /\ UNCHANGED <<clients, node, records, posts, cleaning, clients_mutex, todo,
                   node_mutex, record_mutex>>

(* A handler posted by Node::write or for remove_client.                   *)
run_posted(t) ==
    /\ posts # <<>> /\ (posts[1].job = "write" => MayCreate)
    /\ Begin(t, posts[1].job, IF posts[1].job = "write" THEN "find" ELSE "remove",
             posts[1].ep, Nobody)
    /\ posts' = Tail(posts)
    /\ UNCHANGED <<clients, node, records, receiving, cleaning, clients_mutex,
                   todo, node_mutex, record_mutex>>

(* Server::cleaning *)
start_cleaning(t) ==
    /\ ~cleaning
    /\ Begin(t, "clean", "check", Nobody, Nobody)
    /\ cleaning' = TRUE
    /\ UNCHANGED <<clients, node, records, posts, receiving, clients_mutex, todo,
                   node_mutex, record_mutex>>

(* Node::write of a node some thread has a pointer to: only the endpoint   *)
(* is kept.                                                                *)
write(n) ==
    /\ n \in InUse /\ node[n].protocol /\ Len(posts) < QueueCap
    /\ posts' = Append(posts, [job |-> "write", ep |-> node[n].ep])
    /\ UNCHANGED <<clients, node, records, receiving, cleaning, clients_mutex,
                   todo, node_mutex, record_mutex, th>>

-----------------------------------------------------------------------------
(* get_node: find_client under the shared lock ...                         *)
find_client(t) ==
    /\ th[t].step = "find" /\ clients_mutex = Nobody
    /\ IF th[t].ep \in DOMAIN clients
         THEN th' = [th EXCEPT ![t].node = clients[th[t].ep],
                               ![t].step = IF th[t].job = "timeout" THEN "protocol"
                                                                    ELSE "lock"]
         ELSE IF th[t].job = "timeout" THEN Finish(t) ELSE Go(t, "create")
    /\ UNCHANGED <<clients, node, records, posts, receiving, cleaning,
                   clients_mutex, todo, node_mutex, record_mutex>>

Emplace(t, e, n) ==
    /\ clients' = [x \in DOMAIN clients \cup {e} |-> IF x = e THEN n ELSE clients[x]]
    /\ th' = [th EXCEPT ![t].node = n, ![t].step = "lock"]
    /\ node' = Collected([node EXCEPT ![n] = NewNode(e)])

(* Mutant of create_client: the map is not searched again.                 *)
create_client_NoSecondLook(t) ==
    /\ th[t].step = "create" /\ clients_mutex = Nobody
    /\ UNCHANGED <<records, posts, receiving, cleaning, clients_mutex, todo,
                   node_mutex, record_mutex>>
    /\ \E n \in Nodes \ InUse : Emplace(t, th[t].ep, n)

(* ... and create_client under the exclusive one, which looks again.       *)
create_client(t) ==
    /\ th[t].step = "create" /\ clients_mutex = Nobody
    /\ UNCHANGED <<records, posts, receiving, cleaning, clients_mutex, todo,
                   node_mutex, record_mutex>>
    /\ IF th[t].ep \in DOMAIN clients
         THEN /\ th' = [th EXCEPT ![t].node = clients[th[t].ep], ![t].step = "lock"]
              /\ UNCHANGED <<clients, node>>
         ELSE \E n \in Nodes \ InUse : Emplace(t, th[t].ep, n)

(* Node::mutex_; handle_receive starts the next receive under it.          *)
lock_node(t) ==
    /\ th[t].step = "lock" /\ node_mutex[th[t].node] = Nobody
    /\ node_mutex' = [node_mutex EXCEPT ![th[t].node] = t]
    /\ receiving' = (receiving \/ th[t].job = "receive")
    /\ Go(t, "locked")
    /\ UNCHANGED <<clients, node, records, posts, cleaning, clients_mutex, todo,
                   record_mutex>>

Unlock(t) ==
    /\ node_mutex' = [node_mutex EXCEPT ![th[t].node] = Nobody]
    /\ Finish(t)

(* Mutant of PostRemoval: the node has no endpoint any more.               *)
PostRemoval_NoEndpoint(e) ==
    /\ Len(posts) < QueueCap
    /\ posts' = Append(posts, [job |-> "remove", ep |-> Nobody])

PostRemoval(e) ==
    /\ Len(posts) < QueueCap
    /\ posts' = Append(posts, [job |-> "remove", ep |-> e])

Processing(t, states) ==
    th[t].step = "locked" /\ th[t].job = "receive" /\ node[th[t].node].dtls \in states

(* process_received_data: nothing without dtls_, nothing to see while a    *)
(* datagram only moves the handshake on, nothing for one that is damaged.  *)
ReceivedNothing(t) ==
    /\ Processing(t, {"closed", "handshake", "hello", "active"})
    /\ Unlock(t)
    /\ UNCHANGED <<clients, records, posts, receiving, cleaning, clients_mutex,
                   todo, record_mutex>>
    /\ node' = Collected(node)

(* tls_server_choose_app_protocol: a protocol, or none and a removal.      *)
ReceivedHello(t) ==
    /\ Processing(t, {"handshake"})
    /\ Unlock(t)
    /\ UNCHANGED <<clients, records, receiving, cleaning, clients_mutex, todo,
                   record_mutex>>
    /\ \E known \in BOOLEAN :
         /\ node' = Collected([node EXCEPT ![th[t].node].dtls = "hello",
                                           ![th[t].node].protocol = known])
         /\ IF known THEN UNCHANGED posts ELSE PostRemoval(th[t].ep)

(* The handshake is over: dtls_ is active, ready_write() runs.             *)
HandshakeDone(t) ==
    /\ Processing(t, {"hello"})
    /\ Unlock(t)
    /\ UNCHANGED <<clients, records, posts, receiving, cleaning, clients_mutex,
                   todo, record_mutex>>
    /\ node' = Collected([node EXCEPT ![th[t].node].dtls = "active"])

add_received_record(n) == records' = Append(records, n)

(* tls_record_received *)
ReceivedRecord(t) ==
    /\ Processing(t, {"active"}) /\ Len(records) < QueueCap
    /\ Unlock(t)
    /\ add_received_record(th[t].node)
    /\ UNCHANGED <<clients, posts, receiving, cleaning, clients_mutex, todo,
                   record_mutex>>
    /\ node' = Collected(node)

Closed(n) == [node EXCEPT ![n].dtls = "closed", ![n].protocol = FALSE]

(* Mutant of ReceivedClose: the client is removed at once.                 *)
ReceivedClose_Directly(t) ==
    /\ Processing(t, {"handshake", "hello", "active"})
    /\ th' = [th EXCEPT ![t].step = "remove"]
    /\ node' = IF node[th[t].node].protocol THEN Closed(th[t].node) ELSE node
    /\ UNCHANGED <<clients, records, posts, node_mutex, receiving, cleaning,
                   clients_mutex, todo, record_mutex>>

(* tls_alert, CLOSE_NOTIFY: a node with a protocol closes, and its removal *)
(* is posted because the caller holds Node::mutex_.                        *)
ReceivedClose(t) ==
    /\ Processing(t, {"handshake", "hello", "active"})
    /\ Unlock(t)
    /\ PostRemoval(th[t].ep)
    /\ UNCHANGED <<clients, records, receiving, cleaning, clients_mutex, todo,
                   record_mutex>>
    /\ node' = Collected(IF node[th[t].node].protocol THEN Closed(th[t].node) ELSE node)

(* write_impl: sends if the node is active and has a protocol; the node    *)
(* itself does not change.                                                 *)
write_impl(t) ==
    /\ th[t].step = "locked" /\ th[t].job = "write"
    /\ Unlock(t)
    /\ UNCHANGED <<clients, records, posts, receiving, cleaning, clients_mutex,
                   todo, record_mutex>>
    /\ node' = Collected(node)

Without(e) == Restrict(clients, DOMAIN clients \ {e})
Erased(nodes, e) == [nodes EXCEPT ![clients[e]].erased = TRUE]

(* remove_client: by endpoint, whichever node it has by now; the node is   *)
(* not closed but lives on until nobody uses it.                           *)
remove_client(t) ==
    /\ th[t].step = "remove" /\ clients_mutex = Nobody
    /\ clients' = Without(th[t].ep)
    /\ Finish(t)
    /\ UNCHANGED <<records, posts, receiving, cleaning, clients_mutex, todo,
                   node_mutex, record_mutex>>
    /\ node' = Collected(IF th[t].ep \in DOMAIN clients THEN Erased(node, th[t].ep) ELSE node)

-----------------------------------------------------------------------------
(* remove_frozen_clients and remove_copy: a look under the shared lock,    *)
(* then a loop under the exclusive one that closes what it erases.         *)

(* Mutant of Frozen: a node that was never heard of is left alone.         *)
Frozen_SkipsNew(n) == ~node[n].heard /\ node[n].settled

Frozen(n) == ~node[n].heard

(* Another node whose protocol equals that of the node t works for.        *)
IsCopy(t, n) ==
    n # th[t].node /\ node[n].protocol /\ node[n].same /\ node[th[t].node].same

Unwanted(t, n) == IF th[t].job = "clean" THEN Frozen(n) ELSE IsCopy(t, n)

(* The caller goes on: the cleaning timer is armed again, or the record    *)
(* thread returns from process_message and unlocks record_mutex_.          *)
Return(t, nodes) ==
    /\ Finish(t)
    /\ cleaning' = (cleaning /\ th[t].job # "clean")
    /\ record_mutex' = [n \in Nodes |-> IF n = th[t].node THEN Nobody ELSE record_mutex[n]]
    /\ node' = Collected([n \in Nodes |-> IF n = th[t].node
                                            THEN [nodes[n] EXCEPT !.settled = TRUE]
                                            ELSE nodes[n]])

(* Mutant of check: it gives up when the map is locked.                    *)
check_GivesUp(t) ==
    /\ th[t].step = "check"
    /\ UNCHANGED <<clients, records, posts, receiving, clients_mutex, todo, node_mutex>>
    /\ IF clients_mutex = Nobody /\ \E e \in DOMAIN clients : Unwanted(t, clients[e])
         THEN Go(t, "exclusive") /\ UNCHANGED <<node, cleaning, record_mutex>>
         ELSE Return(t, node)

(* check_frozen_clients, check_copy *)
check(t) ==
    /\ th[t].step = "check" /\ clients_mutex = Nobody
    /\ UNCHANGED <<clients, records, posts, receiving, clients_mutex, todo, node_mutex>>
    /\ IF \E e \in DOMAIN clients : Unwanted(t, clients[e])
         THEN Go(t, "exclusive") /\ UNCHANGED <<node, cleaning, record_mutex>>
         ELSE Return(t, node)

lock_clients(t) ==
    /\ th[t].step = "exclusive" /\ clients_mutex = Nobody
    /\ clients_mutex' = t
    /\ todo' = DOMAIN clients
    /\ Go(t, "erasing")
    /\ UNCHANGED <<clients, node, records, posts, receiving, cleaning, node_mutex,
                   record_mutex>>

(* One turn of the loop; close() waits for Node::mutex_.                   *)
erase_or_skip(t, e) ==
    /\ th[t].step = "erasing" /\ e \in todo
    /\ todo' = todo \ {e}
    /\ UNCHANGED <<records, posts, receiving, cleaning, clients_mutex, node_mutex,
                   record_mutex, th>>
    /\ IF Unwanted(t, clients[e])
         THEN /\ node_mutex[clients[e]] = Nobody
              /\ clients' = Without(e)
              /\ node' = Collected(Erased(Closed(clients[e]), e))
         ELSE UNCHANGED <<clients, node>>

unlock_clients(t) ==
    /\ th[t].step = "erasing" /\ todo = {}
    /\ clients_mutex' = Nobody
    /\ UNCHANGED <<clients, records, posts, receiving, todo, node_mutex>>
    /\ Return(t, node)

-----------------------------------------------------------------------------
(* records_thread_run: a record is taken off the queue ...                 *)
take_record(t) ==
    /\ t \in RecordThreads /\ records # <<>>
    /\ Begin(t, "record", "protocol", Nobody, records[1])
    /\ records' = Tail(records)
    /\ UNCHANGED <<clients, node, posts, receiving, cleaning, clients_mutex, todo,
                   node_mutex, record_mutex>>

(* ... the protocol is read without a lock ...                             *)
read_protocol(t) ==
    /\ th[t].step = "protocol"
    /\ IF node[th[t].node].protocol THEN Go(t, "record") ELSE Finish(t)
    /\ UNCHANGED <<clients, records, posts, receiving, cleaning, clients_mutex,
                   todo, node_mutex, record_mutex>>
    /\ node' = Collected(node)

(* Mutant of lock_record: the lock is taken whoever has it.                *)
lock_record_Anyway(t) ==
    /\ th[t].step = "record"
    /\ record_mutex' = [record_mutex EXCEPT ![th[t].node] = t]
    /\ Go(t, "bytes")
    /\ UNCHANGED <<clients, node, records, posts, receiving, cleaning,
                   clients_mutex, todo, node_mutex>>

lock_record(t) ==
    /\ th[t].step = "record" /\ record_mutex[th[t].node] = Nobody
    /\ record_mutex' = [record_mutex EXCEPT ![th[t].node] = t]
    /\ Go(t, "bytes")
    /\ UNCHANGED <<clients, node, records, posts, receiving, cleaning,
                   clients_mutex, todo, node_mutex>>

UnlockRecord(t) ==
    /\ record_mutex' = [record_mutex EXCEPT ![th[t].node] = Nobody]
    /\ Finish(t)

(* ... and process_bytes runs; close() has taken the writer away, whose    *)
(* last_msg_recv_time_ it would set.                                       *)
Heard(n) == [node EXCEPT ![n].heard = @ \/ node[n].protocol]

process_bytes(t) ==
    /\ th[t].step = "bytes" /\ th[t].job = "record"
    /\ UnlockRecord(t)
    /\ UNCHANGED <<clients, records, posts, receiving, cleaning, clients_mutex,
                   todo, node_mutex>>
    /\ node' = Collected(Heard(th[t].node))

(* A message authenticates the client: from here on its protocol may equal *)
(* another's, and the handler calls remove_copy(this).                     *)
Authenticate(t) ==
    /\ th[t].step = "bytes" /\ th[t].job = "record" /\ ~node[th[t].node].same
    /\ th' = [th EXCEPT ![t].step = "check", ![t].job = "copy"]
    /\ UNCHANGED <<clients, records, posts, receiving, cleaning, clients_mutex,
                   todo, node_mutex, record_mutex>>
    /\ node' = Collected([Heard(th[t].node) EXCEPT ![th[t].node].same = TRUE])

(* on_protocol_timeout *)
on_protocol_timeout(t, e) ==
    /\ t \in TimerThreads
    /\ Begin(t, "timeout", "find", e, Nobody)
    /\ UNCHANGED <<clients, node, records, posts, receiving, cleaning,
                   clients_mutex, todo, node_mutex, record_mutex>>

process_wait_list(t) ==
    /\ th[t].step = "bytes" /\ th[t].job = "timeout"
    /\ UnlockRecord(t)
    /\ UNCHANGED <<clients, records, posts, receiving, cleaning, clients_mutex,
                   todo, node_mutex>>
    /\ node' = Collected(node)

(* cleaning_timeout_ passes without a message.                             *)
Silence(n) ==
    /\ node[n].heard
    /\ node' = [node EXCEPT ![n].heard = FALSE]
    /\ UNCHANGED <<clients, records, posts, receiving, cleaning, clients_mutex,
                   todo, node_mutex, record_mutex, th>>

ReceivedData(t) ==
    \/ ReceivedNothing(t) \/ ReceivedHello(t) \/ HandshakeDone(t)
    \/ ReceivedRecord(t) \/ ReceivedClose(t)

(* What a thread does once it has begun.                                   *)
Step(t) ==
    \/ find_client(t) \/ create_client(t) \/ lock_node(t)
    \/ ReceivedData(t) \/ write_impl(t) \/ remove_client(t)
    \/ check(t) \/ lock_clients(t) \/ unlock_clients(t)
    \/ \E e \in Endpoints : erase_or_skip(t, e)
    \/ read_protocol(t) \/ lock_record(t)
    \/ process_bytes(t) \/ Authenticate(t) \/ process_wait_list(t)

Next ==
    \/ \E t \in Threads : Step(t)
    \/ \E t \in IoThreads : \/ \E e \in Endpoints : handle_receive(t, e)
                            \/ run_posted(t) \/ start_cleaning(t)
    \/ \E t \in RecordThreads : take_record(t)
    \/ \E t \in TimerThreads, e \in Endpoints : on_protocol_timeout(t, e)
    \/ \E n \in Nodes : write(n) \/ Silence(n)

(* Every thread runs and gets a lock that is free again and again; the     *)
(* io_context hands out its jobs, the cleaning timer's among them; time    *)
(* passes.                                                                 *)
Fairness ==
    /\ \A t \in Threads : SF_vars(Step(t))
    /\ SF_vars(\E t \in IoThreads : run_posted(t))
    /\ SF_vars(\E t \in IoThreads : start_cleaning(t))
    /\ SF_vars(\E t \in RecordThreads : take_record(t))

Spec == Init /\ [][Next]_vars /\ Fairness

-----------------------------------------------------------------------------
Node == [ep : Endpoints \cup {Nobody}, dtls : {"handshake", "hello", "active", "closed"},
         protocol : BOOLEAN, same : BOOLEAN, settled : BOOLEAN, heard : BOOLEAN,
         erased : BOOLEAN]

TypeOK ==
    /\ DOMAIN clients \subseteq Endpoints /\ Range(clients) \subseteq Nodes
    /\ node \in [Nodes -> Node]
    /\ records \in Seq(Nodes) /\ posts \in Seq(Post)
    /\ receiving \in BOOLEAN /\ cleaning \in BOOLEAN
    /\ clients_mutex \in Threads \cup {Nobody} /\ todo \subseteq Endpoints
    /\ node_mutex \in [Nodes -> Threads \cup {Nobody}]
    /\ record_mutex \in [Nodes -> Threads \cup {Nobody}]
    /\ th \in [Threads -> [step : Steps, job : Jobs, ep : Endpoints \cup {Nobody},
                           node : Nodes \cup {Nobody}]]

(* Every node in use is the one the map has for its endpoint, unless it    *)
(* was taken out: two threads that look an endpoint up at once never feed  *)
(* two nodes, one of which nobody else can find.                           *)
OneNodePerEndpoint ==
    \A n \in InUse \ {Nobody} :
       node[n].erased \/ (node[n].ep \in DOMAIN clients /\ clients[node[n].ep] = n)

(* t waits for a lock that u holds.                                        *)
WaitsFor(t, u) ==
    \/ th[t].step \in {"find", "create", "remove", "check", "exclusive"} /\ clients_mutex = u
    \/ th[t].step = "lock" /\ node_mutex[th[t].node] = u
    \/ th[t].step = "record" /\ record_mutex[th[t].node] = u
    \/ th[t].step = "erasing" /\ todo # {} /\ \A e \in todo :
          Unwanted(t, clients[e]) /\ node_mutex[clients[e]] = u

(* No threads ever wait for one another in a circle: clients_mutex_ and    *)
(* Node::mutex_ are taken in the one order only, although closing, erasing *)
(* and removing go from the map to the node and a received alert goes from *)
(* the node to the map.                                                    *)
NoWaitCycle ==
    \A S \in (SUBSET Threads) \ {{}} : \E t \in S : \A u \in S : ~WaitsFor(t, u)

(* process_bytes and process_wait_list of one node never overlap, from     *)
(* whichever thread they are called.                                       *)
OneInProtocol ==
    \A t, u \in Threads :
       t # u /\ th[t].node = th[u].node =>
          ~({th[t].step, th[u].step} \subseteq {"bytes", "check", "exclusive", "erasing"}
            /\ th[t].node # Nobody)

(* Two equal clients that both have called remove_copy are not both in the *)
(* map, however the calls interleave with each other and with the cleaning.*)
AtMostOneCopy ==
    \A m, n \in Nodes :
       m # n /\ Mapped(m) /\ Mapped(n) /\ node[m].protocol /\ node[n].protocol
       => ~(node[m].same /\ node[n].same /\ node[m].settled /\ node[n].settled)

(* A client that is silent for cleaning_timeout_ is heard of again or      *)
(* leaves the map; so does a node that a late posted write has created for *)
(* an endpoint whose client is gone.                                       *)
SilentGoes ==
    \A n \in Nodes : Mapped(n) /\ ~node[n].heard ~> (~Mapped(n) \/ node[n].heard)
=============================================================================
