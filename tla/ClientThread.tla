----------------------------- MODULE ClientThread -----------------------------
(***************************************************************************)
(* Client_Thread and the Client it creates anew for every attempt to       *)
(* connect (DTLS/dtls_client_thread.cpp, dtls_client.cpp,                  *)
(* dtls_client_node.cpp, dtls_client_controller.cpp, dtls_socket.cpp,      *)
(* dtls_node.cpp).                                                         *)
(*                                                                         *)
(* run() sleeps, creates a Client under mutex_ and gives its thread to the *)
(* Client's io_context until a handler throws or the io_context is         *)
(* stopped.  Its owner calls stop() from another thread at any time.  A    *)
(* handler is one step: the ones that touch the node do it under           *)
(* Node::mutex_, which close() takes as well.  Time is counted in the ten  *)
(* seconds of deadline_.  The network has room for one datagram each way;  *)
(* what does not fit is lost, as UDP may.                                  *)
(***************************************************************************)
EXTENDS Naturals

CONSTANT None              \* no datagram

ASSUME NoneAssumption == None \notin {"hello", "data", "close"}

VARIABLES pc,              \* where run() is
          first,           \* is_first_connect
          stop_flag,       \* stop_flag_
          mutex,           \* run() holds mutex_
          client,          \* the Client that client_ points to
          to_server, to_client,   \* the datagram in flight each way: hello, data, close
          owner            \* the owner of the Client_Thread

clientVars == <<pc, first, stop_flag, mutex, client, to_server, to_client, owner>>

(* No Client yet: client_ is null.                                         *)
NoClient == [io |-> "stopped", dtls |-> "none", protocol |-> FALSE, ping |-> FALSE,
             silence |-> 2, receive |-> "none", deadline |-> "never", posted |-> FALSE]

(* Client::Client: last_msg_recv_time_ is the epoch.                       *)
NewClient == [NoClient EXCEPT !.io = "open"]

ClientInit ==
    /\ pc = "test" /\ first = TRUE /\ stop_flag = FALSE /\ mutex = FALSE
    /\ client = NoClient
    /\ to_server = None /\ to_client = None
    /\ owner = "using"

(* Socket::send: handed to the network, or lost when there is no room.     *)
send(d) == to_server' = IF to_server = None THEN d ELSE to_server

-----------------------------------------------------------------------------
(* Client::close: Node::close says goodbye on an established connection,   *)
(* the socket is closed with the receive outstanding on it, and the        *)
(* io_context is stopped.                                                  *)
Closed(c) == [c EXCEPT !.io = "stopped", !.dtls = "none", !.protocol = FALSE,
                       !.receive = IF c.receive = "waiting" THEN "aborted" ELSE @]
SaysGoodbye(c) == IF c.dtls = "active" THEN send("close") ELSE UNCHANGED to_server

(* Client_Thread::stop, by the owner's destructor, which then joins.       *)
stop ==
    /\ owner = "using" /\ ~mutex
    /\ stop_flag' = TRUE
    /\ client' = Closed(client)
    /\ SaysGoodbye(client)
    /\ owner' = "joining"
    /\ UNCHANGED <<pc, first, mutex, to_client>>

join ==
    /\ owner = "joining" /\ pc = "ended"
    /\ owner' = "done"
    /\ UNCHANGED <<pc, first, stop_flag, mutex, client, to_server, to_client>>

-----------------------------------------------------------------------------
(* run() *)

(* while (!stop_flag_), and the pause before every attempt but the first.  *)
test_stop_flag ==
    /\ pc = "test"
    /\ pc' = IF stop_flag THEN "finish" ELSE IF first THEN "start" ELSE "sleep"
    /\ first' = FALSE
    /\ UNCHANGED <<stop_flag, mutex, client, to_server, to_client, owner>>

sleep_for ==
    /\ pc = "sleep"
    /\ pc' = "start"
    /\ UNCHANGED <<first, stop_flag, mutex, client, to_server, to_client, owner>>

(* Mutant of start: stop_flag_ is not looked at again under the lock.      *)
start_Unchecked ==
    /\ pc = "start" /\ ~mutex
    /\ mutex' = TRUE /\ pc' = "connect"
    /\ client' = NewClient
    /\ SaysGoodbye(client) /\ to_client' = None
    /\ UNCHANGED <<first, stop_flag, owner>>

(* start: the old Client is closed and destroyed; nothing that is still on *)
(* its way to it reaches the new one, whose socket has another port.       *)
start ==
    /\ pc = "start" /\ ~mutex
    /\ IF stop_flag
         THEN /\ pc' = "test"
              /\ UNCHANGED <<mutex, client, to_server, to_client>>
         ELSE /\ mutex' = TRUE /\ pc' = "connect"
              /\ client' = NewClient
              /\ SaysGoodbye(client) /\ to_client' = None
    /\ UNCHANGED <<first, stop_flag, owner>>

(* Mutant of start_connection: no deadline is set for the first receive.   *)
start_connection_NoDeadline ==
    /\ pc = "connect"
    /\ client' = [client EXCEPT !.dtls = "handshake", !.receive = "waiting"]
    /\ to_server' = "hello"
    /\ pc' = "run" /\ mutex' = FALSE
    /\ UNCHANGED <<first, stop_flag, to_client, owner>>

(* Client_Node::start: the handshake begins.                               *)
NodeStarted(c) == [c EXCEPT !.dtls = "handshake", !.ping = FALSE]

(* Client::start_connection, still under mutex_: the handshake begins and  *)
(* the first receive with its deadline ...                                 *)
start_connection ==
    /\ pc = "connect"
    /\ client' = [NodeStarted(client) EXCEPT !.receive = "waiting", !.deadline = "set"]
    /\ to_server' = "hello"
    /\ pc' = "run" /\ mutex' = FALSE
    /\ UNCHANGED <<first, stop_flag, to_client, owner>>

(* ... or the name does not resolve, or the socket does not open.          *)
start_connection_throws ==
    /\ pc = "connect"
    /\ pc' = "test" /\ mutex' = FALSE
    /\ UNCHANGED <<first, stop_flag, client, to_server, to_client, owner>>

(* Mutant of run_returns: the thread keeps waiting in a stopped context.   *)
run_returns_Never ==
    /\ pc = "run" /\ client.io = "closed"
    /\ pc' = "test"
    /\ UNCHANGED <<first, stop_flag, mutex, client, to_server, to_client, owner>>

(* io_context::run returns once it is stopped, even if stop() came first.  *)
run_returns ==
    /\ pc = "run" /\ client.io = "stopped"
    /\ pc' = "test"
    /\ UNCHANGED <<first, stop_flag, mutex, client, to_server, to_client, owner>>

(* stop() again and client_.reset(), after the loop.                       *)
run_ends ==
    /\ pc = "finish" /\ ~mutex
    /\ stop_flag' = TRUE
    /\ client' = NoClient
    /\ SaysGoodbye(client)
    /\ pc' = "ended"
    /\ UNCHANGED <<first, mutex, to_client, owner>>

-----------------------------------------------------------------------------
(* The handlers, run by the io_context.                                    *)
Running == pc = "run" /\ client.io = "open"

(* Client::start_receive, called before the datagram is looked at, ...     *)
Receives == [client EXCEPT !.receive = "waiting", !.deadline = "set"]

(* ... and Client_Controller::process_data: an answer, whatever it says.   *)
Received == [Receives EXCEPT !.ping = FALSE]

(* process_received_data: the answer to the hello completes the handshake, *)
(* and create_protocol may find no protocol for the name agreed upon.      *)
HandshakeDone ==
    /\ client.dtls = "handshake" /\ to_client = "hello"
    /\ \E has_protocol \in BOOLEAN :
          client' = [Received EXCEPT !.dtls = "active", !.protocol = has_protocol]
    /\ UNCHANGED to_server

(* Before that, every datagram is an occasion to look at Botan's own timer *)
(* and to send the hello again: timeout_check.                             *)
HandshakeWaits ==
    /\ client.dtls = "handshake" /\ to_client # "hello"
    /\ client' = Received
    /\ send("hello") \/ UNCHANGED to_server

(* tls_record_received: process_bytes notes the time.                      *)
RecordReceived ==
    /\ client.dtls = "active" /\ to_client = "data"
    /\ client' = [Received EXCEPT !.silence = IF client.protocol THEN 0 ELSE @]
    /\ UNCHANGED to_server

(* tls_alert: with a protocol the node is closed, without one only Botan's *)
(* side of the connection.  Nothing wakes the thread before the deadline.  *)
CloseReceived ==
    /\ client.dtls = "active" /\ to_client = "close"
    /\ client' = [Received EXCEPT !.dtls = "none", !.protocol = FALSE]
    /\ UNCHANGED to_server

(* A repeated hello, or anything after the connection was closed.          *)
DatagramDropped ==
    /\ client.dtls = "none" \/ (client.dtls = "active" /\ to_client = "hello")
    /\ client' = Received
    /\ UNCHANGED to_server

(* Socket::handle_receive with a datagram.                                 *)
handle_receive ==
    /\ Running /\ client.receive \in {"waiting", "ready"} /\ to_client # None
    /\ \/ HandshakeDone \/ HandshakeWaits
       \/ RecordReceived \/ CloseReceived \/ DatagramDropped
    /\ to_client' = None
    /\ UNCHANGED <<pc, first, stop_flag, mutex, owner>>

(* handle_receive or handle_send with an error: error_message throws out   *)
(* of io_context::run, and no handler of this Client runs any more.        *)
error_message ==
    /\ pc' = "test"
    /\ client' = [NewClient EXCEPT !.dtls = client.dtls, !.protocol = client.protocol]
    /\ UNCHANGED <<first, stop_flag, mutex, to_client, owner>>

handle_receive_aborted ==
    /\ Running /\ client.receive = "aborted"
    /\ error_message
    /\ UNCHANGED to_server

(* The datagram could not be sent.                                         *)
handle_send_error ==
    /\ Running /\ to_server # None
    /\ to_server' = None
    /\ error_message

(* Ten more seconds without start_receive.                                 *)
Silence == IF client.silence = 2 THEN 2 ELSE client.silence + 1

(* Mutant of is_reconnect_needed: it pings again, whether or not the ping  *)
(* before was answered.                                                    *)
is_reconnect_needed_PingsAgain ==
    ~(client.dtls = "active" /\ (Silence < 2 \/ client.protocol))

(* Client_Node::is_reconnect_needed; otherwise it may ask for a ping.      *)
is_reconnect_needed ==
    ~(client.dtls = "active"
      /\ (Silence < 2 \/ (client.protocol /\ ~client.ping)))
Pings == client.dtls = "active" /\ Silence = 2

(* Client::check_deadline of an active client: the deadline is set anew.   *)
deadline_extended ==
    /\ ~is_reconnect_needed
    /\ client' = [client EXCEPT !.silence = Silence, !.ping = @ \/ Pings,
                                !.posted = @ \/ Pings]

(* ... and when a new connection is needed: the receive is cancelled,      *)
(* unless its handler has been queued with a datagram already.             *)
deadline_passed ==
    /\ is_reconnect_needed
    /\ \E receive \in {"aborted"} \cup IF to_client # None THEN {"ready"} ELSE {} :
          client' = [client EXCEPT !.silence = Silence, !.deadline = "never",
                                   !.receive = IF @ = "waiting" THEN receive ELSE @]

(* Ten seconds are longer than a datagram is in flight.                    *)
check_deadline ==
    /\ Running /\ client.deadline = "set" /\ to_server = None
    /\ deadline_extended \/ deadline_passed
    /\ UNCHANGED <<pc, first, stop_flag, mutex, to_server, to_client, owner>>

(* Node::write, of the application or the protocol, posts a job, and so    *)
(* does on_protocol_timeout, in the timer thread.                          *)
Posts ==
    /\ client.protocol /\ ~client.posted
    /\ client' = [client EXCEPT !.posted = TRUE]
    /\ UNCHANGED <<pc, first, stop_flag, mutex, to_server, to_client, owner>>
write == Posts
on_protocol_timeout == Posts

(* write_impl sends on an active connection only; process_wait_list may    *)
(* have nothing to send again.                                             *)
write_impl ==
    /\ Running /\ client.posted
    /\ client' = [client EXCEPT !.posted = FALSE]
    /\ UNCHANGED to_server \/ (client.dtls = "active" /\ send("data"))
    /\ UNCHANGED <<pc, first, stop_flag, mutex, to_client, owner>>

RunStep ==
    \/ test_stop_flag \/ sleep_for \/ run_returns \/ run_ends
    \/ start_connection \/ start_connection_throws
Handler ==
    \/ handle_receive \/ handle_receive_aborted \/ handle_send_error
    \/ check_deadline \/ write_impl

-----------------------------------------------------------------------------
(* The thread never sits in io_context::run with nothing to end it: a      *)
(* deadline is set, or the receive was aborted, or its handler is queued   *)
(* and will set the deadline again; and the only receive is never lost.    *)
NeverStuck ==
    Running => /\ client.receive # "none"
               /\ \/ client.deadline = "set"
                  \/ client.receive = "aborted"
                  \/ client.receive = "ready" /\ to_client # None

(* Nothing is left open behind stop(): no Client with a running io_context *)
(* is created, or stays, once it has returned.                             *)
NothingAfterStop == owner # "using" => client.io = "stopped" /\ client.dtls = "none"
=============================================================================
