--------------------------- MODULE ConnectionProofs ---------------------------
(***************************************************************************)
(* Proofs for Connection, for any number of additional io threads and of   *)
(* server starts.  The client's part of the invariant rests on the flag    *)
(* and the lock: mutex_ is held only while a Client is being created, and  *)
(* stop_flag_, once set, finds no Client with an open io_context and lets  *)
(* none be created.  The server's part says, for every place run() may be  *)
(* at, which of its objects exist.                                         *)
(***************************************************************************)
EXTENDS Connection, TLAPS

Datagram == {"hello", "data", "close"}

ClientObject == [io : {"open", "stopped"}, dtls : {"none", "handshake", "active"},
                 protocol : BOOLEAN, ping : BOOLEAN, silence : 0 .. 2,
                 receive : {"none", "waiting", "ready", "aborted"},
                 deadline : {"never", "set"}, posted : BOOLEAN]

ClientTypeOK ==
    /\ pc \in {"test", "sleep", "start", "connect", "run", "finish", "ended"}
    /\ first \in BOOLEAN /\ stop_flag \in BOOLEAN /\ mutex \in BOOLEAN
    /\ client \in ClientObject
    /\ to_server \in Datagram \cup {None} /\ to_client \in Datagram \cup {None}
    /\ owner \in {"using", "joining", "done"}

(* A receive whose handler is queued has its datagram.                     *)
ReadyHasDatagram == Running /\ client.receive = "ready" => to_client # None

(* What stop() and run() know of one another.                              *)
StopInv ==
    /\ mutex <=> pc = "connect"
    /\ owner # "using" => stop_flag
    /\ pc \in {"finish", "ended"} => stop_flag
    /\ stop_flag => ~mutex /\ client.io = "stopped" /\ client.dtls = "none"

ServerTypeOK ==
    /\ spc \in {"none", "begin", "context", "stored", "kept", "receive", "threads", "run",
                "failed", "failing", "join", "done"}
    /\ io_context \in {"wild", "open", "stopped", "deleted"}
    /\ promises \in {"null", "there", "freed"} /\ future \in {"unset", "true", "false"}
    /\ server \in {"null", "alive", "destroyed"}
    /\ io \in [IoThreads -> {"none", "run", "finished"}]
    /\ sowner \in {"none", "calling", "waiting", "using", "joining"}
    /\ starts \in 0 .. MaxStarts
    /\ known \in BOOLEAN /\ threw \in BOOLEAN

(* run() has published the Server and not left the try block.              *)
Published == spc \in {"stored", "kept", "receive", "threads", "run"}

(* The objects of a Server_Thread while its run() is at spc.               *)
PlaceInv ==
    /\ spc = "none" <=> sowner = "none"
    /\ spc \in {"none", "begin", "context"} => server = "null" /\ future = "unset"
    /\ spc \in {"begin", "context"} => promises = "there" /\ ~threw
    /\ spc = "context" => io_context = "open"
    /\ Published => server = "alive" /\ io_context \in {"open", "stopped"}
    /\ Published => (future = "unset" <=> spc = "stored")
    /\ spc \in {"receive", "threads", "run"} => promises = "null"
    /\ spc \in {"stored", "kept"} /\ sowner # "joining" => promises = "there"
    /\ spc \in {"failed", "failing"} => io_context \in {"open", "stopped"}
    /\ spc = "failed" => IF server = "null" THEN promises = "there" ELSE promises = "null"
    /\ spc = "failed" /\ promises # "there" => future # "unset"
    /\ spc \in {"failing", "join", "done"} => promises = "null" /\ future # "unset"
    /\ future = "true" => server # "null"
    /\ promises = "null" /\ spc # "none" => future # "unset"

(* ... and what its owner may count on.                                    *)
OwnerInv ==
    /\ sowner = "using" => server # "null"
    /\ sowner = "using" /\ ~threw => Published /\ io_context = "open"
    /\ sowner \in {"calling", "waiting"} /\ ~threw =>
         server = "null" \/ (Published /\ io_context = "open")
    /\ sowner \in {"calling", "waiting"} => promises # "freed"

Inv ==
    /\ ClientTypeOK /\ NeverStuck /\ ReadyHasDatagram /\ StopInv
    /\ ServerTypeOK /\ PlaceInv /\ OwnerInv

-----------------------------------------------------------------------------
(* The Client of a thread that has none, and a new one, are Clients.       *)
LEMMA FreshClients ==
    /\ NoClient \in ClientObject /\ NoClient.io = "stopped" /\ NoClient.dtls = "none"
    /\ NewClient \in ClientObject
  <1>1. NoClient \in ClientObject /\ NoClient.io = "stopped" /\ NoClient.dtls = "none"
    BY DEF NoClient, ClientObject
  <1>2. NewClient \in ClientObject
    BY <1>1 DEF NewClient, ClientObject
  <1> QED BY <1>1, <1>2

(* No thread has been started, and nothing is in flight.                   *)
LEMMA InitInv == Init => Inv
  <1> SUFFICES ASSUME Init PROVE Inv
    OBVIOUS
  <1> USE NoneAssumption, StartsAssumption DEF Init, ClientInit, ServerInit
  <1>0. first \in BOOLEAN /\ stop_flag \in BOOLEAN /\ mutex \in BOOLEAN
        /\ known \in BOOLEAN /\ threw \in BOOLEAN
    BY Zenon
  <1>1. ClientTypeOK
    BY <1>0, FreshClients, Zenon DEF ClientTypeOK, Datagram
  <1>2. NeverStuck /\ ReadyHasDatagram /\ StopInv
    BY DEF NeverStuck, ReadyHasDatagram, StopInv, Running, NoClient
  <1>3. starts \in 0 .. MaxStarts /\ io \in [IoThreads -> {"none", "run", "finished"}]
    BY DEF NoThreads
  <1>4. ServerTypeOK
    BY <1>0, <1>3, Zenon DEF ServerTypeOK
  <1>5. PlaceInv /\ OwnerInv
    BY DEF PlaceInv, OwnerInv, Published
  <1> QED BY <1>1, <1>2, <1>4, <1>5 DEF Inv

(* The two halves of the invariant depend on disjoint variables.           *)
ClientInv == ClientTypeOK /\ NeverStuck /\ ReadyHasDatagram /\ StopInv
ServerInv == ServerTypeOK /\ PlaceInv /\ OwnerInv

LEMMA ClientUnchanged ==
    ASSUME ClientInv, UNCHANGED clientVars
    PROVE  ClientInv'
  BY DEF ClientInv, clientVars, ClientTypeOK, NeverStuck, ReadyHasDatagram, StopInv, Running

LEMMA ServerUnchanged ==
    ASSUME ServerInv, UNCHANGED <<serverVars, known>>
    PROVE  ServerInv'
  BY DEF ServerInv, serverVars, ServerTypeOK, PlaceInv, OwnerInv, Published

LEMMA KnownChanges ==
    ASSUME ServerInv, UNCHANGED serverVars, known' \in BOOLEAN
    PROVE  ServerInv'
  <1>1. ServerTypeOK'
    BY DEF ServerInv, serverVars, ServerTypeOK
  <1>2. PlaceInv' /\ OwnerInv'
    BY DEF ServerInv, serverVars, PlaceInv, OwnerInv, Published
  <1> QED BY <1>1, <1>2 DEF ServerInv

(* The network and the server touch the client's half only through the     *)
(* datagrams, and do not take away one that its handler is queued for.     *)
LEMMA NetworkStep ==
    ASSUME ClientInv, UNCHANGED <<pc, first, stop_flag, mutex, client, owner>>,
           to_server' \in Datagram \cup {None}, to_client' \in Datagram \cup {None},
           to_client # None => to_client' # None \/ client.receive # "ready"
    PROVE  ClientInv'
  BY DEF ClientInv, ClientTypeOK, NeverStuck, ReadyHasDatagram, StopInv, Running

-----------------------------------------------------------------------------
(* run() creates a Client, unless stop() has come before.                  *)
LEMMA StartStep ==
    ASSUME ClientInv, start
    PROVE  ClientInv'
  <1> USE NoneAssumption DEF ClientInv, start, SaysGoodbye, send, NewClient, NoClient
  <1>1. ClientTypeOK'
    <2>1. CASE stop_flag
      BY <2>1 DEF ClientTypeOK
    <2>2. CASE ~stop_flag
      <3>1. mutex' \in BOOLEAN /\ client' \in ClientObject
        BY <2>2, FreshClients, Zenon
      <3>2. to_server' \in Datagram \cup {None}
        BY <2>2 DEF ClientTypeOK, Datagram
      <3> QED BY <2>2, <3>1, <3>2 DEF ClientTypeOK
    <2> QED BY <2>1, <2>2
  <1>2. NeverStuck' /\ ReadyHasDatagram'
    BY DEF ClientTypeOK, ClientObject, NeverStuck, ReadyHasDatagram, Running
  <1>3. StopInv'
    BY DEF ClientTypeOK, ClientObject, StopInv
  <1> QED BY <1>1, <1>2, <1>3

(* The other steps of run(), outside of the io_context.                    *)
LEMMA RunStepInv ==
    ASSUME ClientInv, RunStep
    PROVE  ClientInv'
  <1> USE NoneAssumption DEF ClientInv
  <1>1. CASE test_stop_flag
    <2>1. first' \in BOOLEAN
      BY <1>1, Zenon DEF test_stop_flag
    <2> QED BY <1>1, <2>1 DEF test_stop_flag, ClientTypeOK, NeverStuck, ReadyHasDatagram,
                              StopInv, Running
  <1>2. CASE sleep_for
    BY <1>2 DEF sleep_for, ClientTypeOK, ClientObject, NeverStuck, ReadyHasDatagram, StopInv, Running
  <1>3. CASE run_returns
    BY <1>3 DEF run_returns, ClientTypeOK, ClientObject, NeverStuck, ReadyHasDatagram, StopInv, Running
  <1>4. CASE run_ends
    BY <1>4 DEF run_ends, SaysGoodbye, send, NoClient, Datagram,
                ClientTypeOK, ClientObject, NeverStuck, ReadyHasDatagram, StopInv, Running
  <1>5. CASE start_connection
    BY <1>5 DEF start_connection, NodeStarted, Datagram,
                ClientTypeOK, ClientObject, NeverStuck, ReadyHasDatagram, StopInv, Running
  <1>6. CASE start_connection_throws
    <2>1. mutex' \in BOOLEAN
      BY <1>6, Zenon DEF start_connection_throws
    <2> QED BY <1>6, <2>1 DEF start_connection_throws,
                 ClientTypeOK, NeverStuck, ReadyHasDatagram, StopInv, Running
  <1> QED BY <1>1, <1>2, <1>3, <1>4, <1>5, <1>6 DEF RunStep

(* A record of the server: it restarts the silence only when there is a    *)
(* protocol to give it to.                                                 *)
LEMMA RecordStep ==
    ASSUME ClientTypeOK, RecordReceived
    PROVE  /\ client' \in ClientObject
           /\ client'.io = client.io /\ client'.receive = "waiting"
           /\ client'.deadline = "set" /\ to_server' \in Datagram \cup {None}
  <1>1. Received \in ClientObject /\ Received.silence \in 0 .. 2
    BY DEF Received, Receives, ClientTypeOK, ClientObject
  <1>2. (IF client.protocol THEN 0 ELSE Received.silence) \in 0 .. 2
    BY <1>1
  <1>3. client' = [Received EXCEPT !.silence = IF client.protocol THEN 0
                                                                  ELSE Received.silence]
    BY DEF RecordReceived
  <1>4. client' \in ClientObject
    BY <1>1, <1>2, <1>3 DEF ClientObject
  <1>5. client'.io = client.io /\ client'.receive = "waiting" /\ client'.deadline = "set"
    BY DEF RecordReceived, Received, Receives, ClientTypeOK, ClientObject
  <1>6. to_server' \in Datagram \cup {None}
    BY DEF RecordReceived, ClientTypeOK
  <1> QED BY <1>4, <1>5, <1>6

(* A datagram is received: whatever it is, the receive is started again    *)
(* with its deadline before it is looked at.                               *)
LEMMA ReceiveStep ==
    ASSUME ClientInv, handle_receive
    PROVE  ClientInv'
  <1> USE NoneAssumption DEF ClientInv, handle_receive, Received, Receives, Running
  <1>1. /\ client' \in ClientObject
        /\ client'.io = client.io /\ client'.receive = "waiting" /\ client'.deadline = "set"
        /\ to_server' \in Datagram \cup {None}
    <2>1. CASE HandshakeDone
      BY <2>1 DEF HandshakeDone, ClientTypeOK, ClientObject
    <2>2. CASE HandshakeWaits
      BY <2>2 DEF HandshakeWaits, send, ClientTypeOK, ClientObject, Datagram
    <2>3. CASE RecordReceived
      BY <2>3, RecordStep DEF RecordReceived
    <2>4. CASE CloseReceived
      BY <2>4 DEF CloseReceived, ClientTypeOK, ClientObject
    <2>5. CASE DatagramDropped
      BY <2>5 DEF DatagramDropped, ClientTypeOK, ClientObject
    <2> QED BY <2>1, <2>2, <2>3, <2>4, <2>5
  <1>2. ClientTypeOK'
    BY <1>1 DEF ClientTypeOK, ClientObject
  <1>3. NeverStuck' /\ ReadyHasDatagram'
    BY <1>1 DEF NeverStuck, ReadyHasDatagram
  <1>4. StopInv'
    BY <1>1 DEF StopInv, ClientTypeOK, ClientObject
  <1> QED BY <1>2, <1>3, <1>4

(* The deadline expires: it is set anew, or the receive is ended.          *)
LEMMA DeadlineStep ==
    ASSUME ClientInv, check_deadline
    PROVE  ClientInv'
  <1> USE NoneAssumption DEF ClientInv, check_deadline, Running
  <1>0. Silence \in 0 .. 2
    BY DEF Silence, ClientTypeOK, ClientObject
  <1>1. CASE deadline_extended
    <2>1. ClientTypeOK'
      BY <1>0, <1>1 DEF deadline_extended, Pings, ClientTypeOK, ClientObject
    <2>2. NeverStuck' /\ ReadyHasDatagram' /\ StopInv'
      BY <1>1 DEF deadline_extended, ClientTypeOK, ClientObject, NeverStuck, ReadyHasDatagram, StopInv
    <2> QED BY <2>1, <2>2
  <1>2. CASE deadline_passed
    <2>1. PICK r \in {"aborted"} \cup IF to_client # None THEN {"ready"} ELSE {} :
            client' = [client EXCEPT !.silence = Silence, !.deadline = "never",
                                     !.receive = IF @ = "waiting" THEN r ELSE @]
      BY <1>2 DEF deadline_passed
    <2>2. ClientTypeOK'
      BY <1>0, <2>1 DEF ClientTypeOK, ClientObject
    <2>3. NeverStuck' /\ ReadyHasDatagram' /\ StopInv'
      BY <2>1 DEF ClientTypeOK, ClientObject, NeverStuck, ReadyHasDatagram, StopInv
    <2> QED BY <2>2, <2>3
  <1> QED BY <1>1, <1>2

(* The other handlers.                                                     *)
LEMMA HandlerStep ==
    ASSUME ClientInv, Handler
    PROVE  ClientInv'
  <1> USE NoneAssumption DEF ClientInv
  <1>1. CASE handle_receive
    BY <1>1, ReceiveStep
  <1>2. CASE handle_receive_aborted
    <2>1. client' \in ClientObject
      BY <1>2, FreshClients DEF handle_receive_aborted, error_message, ClientTypeOK, ClientObject
    <2> QED BY <1>2, <2>1 DEF handle_receive_aborted, error_message, Running,
                 ClientTypeOK, NeverStuck, ReadyHasDatagram, StopInv
  <1>3. CASE handle_send_error
    <2>1. client' \in ClientObject
      BY <1>3, FreshClients DEF handle_send_error, error_message, ClientTypeOK, ClientObject
    <2> QED BY <1>3, <2>1 DEF handle_send_error, error_message, Running,
                 ClientTypeOK, NeverStuck, ReadyHasDatagram, StopInv
  <1>4. CASE check_deadline
    BY <1>4, DeadlineStep
  <1>5. CASE write_impl
    BY <1>5 DEF write_impl, send, Datagram,
                ClientTypeOK, ClientObject, NeverStuck, ReadyHasDatagram, StopInv, Running
  <1> QED BY <1>1, <1>2, <1>3, <1>4, <1>5 DEF Handler

(* The owner, and the threads that post a job.                             *)
LEMMA OwnerStep ==
    ASSUME ClientInv, stop \/ join \/ write \/ on_protocol_timeout
    PROVE  ClientInv'
  <1> USE NoneAssumption DEF ClientInv
  <1>1. CASE stop
    <2>1. /\ client' \in ClientObject /\ client'.io = "stopped" /\ client'.dtls = "none"
          /\ stop_flag' = TRUE
      BY <1>1 DEF stop, Closed, ClientTypeOK, ClientObject
    <2>2. stop_flag' \in BOOLEAN
      BY <2>1, Zenon
    <2>3. to_server' \in Datagram \cup {None}
      BY <1>1 DEF stop, SaysGoodbye, send, ClientTypeOK, Datagram
    <2>4. ClientTypeOK' /\ NeverStuck' /\ ReadyHasDatagram'
      BY <1>1, <2>1, <2>2, <2>3 DEF stop, ClientTypeOK, NeverStuck, ReadyHasDatagram, Running
    <2>5. StopInv'
      BY <1>1, <2>1 DEF stop, StopInv, ClientTypeOK
    <2> QED BY <2>4, <2>5
  <1>2. CASE join
    BY <1>2 DEF join, ClientTypeOK, ClientObject, NeverStuck, ReadyHasDatagram, StopInv, Running
  <1>3. CASE Posts
    BY <1>3 DEF Posts, ClientTypeOK, ClientObject, NeverStuck, ReadyHasDatagram, StopInv, Running
  <1> QED BY <1>1, <1>2, <1>3 DEF write, on_protocol_timeout

-----------------------------------------------------------------------------
(* The steps of run() of the server, but for those that concern the        *)
(* network, and those of its owner.                                        *)
LEMMA RunGoesOnInv ==
    ASSUME ServerInv, RunGoesOn, UNCHANGED known
    PROVE  ServerInv'
  <1> USE StartsAssumption DEF ServerInv, ServerTypeOK, PlaceInv, OwnerInv, Published
  <1>1. CASE create_io_context
    BY <1>1 DEF create_io_context
  <1>2. CASE set_value
    BY <1>2 DEF set_value
  <1>3. CASE delete_promises
    BY <1>3 DEF delete_promises
  <1>4. CASE start_receive
    BY <1>4 DEF start_receive
  <1>5. ASSUME NEW t \in IoThreads, start_thread(t) PROVE ServerInv'
    BY <1>5 DEF start_thread
  <1>6. CASE run_context_0
    BY <1>6 DEF run_context_0
  <1>7. CASE fail_promise
    BY <1>7 DEF fail_promise
  <1>8. CASE stop_io_context
    BY <1>8 DEF stop_io_context
  <1>9. CASE delete_io_context
    BY <1>9 DEF delete_io_context
  <1> QED BY <1>1, <1>2, <1>3, <1>4, <1>5, <1>6, <1>7, <1>8, <1>9 DEF RunGoesOn

LEMMA ServerRunInv ==
    ASSUME ServerInv, ServerRunStep, UNCHANGED known
    PROVE  ServerInv'
  <1>1. CASE RunGoesOn
    BY <1>1, RunGoesOnInv
  <1> USE StartsAssumption DEF ServerInv, ServerTypeOK, PlaceInv, OwnerInv, Published
  <1>2. CASE create_server_throws
    BY <1>2 DEF create_server_throws
  <1>3. ASSUME NEW t \in IoThreads, handler_throws(t) PROVE ServerInv'
    BY <1>3 DEF handler_throws
  <1>4. ASSUME NEW t \in IoThreads, run_context(t) PROVE ServerInv'
    BY <1>4 DEF run_context
  <1> QED BY <1>1, <1>2, <1>3, <1>4 DEF ServerRunStep

(* A Server_Thread that is gone, by its destructor or with its process.    *)
LEMMA NoServerInv ==
    ASSUME ServerInv, NoServerThread, UNCHANGED starts, known' \in BOOLEAN
    PROVE  ServerInv'
  <1>1. threw' \in BOOLEAN
    BY Zenon DEF NoServerThread
  <1> QED BY <1>1 DEF NoServerThread, NoThreads, ServerInv, ServerTypeOK, PlaceInv, OwnerInv,
                      Published

LEMMA ServerOwnerInv ==
    ASSUME ServerInv, ServerOwnerStep, UNCHANGED known
    PROVE  ServerInv'
  <1>5. CASE server_join
    BY <1>5, NoServerInv DEF server_join, ServerInv, ServerTypeOK
  <1> USE StartsAssumption DEF ServerInv, ServerTypeOK, PlaceInv, OwnerInv, Published
  <1>1. CASE Server_Thread
    <2>1. threw' \in BOOLEAN
      BY <1>1, Zenon DEF Server_Thread
    <2> QED BY <1>1, <2>1 DEF Server_Thread, NoThreads
  <1>2. CASE server_waits
    BY <1>2 DEF server_waits
  <1>3. CASE server_returns
    BY <1>3 DEF server_returns
  <1>4. CASE server_fails
    BY <1>4 DEF server_fails
  <1>6. CASE server_stop
    BY <1>6 DEF server_stop
  <1> QED BY <1>1, <1>2, <1>3, <1>4, <1>5, <1>6 DEF ServerOwnerStep, OwnerGoesOn

(* The Server is created, is destroyed, or dies with its process.          *)
LEMMA ServerLifeInv ==
    ASSUME ServerInv, known' \in BOOLEAN,
           create_server \/ destroy_server \/ run_throws \/ ServerDies
    PROVE  ServerInv'
  <1>4. CASE ServerDies
    BY <1>4, NoServerInv DEF ServerDies
  <1> USE StartsAssumption DEF ServerInv, ServerTypeOK, PlaceInv, OwnerInv, Published
  <1>1. CASE create_server
    BY <1>1 DEF create_server
  <1>2. CASE destroy_server
    BY <1>2 DEF destroy_server
  <1>3. CASE run_throws
    <2>1. threw' \in BOOLEAN
      BY <1>3, Zenon DEF run_throws
    <2> QED BY <1>3, <2>1 DEF run_throws
  <1> QED BY <1>1, <1>2, <1>3, <1>4

-----------------------------------------------------------------------------
(* Every step of the two and of the network keeps the invariant.           *)
LEMMA NextInv == Inv /\ [Next]_vars => Inv'
  <1> SUFFICES ASSUME ClientInv, ServerInv, [Next]_vars PROVE ClientInv' /\ ServerInv'
    BY DEF Inv, ClientInv, ServerInv
  <1> USE NoneAssumption
  <1>t. /\ to_server \in Datagram \cup {None} /\ to_client \in Datagram \cup {None}
        /\ known \in BOOLEAN
    BY DEF ClientInv, ClientTypeOK, ServerInv, ServerTypeOK
  <1>1. CASE ClientStarts
    <2>1. ClientInv'
      BY <1>1, StartStep DEF ClientStarts
    <2>2. known' \in BOOLEAN
      BY <1>1, <1>t DEF ClientStarts, ClientInv, ClientTypeOK
    <2>3. ServerInv'
      BY <1>1, <2>2, KnownChanges DEF ClientStarts
    <2> QED BY <2>1, <2>3
  <1>2. CASE ClientSteps
    BY <1>2, RunStepInv, HandlerStep, OwnerStep, ServerUnchanged DEF ClientSteps
  <1>3. CASE ServerSteps
    BY <1>3, ServerRunInv, ServerOwnerInv, ClientUnchanged DEF ServerSteps
  <1>4. CASE ServerStarts
    <2>1. ClientInv'
      BY <1>4, <1>t, NetworkStep DEF ServerStarts
    <2> QED BY <1>4, <1>t, <2>1, ServerLifeInv DEF ServerStarts
  <1>5. CASE ServerGoes
    <2>1. ClientInv'
      BY <1>5, <1>t, NetworkStep DEF ServerGoes, Reply, Datagram
    <2> QED BY <1>5, <2>1, ServerLifeInv DEF ServerGoes
  <1>6. CASE ServerDies
    <2>1. known' \in BOOLEAN /\ UNCHANGED clientVars
      BY <1>6 DEF ServerDies
    <2> QED BY <1>6, <2>1, ServerLifeInv, ClientUnchanged
  <1>7. CASE ServerReceives
    <2>1. ClientInv'
      BY <1>7, <1>t, NetworkStep DEF ServerReceives, Reply, Datagram
    <2>2. known' \in BOOLEAN
      BY <1>7, <1>t DEF ServerReceives
    <2>3. ServerInv'
      BY <1>7, <2>2, KnownChanges DEF ServerReceives
    <2> QED BY <2>1, <2>3
  <1>8. CASE ServerSends
    <2>1. ClientInv'
      BY <1>8, <1>t, NetworkStep DEF ServerSends, Reply, Datagram
    <2> QED BY <1>8, <2>1, ServerUnchanged DEF ServerSends
  <1>9. CASE ServerForgets
    <2>1. ClientInv'
      BY <1>9, <1>t, NetworkStep DEF ServerForgets, Reply, Datagram
    <2>2. known' \in BOOLEAN
      BY <1>9, Zenon DEF ServerForgets
    <2>3. ServerInv'
      BY <1>9, <2>2, KnownChanges DEF ServerForgets
    <2> QED BY <2>1, <2>3
  <1>10. CASE LoseToServer
    <2>1. ClientInv'
      BY <1>10, <1>t, NetworkStep DEF LoseToServer
    <2> QED BY <1>10, <2>1, ServerUnchanged DEF LoseToServer
  <1>11. CASE LoseToClient
    <2>1. ClientInv'
      BY <1>11, <1>t, NetworkStep DEF LoseToClient
    <2> QED BY <1>11, <2>1, ServerUnchanged DEF LoseToClient
  <1>12. CASE UNCHANGED vars
    BY <1>12, ClientUnchanged, ServerUnchanged DEF vars
  <1> QED
    BY <1>1, <1>2, <1>3, <1>4, <1>5, <1>6, <1>7, <1>8, <1>9, <1>10, <1>11, <1>12 DEF Next

(* The invariant holds in every state of a client and its server.          *)
THEOREM InvHolds == Spec => []Inv
  BY InitInv, NextInv, PTL DEF Spec

(* The client's thread never sits in io_context::run with nothing to end   *)
(* it, whatever datagrams come or do not come.                             *)
THEOREM ClientNeverStuck == Spec => []NeverStuck
  <1>1. Inv => NeverStuck
    BY DEF Inv
  <1> QED BY <1>1, InvHolds, PTL

(* Once stop() has returned, no Client is open, and none will be.          *)
THEOREM StopIsFinal == Spec => []NothingAfterStop
  <1>1. Inv => NothingAfterStop
    BY DEF Inv, StopInv, NothingAfterStop
  <1> QED BY <1>1, InvHolds, PTL

(* What server() has returned exists, and its io_context is not stopped,   *)
(* until its owner destroys the Server_Thread or run(), or a handler of    *)
(* thread 0, throws.                                                       *)
THEOREM ServerIsAlive == Spec => []ReturnedIsAlive
  <1>1. Inv => ReturnedIsAlive
    BY DEF Inv, PlaceInv, OwnerInv, Published, ReturnedIsAlive
  <1> QED BY <1>1, InvHolds, PTL

(* run() keeps the promise that server() waits for, wherever an exception  *)
(* takes it and however early or late the owner asks.                      *)
THEOREM PromiseIsKept == Spec => []WaitIsAnswered
  <1>1. Inv => WaitIsAnswered
    BY DEF Inv, ServerTypeOK, PlaceInv, OwnerInv, Published, WaitIsAnswered
  <1> QED BY <1>1, InvHolds, PTL
=============================================================================
