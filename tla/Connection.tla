------------------------------ MODULE Connection ------------------------------
(***************************************************************************)
(* A Client_Thread and a Server_Thread with the network between them.  Of  *)
(* the server's nodes only the one of this client's present endpoint is    *)
(* kept: known, once its handshake is done.  ServerController has the      *)
(* others, and the threads that race for them.  The server may be          *)
(* destroyed and created again, or its process may die.                    *)
(***************************************************************************)
EXTENDS ClientThread, ServerThread

VARIABLE known             \* the server has an active node for the client

vars == <<clientVars, serverVars, known>>

Init == ClientInit /\ ServerInit /\ known = FALSE

(* Its first receive was started, and a thread runs the io_context.        *)
Serving ==
    /\ server = "alive" /\ io_context = "open"
    /\ spc = "run" \/ (spc = "threads" /\ \E t \in IoThreads : io[t] = "run")

(* Socket::send of the server.                                             *)
Reply(d) == to_client' = IF to_client = None THEN d ELSE to_client

-----------------------------------------------------------------------------
(* A new Client is a new endpoint: the server has no node for it, and what *)
(* the old one has sent is answered, if at all, to the old endpoint.       *)
ClientStarts ==
    /\ start
    /\ known' = (known /\ stop_flag)
    /\ UNCHANGED serverVars

ClientSteps ==
    /\ RunStep \/ Handler \/ stop \/ join \/ write \/ on_protocol_timeout
    /\ UNCHANGED <<serverVars, known>>

ServerSteps ==
    /\ ServerRunStep \/ ServerOwnerStep
    /\ UNCHANGED <<clientVars, known>>

(* The Server opens its socket: what was sent before is lost.              *)
ServerStarts ==
    /\ create_server
    /\ to_server' = None
    /\ UNCHANGED <<pc, first, stop_flag, mutex, client, to_client, owner, known>>

(* ~Server, at the end or after an error: every node says goodbye.         *)
ServerGoes ==
    /\ destroy_server \/ run_throws
    /\ known' = FALSE
    /\ IF known THEN Reply("close") ELSE UNCHANGED to_client
    /\ UNCHANGED <<pc, first, stop_flag, mutex, client, to_server, owner>>

(* The server's process dies and is started again.                         *)
ServerDies ==
    /\ sowner # "none" /\ starts < MaxStarts
    /\ NoServerThread
    /\ known' = FALSE
    /\ UNCHANGED <<clientVars, starts>>

(* The server processes a datagram.  Records of a connection it does not   *)
(* know it drops; to data it may answer.                                   *)
ServerReceives ==
    /\ Serving /\ to_server # None
    /\ known' = CASE to_server = "hello" -> TRUE
                  [] to_server = "close" -> FALSE
                  [] OTHER -> known
    /\ CASE to_server = "hello" -> Reply("hello")
         [] to_server = "data" /\ known -> Reply("data") \/ UNCHANGED to_client
         [] OTHER -> UNCHANGED to_client
    /\ to_server' = None
    /\ UNCHANGED <<serverVars, pc, first, stop_flag, mutex, client, owner>>

(* The application on the server sends something.                          *)
ServerSends ==
    /\ Serving /\ known /\ to_client = None
    /\ Reply("data")
    /\ UNCHANGED <<serverVars, pc, first, stop_flag, mutex, client, to_server, owner, known>>

(* The client was silent for cleaning_timeout_, longer than any datagram   *)
(* is in flight.                                                           *)
ServerForgets ==
    /\ Serving /\ known /\ to_server = None /\ to_client = None
    /\ known' = FALSE
    /\ Reply("close")
    /\ UNCHANGED <<serverVars, pc, first, stop_flag, mutex, client, to_server, owner>>

LoseToServer ==
    /\ to_server # None
    /\ to_server' = None
    /\ UNCHANGED <<serverVars, pc, first, stop_flag, mutex, client, to_client, owner, known>>

(* A datagram that has reached the client's handler queue is not lost.     *)
LoseToClient ==
    /\ to_client # None /\ client.receive # "ready"
    /\ to_client' = None
    /\ UNCHANGED <<serverVars, pc, first, stop_flag, mutex, client, to_server, owner, known>>

Next ==
    \/ ClientStarts \/ ClientSteps
    \/ ServerSteps \/ ServerStarts \/ ServerGoes \/ ServerDies
    \/ ServerReceives \/ ServerSends \/ ServerForgets
    \/ LoseToServer \/ LoseToClient

(* Threads run, timers expire, joins and sleeps end.  A name that is asked *)
(* for again and again is resolved in the end, a hello and its answer get  *)
(* through in the end, and a datagram is not in flight for ever.           *)
Client(A) == A /\ UNCHANGED <<serverVars, known>>
Fairness ==
    /\ WF_vars(\/ ClientStarts
               \/ Client(\/ test_stop_flag \/ sleep_for \/ run_returns \/ run_ends
                         \/ handle_receive \/ handle_receive_aborted))
    /\ SF_vars(Client(start_connection)) /\ SF_vars(Client(check_deadline))
    /\ SF_vars(Client(to_client = "hello" /\ handle_receive))
    /\ SF_vars(Client(to_server = None /\ handle_receive /\ to_server' = "hello"))
    /\ SF_vars(ServerReceives /\ to_client' = "hello") /\ WF_vars(LoseToServer)
    /\ WF_vars(\/ ServerStarts \/ (destroy_server /\ ServerGoes)
               \/ (RunGoesOn /\ UNCHANGED <<clientVars, known>>))
    /\ WF_vars(OwnerGoesOn /\ UNCHANGED <<clientVars, known>>)
    /\ \A t \in IoThreads :
          WF_vars(run_context(t) /\ UNCHANGED <<clientVars, known>>)

Spec == Init /\ [][Next]_vars /\ Fairness

-----------------------------------------------------------------------------
(* stop() ends the client's thread, wherever its reconnect loop is.        *)
ClientStopEnds == owner = "joining" ~> pc = "ended"

(* The client finds its server again: while a server is there and stop()   *)
(* was not called, the two are connected again and again, also after the   *)
(* server was destroyed, died, or forgot the client without being heard.   *)
Reconnects == []<>(~Serving \/ stop_flag \/ (client.dtls = "active" /\ known))
=============================================================================
