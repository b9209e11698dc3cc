# Helpz in TLA+

TLA+ models of Helpz, a C++/Qt library for small networked services: a message
protocol over DTLS datagrams, the DTLS client and server that carry it, a
database access layer with its threads, and the service object in which a program
runs as a daemon or a Windows service. The models are translated from the source; TLC checks
them on small instances and TLAPS proves the central facts for every instance.
Paths below are relative to the repository root.

## Inventory

### Parts and state

| Part | Source | State | Operations |
|---|---|---|---|
| Fragmented message | `Network/net_fragmented_message.*` | `part_vect_` (missing byte ranges), `max_fragment_size_` | `add_data`, `remove_from_part_vect`, `get_next_part`, `is_parts_empty` |
| Receive window | `Network/net_protocol.cpp` | `next_rx_msg_id_`, `lost_msg_list_` | `internal_process_message` up to the dispatch, `fill_lost_msg`, `is_lost_message` |
| Outgoing messages | `Network/net_protocol.cpp`, `net_message_item.*`, `net_protocol_sender.*` | `waiting_messages_`, `next_tx_msg_id_`, each message's `end_time_`, flags, fragment size | `send_message`, `prepare_packet_to_send`, `add_to_waiting`, `pop_waiting_*`, `process_wait_list`, `process_fragment_query` |
| Fragment transfer | `Network/net_protocol.cpp` | both ends' part of one long message | announcement, fragment, query, FRAGMENT timer, REMOVE_FRAGMENT |
| Protocol timer | `Network/net_protocol_timer.*` | `items_`, `new_timeout_flag_`, `break_flag_` | `add`, `stop`, `run` |
| Packet stream | `Network/net_protocol.cpp` | `packet_end_position_`, the receive device | `process_bytes`, `process_stream`, `lock_device`-less buffering |
| DTLS node | `DTLS/dtls_node.cpp`, `dtls_client_node.cpp`, `dtls_server_node.cpp` | `dtls_`, `protocol_`, both under `mutex_` | `process_received_data`, `write`, `close`, `set_protocol`, TLS callbacks |
| Server controller | `DTLS/dtls_server_controller.cpp` | `clients_` under `clients_mutex_`, `received_records_` under `record_mutex_`, record threads | `find_client`, `create_client`, `remove_copy`, `remove_frozen_clients`, `add_received_record`, `records_thread_run`, `on_protocol_timeout` |
| Client connection | `DTLS/dtls_client*.cpp` | reconnect loop, `stop_flag_`, the present `Client`: its io_context, deadline, receive, ping flag | `run`, `start`, `stop`, `start_connection`, `check_deadline`, `is_reconnect_needed`, `handle_receive` |
| Server thread | `DTLS/dtls_server_thread.cpp`, `dtls_server.cpp` | io_context, thread pool, promise of the server pointer | `run`, `run_context`, `stop`, `join`, `server`, the destructors |
| Session manager | `DTLS/dtls_session_manager_sql.cpp` | session table | `load_from_*`, `save`, `remove_entry`, `prune` |
| Database access | `Database/db_base.cpp`, `db_connection_info.cpp` | a connection per user | `exec`, `create_connection`, `close`, one method per kind of statement |
| Database thread | `Database/db_thread.cpp` | task queue, worker threads, `break_flag_`, the callers' futures | `add`, `add_query`, `add_pending_query`, `process_query`, `run`, `stop` |
| Cascading delete | `Database/db_delete_row.cpp` | the tree of `Delete_Row_Info` | `del`, `del_impl` |
| Service | `Service/service.*`, `Base/simplethread.h` | `service_`, its worker, the log thread | `start`, `stop`, `processCommands`, `restart` |
| qtservice | `qtservice/src/*` | Unix: socket file, server socket, event loop; Windows: reported state, three threads, a mutex and a condition, two semaphores | `exec`, `run`, `sendCmd`, `slotReady`, `term_handler`; `serviceMain`, `handler`, `handleCustomEvent`, `setStatus` |
| Others | credentials and TLS tools, `DTLS/OpenSSL` (legacy), UDP client and `Wait_Helper`, DBMeta, logging, settings, widgets | | not modelled, see below |

### How the parts interact

An application thread builds a message with `Protocol::send(cmd)`; the
`Protocol_Sender`'s destructor hands it to `Protocol::send_message`, which posts
it to the io_context through `Node::write`. The io thread runs
`prepare_packet_to_send`: the message gets an id, the packet goes to the DTLS
channel, and a message that may still be answered goes to `waiting_messages_`
and a time point to the controller's one `Protocol_Timer`. The timer thread calls
`on_protocol_timeout`, which runs `process_wait_list` of the node's protocol:
resend, timeout, or the next fragment query. Received datagrams are queued by the
io thread and processed by the record threads (in the client by the io thread):
`Node::process_received_data` decrypts, `Protocol::process_bytes` cuts packets
out of the stream, `internal_process_message` runs the receive window and either
dispatches, answers, continues a fragmented message or serves a fragment query.

A `Client_Thread` creates a new `Client` for every attempt to connect and runs its
io_context; a deadline, a ping that is not answered or an error of the socket ends
that run, and the loop tries again after a pause. A `Server_Thread` creates the
io_context and the `Server`, hands the pointer to `server()` through a promise and
lends itself and more threads to the io_context. A `DB::Thread` has a queue of tasks
and threads that each own a `Base`, that is a database connection. A `Service`
object lives in the main thread's event loop; controllers reach it through a Unix
socket or through the service control manager of Windows.

### What is hard here

Several threads (application, io, timer, record) work on one protocol object and
hand a message to one another; datagrams are lost, repeated and late; ids are
8 bit and wrap; timeouts race answers; maps keyed by a time point drop equal
keys; an end time may pass between two of a message's stations. Owners stop and
destroy what threads are still working in; a server dies and comes back; a
statement fails after it was carried out and is executed again; a killed service
leaves its socket file; a wake-up may come before the wait for it. PROJECT.json
lists each such place under `hazards`, with the properties that cover it.

### What correct means

- **Fragmented message**: the missing parts are exactly the bytes that have not
  arrived; a query asks for missing bytes only and never for none.
- **Receive window**: nothing is dispatched twice, a skipped message stays
  expected, the expected id follows the newest message across the wrap. The code
  keeps this until a fragment of an old message is taken for a new one.
- **Outgoing messages**: one place, one outcome, the right answer as long as ids are
  not used again too soon, and an end as long as there is a timer.
- **Fragment transfer**: delivered once and, on a network that is only lossy, in
  the end.
- **Timer**: no wake-up lost, nothing early, nothing twice, `stop()` ends it.
- **Server controller**: one node per endpoint, no lock cycle, one record or timer
  thread at a time in `process_bytes` or `process_wait_list` of a client (io threads
  run `prepare_packet_to_send` of the same protocol beside it, under
  `Node::mutex_`), no two equal clients, and silent ones go.
- **Connection**: the client never waits without a deadline, `stop()` ends it
  wherever it is and leaves nothing open, and it finds its server again; `server()`
  is always answered, and what it returns is alive until its owner destroys it,
  unless thread 0 of the server throws.
- **Database**: every accepted task runs or its future breaks, the destructor
  returns; a cascade goes from the leaves to the root, touches its own rows only,
  and when it says so its row is gone.
- **Service**: it can be reached, reports the state it is in, has one worker,
  answers every call and ends when told to.

## Modules and the code

`PROJECT.json` maps every definition to the lines it models.

- **`FragmentParts`** - `Fragmented_Message`. One action is one branch of the
  loop of `remove_from_part_vect`, so its loop invariant is an invariant of the
  specification; `add_data` enters the loop, `get_next_part` asks.
  **`MissingBytes`** is what it promises: a set of missing bytes, from which a
  fragment is subtracted. `FragmentParts` implements it (`ExactSubtraction`);
  the refinement mapping sends a state in the middle of the loop to the set
  after it, so `add_data` maps to `Add` and the rest of the loop to stuttering.
- **`RxWindow`** - the window of `internal_process_message` with `fill_lost_msg`
  and `is_lost_message`: the 8-bit ids are `% IdCount`, the comparisons are the
  code's, on plain integers. Packets are originals, repeats (`REPEATED`) and the
  fragments a query asked for (`Continue`), which carry an old id without that flag;
  an incomplete message is put on `lost_msg_list_` (`AwaitRest`), as it is by the
  FRAGMENT timer. Of a fragment the module says only whether it completes its
  message. The sender, the lossy channel in front of it and the clock are the
  environment. `strayed` is a history variable: a fragment fell into the branch for
  new messages, because the counter has wrapped since its message began or because
  it is more than 100 ids behind.
- **`WaitList`** - a `Message_Item` from `Protocol_Sender` to its destruction:
  the posted job, `prepare_packet_to_send`, `add_to_waiting` with its eviction
  and its colliding keys, timers that are kept or dropped (`RegisterTimer`), answers,
  fragment queries, `process_wait_list`, `Node::close`. Times count down.
- **`ProtocolTimer`** - `Protocol_Timer`, one step per critical section of
  `run()`, with the unlocked read of the loop's guard and the emission outside
  the lock as steps of their own.
- **`FragmentTransfer`** - composes the sender's side of `WaitList`, the
  receiver's side of `RxWindow` and the set of missing bytes (`MissingBytes`)
  for one long message: fragment sizes, queries, the FRAGMENT timer, resends,
  REMOVE_FRAGMENT, forgotten fragments. Of the window it keeps where
  `next_rx_msg_id_` stands to the message's id (`window`: before it, past it, past
  it with the wrap in between, 100 ids and more ahead), which moves as other
  messages come (`WindowMoves`) and decides which branch a fragment takes;
  `AnotherStrays` is the same mishap with another message's fragment.
- **`ServerController`** - `Server_Controller` with its nodes: io threads
  (datagrams, posted writes and removals, cleaning), record threads and the timer
  thread, over `clients_mutex_`, `Node::mutex_` and `record_mutex_`. A step is
  what a thread does between two locks. A node is destroyed, as by `shared_ptr`,
  when the map, the queue and the threads no longer refer to it. The application
  is the one the comments in `tests/DTLS/server_protocol.cpp` suggest: it calls
  `remove_copy(this)` when a message has authenticated the client. The destructor
  is in `ServerThread`; errors of the socket are left out.
  **`MCServerController`** adds symmetry.
- **`ClientThread`** - `Client_Thread::run` with the `Client`, `Client_Node` and
  `Client_Controller` of the present attempt. The record `client` has what the
  code spreads over these objects: the io_context, Botan's channel (none, in its
  handshake, active), whether there is a protocol, the ping flag, the seconds of
  silence in units of the deadline, the outstanding receive, the deadline timer
  and a posted job. A handler is one step.
- **`ServerThread`** - `Server_Thread` and its owner: construction, `server()` and
  its promise, the additional io threads, `stop`, `join`, destruction. `run()` goes
  statement by statement from `server_.store` to `delete io_context_`; it may throw
  before and after the Server is published, and so may the handlers of every thread:
  an additional thread then ends alone, thread 0 takes the Server with it
  (`run_throws`). `server()` may return between `server_.store` and `set_value`, and
  the destructor frees `promises_` if it is still there.
- **`Connection`** - composes the two over a network with one datagram each way
  and keeps of the server's nodes the one for this client (`known`). The server is
  stopped, dies and is started again, and forgets clients it believes silent.
- **`DbBase`** - `DB::Base`: a statement is what it does to a set of rows; `exec`
  makes up to three attempts, an attempt is one step, and an error may come after
  the effect. **`DbThread`** - `DB::Thread`, one step per critical section.
  **`Database`** - composes them: what the tasks do with their `Base`, among them
  the cascade of `Delete_Row_Helper`, statement by statement. **`MCDatabase`** has
  the tables, rows and infos of the run, and the assumptions on a caller of `del`
  that the theorems have as hypotheses.
- **`ServiceObject`** - `Helpz::Service::Base` and `Object` with worker and log
  thread (`ParamThread`), as operators on a record that both back ends keep.
  **`QtService`** - the Unix back end: processes of users, service processes, the
  socket file between them. **`QtServiceWin`** - the Windows back end: the service
  control manager (external), the thread of `serviceMain`, the dispatcher and the
  main thread. **`Service`** - the two as one specification; `build`, chosen at
  first, says which of them a program has, and the other stays as it is.
- **`FragmentPartsProofs`, `RxWindowProofs`, `FragmentTransferProofs`,
  `ServerControllerProofs`, `ConnectionProofs`, `DatabaseProofs`, `ServiceProofs`** -
  the theorems about the module each extends. **`SendingProofs`** - those about
  `WaitList` and about `ProtocolTimer`, which drives its `process_wait_list`.

## Runs

| Run | Shows | Bounds |
|---|---|---|
| `fragment_parts` | list ordered, subtraction exact, queries right, loop ends | 7 bytes: three holes with touching and distant neighbours fit; sizes 1, 3, 7 |
| `rx_window` | `AtMostOnce`, `ExpectsNext`, `SkippedIsExpected` | 11 ids, window 2, 13 messages of which the first 3 have been received and one is long, at most 2 per unit of time and 3 lost in a row: the counter wraps with two messages beyond, and fragments of the long one arrive in the window, beyond it and after the wrap; packets arrive in the order they are sent, so that one in flight at a time is enough; 3 900 000 states |
| `wait_list` | `OneHome`, `OneOutcome`, `NoneVanishes`, `AnswerIsMine`, and short messages are let go | 2 messages that share 1 id, one of them fragmented once it is sent again (two queries); a late io thread, colliding keys, eviction, an answer to the older one and dropped timers all happen; 890 000 states |
| `wait_list_large` | **violation**: a long message never times out | 1 message |
| `protocol_timer` | `NoLostWakeup`, `NeverEarly`, `EmittedOnce`, `EventuallyEmitted`, `StopEnds` | 3 calls, clock 0..3, slack 1 |
| `fragment_transfer` | `DeliveredOnce`, `EventuallyDelivered` | 5 bytes, sent plain first or in fragments of 2, then of 1; two packets in flight each way; the window in all four places; 55 000 states |
| `server_map` | `TypeOK`, `OneNodePerEndpoint`, `NoWaitCycle`, `OneInProtocol` | 1 endpoint, 2 nodes, 2 io threads, 1 record thread, the timer thread: a datagram and a posted write race for the endpoint while the cleaning runs |
| `server_copies` | `AtMostOneCopy` | 2 endpoints, 2 record threads, 1 io thread |
| `server_silent` | `SilentGoes` | 1 io thread, 1 record thread, 2 nodes |
| `connection` | `NeverStuck`, `NothingAfterStop`, `ReturnedIsAlive`, `WaitIsAnswered`, `ClientStopEnds`, `Reconnects` | 2 servers one after the other, 1 additional io thread: a stop, a crash, an exception and a new start, each at every point of the client's loop; 108 000 states |
| `database` | `CascadeInOrder`, `CascadeExact`, `FuturesResolve`, `DestroyEnds` | 1 or 2 threads, 2 tasks; 4 tables, two levels deep, one of them set to null, with rows that must not be touched; 76 000 states |
| `service` | `ReachableAlone`, `ReportsWhatIs`, `OneWorker`, `CallReturns`, `TerminateEnds` | Unix: 3 calls, 2 service processes (two users race, and a third call meets the result); Windows: 5 requests (install, start, pause, continue, stop); 32 000 states |

### Assumptions that carry weight

- `RxWindow`: packets stay in order, and `LoadAssumption` limits the load so that
  an id stands for one message at a time; the code, which has an 8-bit id and
  nothing else to know a message by, relies on that without checking it.
  `RepeatSpan + Rate + MaxGap + Window <= IdCount`: a message is sent again, and a
  transfer over, before the new ids come within the window of its own.
  `MaxGap + Rate * (LostTtl + 1) <= IdCount` and the same with `RepeatSpan`: an entry
  of the list is forgotten before its id comes round (with no losses in a row fewer
  than about 23 messages per second). Above these limits TLC finds a repeat
  dispatched twice and a skipped message taken off the list (see hazards).
- `RxWindow`, `strayed`: a fragment that falls into the branch for new messages makes
  `fill_lost_msg` list ids that have been dispatched, erase ids that have not, and
  move `next_rx_msg_id_` back, with the load below the limits. The three properties
  therefore speak of the time before; without that TLC finds a repeat dispatched
  twice (22 states) and a skipped message taken off the list (25 states). That the
  next original puts `next_rx_msg_id_` right again holds in every case and is part of
  `ExpectsNext`. `AtMostOnce` speaks of messages in one packet; the long ones are
  `DeliveredOnce`.
- `WaitList`: an id is used again without a look at what is under way. `crossed` is a
  history variable: the messages in flight when another went out with their id, and
  those sent too late to wait while another waits with it. Their answer may be given
  to the other one; `AnswerIsMine` says that no other answer goes astray, and
  without the exception TLC finds the answer of an evicted message given to the one
  that evicted it (7 states). `untimed` is one too: the messages that wait without a
  timer, because `items_.emplace` found the time point taken, by another node or by
  a FRAGMENT timer, or because `process_fragment_query` put them back and calls no
  `add_timeout_at`. Such a message is let go only if another timer of its node goes
  off; `EventuallyReleased` excepts it, and without the exception TLC finds it
  waiting for ever (12 states). `dropped` are the messages let go without a
  callback because they came too late, their key collided or their id was used again.
  `MaxEmits` bounds pending timeout calls; `FireTimers` waits when it is
  reached. `PromptIo` says that the io thread takes a message before its end time;
  only `wait_list_large` uses it, to show that its violation does not come from a
  late io thread, and `EventuallyCalledBack` excepts `untimed`, so that it does not
  come from a lost timer either. The model's clock is coarser than the code's, so
  equal times may or may not collide. All messages have the same `cmd`.
  `InDueOrder`: the messages that `process_wait_list` posts again go in the order of
  their time points; where the model's are equal, the code's are in either order.
- `FragmentTransfer`: with `ShortRoundTrip` a timer only goes off when nothing is
  under way. This assumes a race of the code away, that of the FRAGMENT timer and a
  late fragment: without it TLC finds a second delivery (a fragment queried twice
  reopens a finished message). So it does when a query grows to the whole message,
  which is then sent plain; both are recorded as hazards. `DeliveredOnce` speaks of
  the time before a fragment is taken for a new message (`strayed`): without that TLC
  finds a second delivery in 15 states, with the last id before the wrap, whose entry
  on `lost_msg_list_` the final fragment does not erase. Sizes below 5 do not grow
  by a fifth, larger ones do. `EventuallyDelivered` speaks of messages fragmented
  from the start (a plain one may time out first) and excepts outages and a window
  that leaves the message behind: once ten seconds have passed without a part, or
  100 newer ids, the receiver may have forgotten the message, and drops its repeats.
- `ServerController`: `QueueCap` bounds the posted jobs and the records; a
  datagram that finds no room yields nothing, which DTLS allows for any datagram.
  A receive or a write begins only while a node is left for everyone who may have
  to create one. `AtMostOneCopy` does not say that one of two equal clients
  survives: when both have passed `check_copy`, each erases the other (hazards).
- The clock bounds (`MaxTime`) only end the run; every order of adding, waiting,
  notifying and stopping occurs below them.
- `Connection`: the client's handlers do not throw (other than for a socket error);
  those of the server may. `server_` is never reset, so that an exception in
  `start_receive`, in the creation of a thread or in a handler of thread 0 destroys
  the Server its owner uses; `ReturnedIsAlive` speaks of the time before one
  (`threw`), and without that TLC finds it in 9 states. An object that was freed under
  the code using it (`promises_` by the destructor, the Server under an additional
  thread) is used on without effect, or the process dies, which `ServerDies` has at
  any time. The owner asks for `server()` before it destroys a `Server_Thread`, a
  pointer is read and used in one step. A datagram is in flight for less than the ten seconds of the
  deadline, and those of an old `Client` do not reach the new one, whose socket has
  another port. `MaxStarts` bounds the servers.
- `Database`: the database keeps keys unique and references intact and rejects what
  would break them; a row has one reference, and keys are not null. The infos are a
  tree whose tables refer to their parent's; set-to-null within one table, which has
  a clause of its own, is left out. With two threads another task may
  insert a row between two statements of a cascade, which has no transaction, so
  `CascadeInOrder` speaks of one thread only; `CascadeExact` speaks of both. The
  rows that depend on the deleted one (`Own`) are the least set that holds it and
  every row that refers to a member.
- `Service`, Unix: `slotStart` is the first event of the loop; `quit()` lets it
  finish the events at hand; the backlog of five is never full; a signal is one
  step without cleaning up, as `term_handler` calls `exit()`. The values of answers
  are left out. `ReachableAlone` covers a service however it was started, with `-exec`
  too: `QtServiceBase::exec` runs it with `is_service = true` on Unix
  (`qtservice/src/qtservice.cpp:819`), and so with its socket (see Findings). It
  excepts services started while another one has not
  ended: nothing keeps two starts apart, and then one unlinks the other's socket
  file (hazards). After `stop()` a `-list` command meets the null `service_`:
  `list_after_stop`.
- `Service`, Windows: the SCM passes on one control at a time and none while the
  service starts, stops or is stopped. `setStatus` reports what it stores, so that
  the report at the end of `handler()` changes nothing. The timeouts of 20 s and 1 s
  are choices. `-exec` is the same as on Unix without the socket. The process ends
  with `sysCleanup`. `handler()` waits on a condition without a predicate; spurious
  wake-ups, which would make it report a state before the main thread is in it, are
  not modelled, and that two threads wait at once is excluded by the SCM.

### Fairness

Weak fairness of the threads' own steps: the io thread, the timer thread and the
loop keep running, and time passes. Nothing is assumed of the network or the peer
in `WaitList`. `FragmentTransfer` assumes a fair-lossy network (strong fairness of
processing a query for a position and a fragment from it) and that the application
now and then sends something newer: a repeat whose original was lost is dropped
until a newer message has shown the gap. `ServerController` assumes strong fairness
of every thread, because mutexes come free again and again rather than for good,
and of the io_context handing out posted jobs and the cleaning timer's handler
although datagrams keep arriving; its queue is first in, first out. `Connection`
assumes that threads run (thread 0 and each additional thread of the server for
itself), sleeps and joins end, nothing has to throw or to die, and, strongly, that a name asked
for again and again is resolved in the end, that a deadline expires although
datagrams come between, and that a hello and its answer get through in the end.
`Database` assumes weak fairness of every worker and of the destructor once its
joins can return; `Service` of the processes' own steps and the log threads, and
nothing of users and signals.

## Theorems

All for every value of the constants under the assumptions named in the modules,
which are: sizes, counts and times are natural numbers, positive where the code has
them so; the placeholders (`None`, `Nobody`, `NoId`, `NoPart`, `NoTime`, `Null`) are no
member of what they stand in for; sets of threads are disjoint; and, for
`RxWindow`, `LoadAssumption` above. In each module `Inv` is the inductive invariant,
`InitInv` and `NextInv` with one lemma per action show that it is one, `InvHolds`
states it (the timer's is `TimerInv`; that of `Database` is in two parts, `ThreadInv`
and `DataInv`). The properties themselves are not inductive; what `Inv` adds is said here.

- **FragmentParts.** `Inv` is the loop invariant: types, `PartsOrdered` (parts
  non-empty, ascending, not touching), `PassedBefore` (all the iterator has passed
  ends before the rest of the new part), `AskedIsMissing`. `PassedBefore` is what
  makes it inductive: it is why a `break` forgets nothing and why the rest that
  `CutsTail` carries on with starts behind the cut part. From it
  `PartsAlwaysOrdered`, `QueriesAskForMissing` and `RefinesMissingBytes`, the
  latter with one lemma per branch that computes the covered bytes. The lemmas on
  `RemoveAt`, `InsertAt`, `ReplaceAt` describe `vector::erase`, `insert` and
  assignment.
- **ProtocolTimer.** `TimerInv` adds to the checked invariants that an item is filed
  under the time of its own call and that `Wake` never overwrites items still to
  be emitted; from it `WakeupsNotLost`, `OneEmissionPerCall`, `NoEarlyEmission`.
- **RxWindow.** For every set of long messages. The originals in flight are
  consecutive and in order, and the first of them is at most `MaxGap` after the newest
  one received (`ChannelInv`); the expected id is that of a message shortly before it,
  even if a fragment has moved it (`ExpectInv`), so that the comparison of ids never
  takes an original for a message of the past. Until a fragment is taken for a new
  message more holds: an id on the list stands for a long message, or for one that was
  skipped, not dispatched, and sent so shortly before (`ListInv`) that a repeat with
  this id, no older than `RepeatInv` says, is a repeat of that message. The lemmas
  `ModUnique`, `SameId`, `ModShift` say what `%` does to ids at most a lap apart. From
  it `NoMessageTwice`, `NextIsExpected` and the action property `SkippedStaysListed`.
- **WaitList.** No two waiting messages have the same id, and of the messages with
  the id of a waiting one only itself, or one that has crossed it, may still be
  answered (`IdInv`); what is queued or waits has had no outcome, and what nothing
  refers to has had exactly one (`OutcomeInv`). From it `MessageHasOneHome`,
  `OutcomeIsFinal`, `NothingVanishes`, `AnswersAreOwn`, for late io threads,
  colliding keys and evictions as well.
- **FragmentTransfer.** `LongIsDeliveredOnce` has two hypotheses, the ones without
  which TLC finds a second delivery: `ShortRoundTrip`, and `LongMessage`, the
  message is longer than `HELPZ_MAX_MESSAGE_DATA_SIZE`, the default fragment size
  and what `max_fragment_size_` grows to. Then a message once fragmented is never
  sent plain again (`PlainInv`), there is one packet or query of it at a time
  (`OneAtATime`), and once it is delivered all that is on its way is repeated and
  the id is not lost (`DeliveredInv`), unless a fragment was taken for a new message.
  The run's instance satisfies both.
- **ServerController.** What each thread has in its hands at each step (`ShapeInv`);
  a mutex is held exactly by the thread whose step is inside of its critical section
  (`LockInv`); the map and the nodes in use agree (`MapInv`, `UseInv`); what the
  loop of `remove_copy` has passed is no settled copy (`CopyInv`). From it
  `NodePerEndpoint`, `ProtocolIsExclusive`, `CopiesGo`, and `NoDeadlock`: a thread
  waits for `record_mutex_` with no lock, for `clients_mutex_` at most with a
  `record_mutex_`, for a `Node::mutex_` at most with those two.
- **Connection.** `mutex_` is held only while a `Client` is being created, and
  `stop_flag_`, once set, finds none with an open io_context and lets none be
  created (`StopInv`); for every place `Server_Thread::run()` may be at, which of
  its objects exist, whether the promise is kept and what its owner may count on
  (`PlaceInv`, `OwnerInv`). From it `ClientNeverStuck`, `StopIsFinal`,
  `ServerIsAlive`, `PromiseIsKept`.
- **Database.** `ThreadInv` is the account of the tasks: each is in the queue once,
  or with one worker, or its future is settled, and a worker that is in no task has
  left nothing of the last one behind (`TasksAccountedFor`). From it
  `NoneLeftWaiting`, the safety side of `FuturesResolve`: when the destructor has
  returned, no future is queued or running. `DataInv` is about the rows: references
  are intact; an active query means that its statement was carried out; and, with
  one thread, the infos of a cascade that are done select no row any more
  (`CascadeInv`). The lemmas behind it: a statement that was carried out would select
  nothing now (`GoneAfter`), and none of a cascade makes another one select
  something again (`GoneStays`), so that a statement carried out twice, because its
  first answer was lost, does no harm. From it `CascadeIsInOrder` and, with
  `RootInv`, the action property `CascadeIsExact`.
  The hypotheses are what a caller of `del` has to see to, and without each of them
  TLC finds a counterexample: `TwoLevels`, no child of a child has childs, because
  the clause of `db_delete_row.cpp:84` compares the field of the parent with the key
  of the root, whatever level the parent is on (hazards); `NamesAll`, every table
  that refers to rows that are deleted has a `Delete_Row_Info`; `KeptAreKept`, no
  table is both deleted from and set to null; `NotInsertedAgain`, nobody inserts the
  deleted row while the cascade runs. The run's instance satisfies all four
  (`CallerAssumption`).
- **Service.** Unix: how far a process is says what its object is and whether the
  socket file is its own, and without overlap at most one process lives. Windows:
  the stages of the two threads that run `handler()`; until `serviceMain` has
  reported RUNNING the dispatcher passes nothing on, so that startup is handled
  first and once, and after it at most one event is on its way. From it
  `ServiceIsReachable`, `ReportIsTrue`, `WorkerIsOne`.

The parts of `Inv` that are not properties of a run (`PassedBefore`, `ListInv`,
`LockInv` and so on) are there for the proofs.

Only model-checked is liveness, which is out of the prover's reach: `LoopEnds`,
`EventuallyReleased`, `EventuallyCalledBack`, `EventuallyEmitted`, `StopEnds`,
`EventuallyDelivered`, `SilentGoes`, `ClientStopEnds`, `Reconnects`,
`FuturesResolve`, `DestroyEnds`, `CallReturns`, `TerminateEnds`. Every invariant and
action property of a run is a theorem.

## Findings

- `Network/net_protocol.cpp:131`: every fragment sent moves `end_time_` ten
  seconds ahead, so a long message to a silent peer is resent for ever and its
  timeout callback never runs (`wait_list_large`).

- `qtservice/src/qtservice.cpp:583` says of `-exec`: "In this mode you will not be able
  to communicate with the service from the contoller." On Unix the code does the
  opposite: lines 818-824 run the service with `is_service = true`, it binds the
  socket, and every controller reaches it; `ReachableAlone` holds for it as for any
  other service. On Windows, where `is_service` is false, the text is right.

A message that the io thread takes after its `end_time_` is sent and destroyed
without its timeout callback (`Network/net_protocol.cpp:176`); no text of the
repository says otherwise, so it is a hazard and part of `dropped` in `WaitList`.

## Not modelled

- **Packet stream** (`process_bytes`, `process_stream`): over DTLS a record is one
  whole message, the buffer is empty between two of them, and the cutting and
  resynchronisation has nothing to do. What happens after an exception is a hazard.
- **Session manager**: a cache for Botan in one SQL table, each operation a single
  statement. **Credentials and TLS tools**: files read for Botan, no state.
- **Legacy DTLS** (`DTLS/OpenSSL`) and the **UDP client**: not part of the build.
- **DBMeta, Base utilities, Logging, Widgets**: descriptions made at compile time,
  stateless helpers, output, GUI controls.
- Within modelled parts: the handshake itself and certificates (Botan); the text of
  SQL statements; set-to-null within one table and `fill_where_func` of the
  cascading delete; thread priorities; paths, descriptions and log messages of
  qtservice.

## Plan

1. A cascade of three levels, where the clause of `db_delete_row.cpp:84` names the
   field of another table (hazards), with more than one reference per row.
2. A receive window behind a channel that reorders.
