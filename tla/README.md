# A verification of cflib

cflib is a C++/JavaScript library for servers: event loops and cross-thread calls, TCP and TLS,
HTTP and WebSocket servers, remote method invocation for browsers, PostgreSQL access, a Kafka
client. This directory holds TLA+ modules about the parts of it that have protocols, TLC
configurations that check them on small instances, and proofs for TLAPS. All paths below are
relative to `src/cflib/`, unless they begin with `src/`.

`PROJECT.json` lists components, runs, mutants, the lines every definition stands for, hazards,
findings and theorems. A run is `tlc -config <cfg> <module>` with the names of section 3, e.g.
`tlc -config MCTCPConnection.cfg TCPConnection`. The proofs are checked by `tlapm <module>.tla` for
the eight modules whose names end in `Proofs`.

## 1. The system

| Component | State it keeps | Operations | Talks to |
|---|---|---|---|
| **ThreadVerify** (`util/threadverify*`, `util/impl/threadverifyimpl*`, `util/functor.h`) | queue of functors, one wake-up watcher and a stop flag per pool thread, `isActive_`; a semaphore in the frame of a synced caller | call (async, with a return value, deferred), `execLater`, drain, stop, join | everything that runs on a thread of its own |
| **ThreadFifo** (`util/threadfifo.h`) | ring, two indices, a count, a spinlock | `put`, `take` | ThreadVerify |
| **Event loop** (`util/libev`, `util/evtimer*`) | flags of the wake-up, watchers per descriptor with their epoll masks, heap of timers | send, poll, start and stop of watchers and timers | ThreadVerify, TCP |
| **TCP** (`net/tcpconn*`, `net/tcpmanager*`, `net/impl/tcpmanagerimpl*`, `net/impl/tcpconndata*`) | per connection: two watchers, write buffer, close type and what the user was told of it, deferred close and delete; the listening socket | listen, connect, accept; read and write requests, close, destroy, socket events, callbacks by `execLater`, stop | ThreadVerify; HTTP, clients |
| **TLS** (`net/impl/tlsthread*`, `crypt/tls*`) | a Botan stream beside the TCP record, plain text held for the handshake | the same, with bytes passed through the stream on a second thread | TCP |
| **HTTP connections** (`net/impl/requestparser*`, `net/request*`) | header, body, request number, replies held back, reference counts, pass-through handler | receive, parse, call handlers, reply, abort, detach | TCP; request handlers on any thread |
| **HTTP threads** (`net/httpserver*`, `net/impl/httpthread*`) | parser list, active requests | accept, hand to a thread, shutdown | HTTP connections |
| **Redirects, HTTP client** (`net/redirectserver*`, `net/httprequest*`) | two sockets that feed each other; one request with its timer | forward, end; start, reply, time out | TCP |
| **File server** (`net/fileserver*`) | files, pages with their parts, tag of this start | decide, render, cache | HTTP |
| **WebSocket** (`net/websocketservice*`) | handler per connection, receive buffer, times of last reads | upgrade, frames, pings, close | HTTP; sessions |
| **WebSocket sessions** (`net/wscommmanager*`) | three maps: client ids, sessions, connections; what was verified; last close | identify, check (asynchronously), announce, time out | WebSocket; RMI |
| **RMI** (`net/impl/rmiserverbase*`, `net/rmiservice*`, `net/rsig.h`, `src/js/net/rmi.mjs`) | services, replies that are delayed; the browser's queue of waiting requests; generated stubs | call, reply, signal, reconnect | sessions |
| **Serialization** (`serialize`, `src/js/net/ber.mjs`) | none | BER in two languages, code generation | RMI, storage |
| **PostgreSQL** (`db/psql/psql*`) | per thread: connection, transaction and rollback flags, statements to remove; per object: its part of the transaction, its statement, parameters, its result | begin, commit, rollback, prepare, exec, next, reconnect | the server |
| **Schema migration** (`db/psql/schema*`) | the table of applied revisions | update | PostgreSQL |
| **Qt SQL transactions** (`db/db*`) | the same flags over `QSqlDatabase` | begin, commit, rollback | a database |
| **Kafka client** (`net/kafkaconnector*`, `net/impl/kafka*`) | metadata, one connection per broker, group generation and state | produce, fetch, join, sync, heartbeat, rejoin | TCP |
| **Mailer** (`util/mailer*`) | queue of mails, one process | send, next, shutdown | ThreadVerify, sendmail |
| **Logging** (`util/log*`) | file, level, depth of traces per thread | lines, traces, callback | everything |
| **TLS credentials** (`crypt/tlscredentials*`) | certificates, trusted ones, revocation lists, a chain per private key; files that are loaded and not activated | add, load, activate, choose for a handshake | TLS |
| **Browser library** (`src/js/loader.js`, `src/js/util`, `src/js/net/netutil.mjs`) | waiting calls of modules; functions bound to events; the waiting layer | require, bind, fire | RMI |
| Older HTTP client, HTTP authentication, utilities | little | | |

What is hard in it:

* **Threads.** A handler runs to completion on its thread, but a call to an object of another
  thread is only queued: whatever was true when it was posted may be false when it runs. Callbacks
  made with `execLater` are timers with delay 0; libev does not order timers that are due at the
  same time.
* **Lifetimes.** `TCPConn`, `RequestParser`, `Request`, Kafka connections and the frame of a synced
  caller are destroyed on one thread while another still holds calls for them.
* **Deferred work.** Closing waits for the last byte, deletion waits for the close, a reply waits
  for the replies before it, a statement is removed only when the failed transaction has ended.
* **The peer.** TCP cuts streams anywhere, either half closes at any time, a client resumes its
  session from several connections at once, the database connection breaks inside a transaction, a
  broker answers for a group that was left.

The properties that make each component correct are in section 3, the hazards they are aimed at in
`PROJECT.json`.

## 2. Modules

Each component has a module of its own. To keep the number of runs small, five modules `MC...` hold
several components: a variable `part`, chosen in the initial state, says which of them moves, and
the others stay as they began. The state spaces are added and not multiplied, and a property of a
component is checked where its part runs. Components that work on the same state are composed
properly: `TLSConnection` extends `TCPConnection`, and `TCPEnd` is what users see of a connection.

| Module | Models | Checked by |
|---|---|---|
| `TCPConnection` | one plain connection, its user, its socket; implements `DuplexChannel` | `tcp` |
| `DuplexChannel` | what the channel promises: halves that close for good, a FIN after the last byte | `tcp` |
| `TCPEnd` | what users of a connection see of it | `http` |
| `TLSConnection` | `TCPConnection` with the TLS thread between user and network thread | `layers` |
| `TCPManager` | who owns a descriptor: users that open, the network thread that accepts, starts, stops | `layers` |
| `WSFrames` | frames of a WebSocket connection, and its timeouts | `layers` |
| `BER` | writers and readers in C++ and JavaScript | `layers` |
| `ThreadVerify` | pool, callers, shutdown | `threads` |
| `ThreadFifo` | the ring buffer, one memory access per step; implements `BoundedFifo` | `loop` |
| `BoundedFifo` | what a shared bounded queue promises | `loop` |
| `AsyncWake` | `ev_async_send` against the loop, one memory access per step | `loop` |
| `IOWatchers` | io watchers over epoll, descriptors used again, a forked child | `loop` |
| `TimerHeap` | the heap of timers | `loop` |
| `LogFile`, `Mailer` | lines and traces; the queue of mails | `loop` |
| `HttpConnection` | parser, request handles, the TCP connection as they see it | `http` |
| `HttpThreads` | choice of a thread, count of its parsers, the end of the server | `http` |
| `RedirectForward`, `HttpRequest` | two connections forwarded; the client | `http` |
| `TLSCredentials` | certificates, keys and the chains a handshake is given | `http` |
| `FileServer` | requests for files, caches, restarts; templates | `http` |
| `ModuleLoader`, `BrowserEvents` | scripts of a page, also combined to one; events, throttle, waiting layer | `http` |
| `WSCommManager` | WebSocket connections and their sessions, with the asynchronous checker | `websocket` |
| `RMI` | browser client, RMI server and one service, with the connections between them | `websocket` |
| `RMIStubs` | the stubs generated for a service and its classes; the parser of the headers they are generated from | `websocket` |
| `PSql`, `PSqlValues` | the objects of one thread and their server; parameters and fields | `backends` |
| `SchemaUpdate` | two programs that migrate one schema | `backends` |
| `QtSqlTransaction` | nested scopes | `backends` |
| `KafkaGroup`, `KafkaAssignment`, `KafkaClient` | the group protocol; the shares the leader computes; producers and readers | `backends` |

How state and actions correspond to code, where it does not speak for itself:

* **TCPConnection.** `d` is the `TCPConnData` record with the names of its fields. The operators
  `CallClosed`, `CloseConn`, `Writeable` and the others are the functions of `TCPManagerImpl`, from
  the record before to the record after; an action applies them to the call at the head of `calls`
  (the queue of the network thread), to a socket event, or to a callback that is due. A `CloseType`
  is the set of its bits, so `closeConn`'s bit arithmetic is set algebra. Bytes are counted: no
  property depends on their values. `unsent`, `readDue`, `writesOwed`, `stopped` are history: what
  the user handed in and is owed.
* **TLSConnection.** `tls` is the queue of the TLS thread, the rounds of the handshake and the plain
  text that waits for it. Botan is a stream that may ask for another round, deliver, or fail, also
  at the end of bytes that complete the handshake. `due` and `silent` are history: a read that is
  owed an answer, and a read half that closed unannounced while bytes or a close were on their way.
* **TCPManager.** `kernel` is the set of open numbers; a number that is closed is given out again at
  once, which is what makes a second close harmful.
* **ThreadVerify.** `at[c]` is the line a caller has reached in `execCall` or in
  `stopVerifyThread`, `loop[t]` the place of a pool thread in its event loop; `sent[t]` is the
  pending flag of its `ev_async`. `result` is the variable in the frame of a synced caller that the
  functor writes to. The queue is the sequence that `BoundedFifo` promises, which
  `ThreadFifo` implements; that a wake-up is never lost is what `AsyncWake` shows.
* **IOWatchers.** The list of watchers of a descriptor (`anfds[fd].head`) is a set, and `fd_event`
  takes its members in any order; `fdchanges` is the set of descriptors with `reify`; `fd_reify`
  handles all of them in one step; what `epoll_wait` returned (`todo`) is handled entry by entry.
  A generation number is only ever compared with the current one: a registration is `fresh` or not.
* **TimerHeap.** `heap` is `timers` with `ANHE_at_cache` as `at`; `UpHeap` and `DownHeap` are the
  loops, as recursive functions; `expired` and `pendings` are what `timers_reify` and
  `ev_invoke_pending` have still to do.
* **LogFile.** What a thread writes is one step, under the mutex; `infos` is the table of threads
  with their numbers and indents, `traces` the trace objects a thread has on its stack, and the
  history `line` the columns written last with what they were made of.
* **TLSCredentials.** A certificate is what the code looks at (key, name, ids), a file what can be
  parsed of it; each round of the search for a chain is a step.
* **HttpConnection.** A request is a token for the head, one for the end of the head, and one for
  each unit of its body. `p` is the parser, `queue` the calls posted to the HTTP thread, `later`
  what `execLater` and `deleteNext` scheduled. `phase` splits `parseRequest` at the calls of
  handlers, since other threads run while a handler does.
* **HttpThreads.** Each update of `activeRequests_` is a read and a write; `lost` holds the parsers
  whose start, or whose end, was not counted because two of them overlapped.
* **HttpRequest.** `tls` says which requests go over TLS; `down` is what a Conn asked of such a
  connection and the TLS thread has not passed on yet. The history `harm` notes what went wrong: a
  callback and the timeout crossed (`late`), a `closed()` that was asked for never came (`unheard`),
  an object was used after its end (`misused`).
* **ModuleLoader.** A module is executed when all it needs have been; the combiner is modelled by the
  order in which it writes the files and by the modules it gives each function.
* **WSCommManager.** `net` and `buf` stand for the WebSocket service below, with frames as units;
  `work` is the rest of a loop that calls the listeners, which the code runs to its end before the
  thread takes another event; `dataId`, `known`, `info` and `clientIds` are the manager's maps.
* **WSFrames.** A payload is the place of its first byte in the stream and its length, so that a
  message that lost, doubled or swapped bytes is another value; only the bytes of lengths are spelt.
* **RMI.** `client` holds the variables of `rmi.mjs`; a browser handler is one action, since
  JavaScript runs it to its end. `server` and `service` are the queues of the two threads with
  `activeRequests_`, `defaultListeners` and the `RMIReplier` objects that wait. `up` and `down` are
  the messages of a connection on its way through sockets and the WebSocket service; `WSCommManager`
  models that part, here it only announces what it has been told.
* **PSql.** `sql` is the stack of objects, `td` the `ThreadData` they share, `conn` the server as
  libpq shows it: an error spoils a transaction, COMMIT of a spoiled one is a ROLLBACK that
  succeeds, a query while rows wait is refused. A query may break off after rows, which the object
  is not told, and the answer to a COMMIT may be lost with the connection.
* **BER.** A message is boxed whole before it goes to the other language; a shared pointer is null or
  points to one of `Classes`, which the reader may not know.
* **RMIStubs.** A call, a signal or a registration for one goes from a generated stub to the other
  side; `OldModules` are what an earlier export left. A header is a sequence of tokens: comment marks, quotes, brackets of classes,
  namespaces and functions, labels of sections, declarations, the mark of a serialized class.
* **KafkaGroup.** `k` holds the members of `KafkaConnector::Impl`, `conns` its connections, which
  delete themselves after `closed()`. The functions of the class take the state and give the next
  one, so that a reply that leaves and joins again is one step.

## 3. Runs

| Run | Module and cfg | Properties and what they say |
|---|---|---|
| `tcp` | `TCPConnection`, `MCTCPConnection.cfg` | the descriptor is closed once and no watcher outlives its half (`DescriptorClosedOnce`); accepted bytes are watched and go before the FIN (`BytesDelivered`); a connection without user is silent and freed, read and write requests are answered (`NothingOwed`); deferred closes and deletes happen (`ClosesFinish`); refinement of `DuplexChannel` (`ImplementsChannel`) |
| `layers` | `MCLayers`, `MCLayers.cfg` | the same over TLS: one answer for each request, nothing left behind, nothing used after it is freed (`TlsAnswers`); a descriptor has one owner while it is open and none after (`DescriptorsOwned`); what one language or version wrote the other reads, also cut off (`WrittenIsRead`); messages whole, once, in order, pings answered, a silent client given up and no other (`WebSocketKept`) |
| `threads` | `ThreadVerify`, `MCThreadVerify.cfg` | a functor runs once, the frame of a synced caller outlives it, and the caller goes on with the result of his own call (`CallsSafe`); calls of a caller begin in order (`BegunInOrder`); calls are served and shutdown returns (`CallsServed`) |
| `loop` | `MCEventLoop`, `MCEventLoop.cfg` | kernel and watchers agree whenever the loop waits, a callback is for its own file (`WatchersTrue`); timers in order, none early, none left (`DueInOrder`); columns and texts of the log (`LogTells`); mails in turn, none forgotten (`MailsInTurn`); the loop never sleeps on work (`Woken`); the ring refines the queue (`ImplementsFifo`) |
| `http` | `MCHttpConnection`, `MCHttpConnection.cfg` | each request gets its own bytes, replies in order and never stuck (`PipelineKept`); parser and buffer shared by the threads stay valid (`SharedSafely`); threads end after their parsers, and end (`ThreadsOutlive`); forwarded bytes arrive and both sides end (`ForwardsToTheEnd`); each `start()` is answered once (`RepliedOnce`); a handshake gets a chain for its key, in which each certificate is issued by the next (`CredentialsFit`); no stale page or script, pages mean what templates say, modules run after those they need, also combined to one script, listeners are called as documented, the layer is hidden as often as shown (`SiteServed`); requests are answered, connections freed (`NothingHangs`) |
| `websocket` | `MCWebSocket`, `MCWebSocket.cfg` | the maps of the sessions agree (`MapsAgree`); listeners hear of a connection in order and only after the check (`ToldInOrder`); reading stops only for a reason (`StoppedForAReason`); callbacks get their own replies, nothing is kept of a connection that went, what waits is served (`CallersAnswered`); stubs and server number functions and members alike, and what is read of a header are its marked classes with their own declarations (`StubsAgree`); checks end, sessions expire (`NobodyWaits`) |
| `backends` | `MCBackends`, `MCBackends.cfg` | one owner of the transaction (`OneOwner`); `commit()` tells the truth, no statement in another object's way (`EndsClean`); the same for Qt scopes (`ScopesTell`); no pointer to a dead connection (`PointersLive`); one answer per request, the search for brokers goes on (`ClientKept`); shares disjoint, complete and even (`FairShares`); parameters and fields come through (`ValuesKept`); revisions whole, in order, once per program (`RevisionsWhole`) |
| `tcp_closed_once` | `TCPConnection`, `MCTCPClosedOnce.cfg` | violated: `closed()` can be called twice for one close state |
| `tls_write_finished` | `TLSConnection`, `MCTLSWriteFinished.cfg` | violated: `writeFinished()` comes for bytes that wait for the handshake |
| `psql_statement_kept` | `PSql`, `MCPSqlStatementKept.cfg` | violated: the removal at the end of a transaction takes a statement still in use |
| `kafka_one_group` | `KafkaGroup`, `MCKafkaOneGroup.cfg` | violated: partitions of a group that was left are taken for those of the next |
| `ber_big_tag` | `MCLayers`, `MCBerTags.cfg` | violated: JavaScript does not find members numbered 31 and above |

Every property of a passing run is paired with a mutant of the model, a plausible slip in the code
such as a dropped guard or a missing reset, which TLC finds by that property. The mutants stand
beside the definitions they change, under the comment "Mutant".

**Bounds.** They are constants in the guards of the action that makes the bounded thing, so they
delay actors and do not stop them. They were chosen for the smallest instance with all the cases:

* `tcp`: writes of 2, 2 bytes waiting, 2 calls posted, 1 answer owed. Two waiting bytes allow a
  partial send between two writes and a close; two calls allow a close behind a write.
* `layers`: 1 byte and one step of the handshake's queue beside two posted calls; two users, four
  descriptor numbers and three records, so that a number is given out again while two others are in
  use; four frames (needed for two fragmented messages in a row) of the lengths at which the
  encoding of a length changes; two members of a class with a gap that reaches number 31; messages
  boxed with the tags of `Boxes`; a class the reader knows and one it does not (`Classes`); the
  values are the boundaries of each type.
* `threads`: two callers and two threads with two places in the queue allow a full queue, two
  wake-ups that become one, and a shutdown by one caller during a synced call of the other.
* `loop`: three threads at the ring, so that two wait for the lock while one is inside, two places;
  two senders; two connections after each other on one descriptor; seven timers in a heap of two children: three levels, so that the last
  one may belong above the place it is moved to. libev compiles with two children or with four
  (the build's value); the proof is for any number. Three mails; two threads that log, with a
  level that changes, until `MaxMixed` threads have lost their indent by it; `Unsigned = 12` is the
  width of the indent.
* `http`: two requests allow every pair of kinds pipelined; three
  parsers on two threads; two chunks through a redirect; two `start()`s; three restarts of the file
  server; five certificates in two files and two keys, in every order of four
  calls; three modules, three functions bound to an event, two nested firings.
* `websocket`: two connections allow two checks of one session under way at the same time; in RMI
  one request waits while the other is on its way; headers of a class
  with up to three pieces in it, and sequences of four comment marks, quotes and declarations.
* `backends`: two `PSql` objects are an outer and an inner one: of the objects around it an object
  sees only the two flags in `ThreadData` and the rows waiting; two programs and two revisions of
  two pieces; three scopes; two groups over three connections; three members, two topics and up to
  three partitions each; two requests to two brokers.

**Fairness.** `TCPConnection`: the event loop serves its queue and its timers (`WF(Serve)`,
`WF(Deliver)`), and TCP either takes a byte or reports an error in the end (`WF(Progress)`).
`ThreadVerify`: each caller goes on with a call it has begun, each pool thread is scheduled and
functors end; callers are not obliged to call. `AsyncWake`: the loop runs, and a thread that has
entered `ev_async_send` leaves it. `HttpConnection`: threads run, the parser's connection takes its
bytes, and handlers end, answering or dropping what they kept. `WSCommManager`: one weak fairness
for all steps of the server, its clock and the checker; there are finitely many connections and
frames, so no step can go on for ever at the cost of another. Nothing forces a client to do
anything. What RMI owes in the end is checked as a safety property: in a state in which browser and
threads have nothing left to do (`AtRest`, which lists what would enable a step of theirs), nothing
waits. The other modules assume no fairness.

**Deadlock** is not checked: every instance may come to its end, with all connections gone, all
calls made, the pool joined, and the parts that do not move would hide a deadlock anyway. That
nobody waits on everybody is what the liveness properties and the properties about rest say.

### What the violations mean

* `net/tcpconn.h:37` says `closed` is called once for each close state. `callClosed` remembers the
  close type it schedules but passes the one of the moment it runs, so two closes in one iteration
  of the loop give two calls with the same value. The WebSocket service deletes a handler in
  `closed()` with both halves closed (`net/websocketservice.cpp:141`), and a second one deletes twice.
* `net/tcpconn.h:49` says `writeFinished` is called when all bytes got written. Over TLS it is the
  encrypted bytes that count: what waits for the handshake has produced none (`net/impl/tlsthread.cpp:61`).
* `removePreparedStatement` compares the result of DEALLOCATE with `PGRES_TUPLES_OK`
  (`db/psql/psql.cpp:829`), which it never is, so a statement that was removed stays on the list of
  those to be removed; an object that has prepared it again under the same name finds it gone after
  the end of the transaction.
* A reply to SyncGroup that arrives after the group was left, and another one joined, reaches the
  user as the partitions of the new group (`net/impl/kafkagroupconnection.cpp:106`).
* `ber.mjs:75` keeps the first byte of a long tag in its number, so that member 31 is looked for
  as 0x1F1F.

## 4. Proofs

All theorems hold for every value of the constants that satisfies the named assumptions of the
modules; the assumptions are those a reader expects (bounds are natural numbers, a null value is
none of the values) and TLC evaluates them in the runs. An invariant below was checked by TLC before
it was proved. Each proof has a lemma per function or action and a theorem that combines them.

| Module | Theorems | Properties of runs |
|---|---|---|
| `TCPConnectionProofs` | `TypeCorrect`, `DescriptorSafe`, `BytesWatched`, `FinSafe`, `BytesSafe`, `NothingLeft`, `NothingOwedHolds`, `Refinement` | `DescriptorClosedOnce`, `BytesDelivered`, `NothingOwed`, `ImplementsChannel` |
| `LayersProofs` | `DescriptorsOwnedHolds`, `TlsAnswersHolds`, `CredentialsFitHolds` | `DescriptorsOwned`, `TlsAnswers`, `CredentialsFit` |
| `ThreadVerifyProofs` | `TypeCorrect`, `RunByOneHolds`, `FrameLivesHolds`, `CallsSafeHolds`, `BegunInOrderHolds` | `CallsSafe`, `BegunInOrder` |
| `EventLoopProofs` | `TypeCorrect`, `MutualExclusion`, `Refinement`, `NeverSleepsOnWork`, `WatchersTrueHolds`, `DueInOrderHolds`, `MailsInTurnHolds`, `LogTellsHolds` | `ImplementsFifo`, `WatchersTrue`, `DueInOrder`, `MailsInTurn`, `LogTells`; the safety part of `Woken` |
| `HttpProofs` | `ThreadsOutliveHolds`, `SharedSafelyHolds`, `RepliesOrderedHolds`, `ForwardsToTheEndHolds` | `ThreadsOutlive`, `SharedSafely`, `ForwardsToTheEnd`; the part `RepliesInOrder` of `PipelineKept` |
| `WebSocketProofs` | `MapsAgreeHolds`, `ToldInOrderHolds`, `StoppedForAReasonHolds`, `CallersAnsweredHolds` | `MapsAgree`, `ToldInOrder`, `StoppedForAReason`, `CallersAnswered` |
| `PSqlProofs` | `TypeCorrect`, `OneOwnerHolds`, `CommitTellsHolds`, `LeftoversHolds`, `EndsCleanHolds`, `ValuesKeptHolds` | `OneOwner`, `EndsClean`, `ValuesKept` |
| `BackendProofs` | `ScopesTellHolds`, `PointersLiveHolds`, `RevisionsWholeHolds`, `ClientKeptHolds`, `FairSharesHold` | `ScopesTell`, `PointersLive`, `RevisionsWhole`, `ClientKept`, `FairShares` |

**TCPConnection.** No property is inductive alone. `PendingBytesWatched` needs that a closed write
half has no watcher, which is part of `DescriptorClosedOnce`; that needs that `closeType` is one of
five sets (the union of close types must not give `{"hard"}` alone), which is `TypeOK`;
`FinAfterLastByte` needs that the write half is not closed while bytes wait, which is what
`closeConn`'s deferral is for. Their conjunction is `IInv`. `OwedInv` adds what is owed: every
answer the user waits for has a watcher, a flag or a scheduled callback that will give it
(`Promised`); a record the user has let go of calls nobody, and a call to do so is the last in the
queue (`Silent`, `SilentCalls`); who is gone has his delete under way or deferred behind bytes that
are watched (`Kept`, `KeptCalls`). `NothingOwedHolds` assumes `MaxOwed <= 1`: with two
`write(data, true)` waiting together it is false, since `notifyWrite` is one flag
(`net/impl/tcpmanagerimpl.cpp:272`). For the refinement `ChanInv` adds to `IInv` that a deferred
close has bytes to wait for (`Drains`), and each function is shown to be a step of the channel or
a stutter: `Moves` is the disjunction of transfers, closes and aborts a handler may combine.

**TCPManager.** `DescriptorsOwned` counts. Counting is replaced by saying who may not share:
what a user or a record holds is open and nobody else's (`ByUser`, `ByRecord`), and what is open is
somebody's (`Somebody`). The cardinalities follow at the end, with the theorems on finite sets.

**TLSConnection.** The network side is `TCPConnection`, so what its functions do to a record is taken
from `TCPConnectionProofs`, whose lemmas (`ReadTells`, `WriteTells`, `DeleteTells`, `WriteableTells`,
`CloseConnPromised`) are stated of a record and of any promise. `TlsInv` adds the two queues: the
record owes an answer exactly for a read that is in neither (`Due`), also after an error, whose close
tells the user unless the read half was closed silently before (`Heard`); while the read half is open
one read is on its way (`OneReader`); of a user who let go, no call on its way calls back (`MuteCalls`);
the delete call is in one queue or has arrived, and behind it comes nothing but the close of `stop()`
(`EndsOnce`: with `stop()` a close does reach a record that is freed, which is shown to change no
promise). The TLS thread's steps are one lemma about what is taken and what is posted (`DoesKeeps`).
`TlsAssumption` says that users close with a type other than `NotClosed`.

**ThreadVerify.** The argument goes through the numbers of the calls. The calls of one caller lie in
the queue in ascending order and above the last number that has begun (`InOrder`); what runs is at
or below it (`RunsOnce`). So two places of the queue, two threads, or a thread and a place never
hold the same call, and taking the head always begins a call with a greater number. `FrameLives`
needs besides that the semaphore is raised only in the middle of a synced call (`CallerKnows`), so
that a call that is put finds it free, and that a thread has a functor exactly while it runs one
(`ThreadKnows`). `OwnResult` follows from what the caller knows: its semaphore is raised only by the functor of the
call it waits for, which has written to the frame before. The proof relies on `ThreadFifo` being the queue it implements.

**ThreadFifo.** The refinement mapping shows the values between the two indices; while a thread is
inside, `count_` has already changed but the value has not been written or fetched, so `Length` and
`Start` depend on where that thread is. The invariant adds to types and exclusion how far `writer_`
is ahead of `reader_` at each place (`Apart`), what the thread inside knows of its slot
(`Knows`), and that every slot between the indices holds a value (`RingFilled`). Release is where an
operation takes effect; every other step leaves the queue as it is. The arithmetic of the ring is in
one lemma, `Wrap`. Memory accesses under the lock are assumed to be seen in order.

**AsyncWake.** `WakeInv` follows the news of a wake-up from the flag of the watcher to the flag of
the loop to the pipe, and says at each place of the loop who still has to look at it (`Noticed`).
The theorem is the safety half of `Woken`; that the work is taken then is left to TLC.

**IOWatchers.** `IOInv` is stated beside the model and was checked there. What libev believes of the
kernel is true (`Told`) unless the descriptor is closed, was set anew or is marked as changed; the
registration of the file a descriptor names is fresh and has the mask that is remembered
(`Generations`): an old registration that a forked child keeps alive is told apart by that. What
`epoll_wait` returned is of the registered file (`UnderWay`), hence so is every callback.

**TimerHeap.** `TimerInv` adds to the order of the heap that what has expired was due before what is
left (`ExpiredFirst`). The lemmas about the heap do not fix the number of children: `UpHeap` and
`DownHeap` are shown to move one path by one place each, so that the order holds everywhere but at the
hole, and at the end there too (`AdjustHeap` chooses the direction in which something can be wrong);
the root is the least (`FirstIsDue`).

**LogFile.** `LogInv` says that the numbers given so far are those from one to the size of the table,
each once (`Numbered`); that the indent of a thread is twice the traces whose line was written,
modulo the width of the integer (`Indented`), unless the level changed between the ends of a trace
(`mixed`); and of the line
written last that its columns and its text are made of what was handed in (`LineInv`). That a thread
has fewer than a quarter of 2^32 traces open is `LogAssumption`. `LineTold` is what the property says of the text that
`Filled` and `Escaped` compute: whatever is named in the format is in the line, as it was given, and
a message has no character that had to be escaped.

**TLSCredentials.** `CredInv` says of the chain at hand what `WholeChain` says of those that are done,
up to the certificate it has reached (`ChainAtHand`), that certificates are only added, so that a
chain stays a chain among those known when it was built (`ChainsHeld`), and that every key of the
call that was taken without a complaint has its chain or is at hand (`KeysAnswered`).

**Mailer.** `MailInv` says that what was taken is what was handed over followed by the queue, minus
the mail that the process works on (`Behind`), that there is at most one `startProcess` on its
way, and one exactly when nobody else will go on with the queue, and that a process is missing only
before the first event and after `deleteThreadData`.

**HttpThreads.** A counter is the number of the parsers of its thread that live, less those whose
start was lost and more those whose end was (`Counted`), and the destructor of the server is at one
of three stages with the thread whose end it waits for (`Ending`). So a thread may end early by as
many parsers as had a start lost, and the destructor waits for ever only if a count was.

**HttpConnection.** `SharedSafely` speaks of two threads that share a buffer without a lock. What
makes it inductive is that the right to read is one token (`OneReader`): it lies with the watcher of
the connection, with a posted `newBytesAvailable`, with a scheduled or running parse, with a handler
that will return to the parser, or with an upload nobody reads; there is one of them at most, none
after `closed()` or a detach, and the buffer is empty for whoever has it. For the life of the parser
the references are counted (`Referred`): those of requests that are open, those on their way back
(`detachRequest`), and the one that the connection holds itself until the end of the stream reaches
the parser; `ToldOnce` says that this end is told once, `RepliesHeld` that a posted reply is in front
of the reference of its request, `Unreferenced` that the deletion is scheduled at the count of zero.
For the order of the replies `OrderInv` adds that a reply that was given is with the parser or in
exactly one posted call (`Given`), and that the parser has written everything before `nextReply` and
holds only later ones besides (`InOrder`); `SentInOrder` shows that a reply takes every one along
that waited for it, and stops at the first that is missing (`Smallest`).

**RedirectForward.** The invariant is stated of the two connections and the two objects as values
(`PairInv`), so that what closing does to a connection (`CloseNowIs`, `GentlyIs`, `Moves`) is proved
once. The forwarder is always in turn: its watcher, one `closed()` or one deletion (`OutTurn`). The
reader is told of its end twice at most, by its own connection and by the forwarder; only while these
two do not wait together (`~twice`) it is deleted once (`ReaderTurn`). `Pointers` says that whoever
goes takes his pointer from the other, who is told so or told to write no more; the race of the
handler with an early end (`raced`) is the other case in which it does not hold.

**WSCommManager.** The invariant has one part per question: what the network thread has
posted and may still post (`Line`), what the service thread has left to do (`Work`), what a
connection's session makes of it (`Session`), the maps, and who reads the connection next (`Wakes`).

**RMI.** Replies carry no number, so that a callback gets its own is a matter of counting what is on
its way. `AloneInv` says that of one connection at most one request or reply is at one of the six
places from the browser to the service and back, and that a connection is in `activeRequests_` only
while that place lies between the server's taking it and its reply; `CarryInv` that it is the
request the callback belongs to, and that it is there while the connection is up and the callback
waits; `BrowserInv` that answers, callback and waiting list are in the order of the requests. A
signal, which ends the active request of a connection in `send`, cannot let a second one in, since
the browser waits for the reply itself. `HelloInv` says that a connection has sent nothing that
counts before its greeting, so the server hears of the end of whatever it has heard of, and
`GoneInv` that this end is behind every registration in both queues. `LinkInv` keeps the browser to
one connection. What a step does to the variables is one lemma per action (`SendRequestDoes` ..
`HandleRemoteDoes`), what that does to a place another (`Kept`, `Lost`, `Got`), and `Moved`, `Born`
and `AllKept` put the places together. `removeAll` is a recursive function, with `WithoutHas` by
induction over how far it has come.

**PSql.** The handlers change the shared state in several steps (`~PSql` clears, rolls back and
removes), so the invariant is stated of a shared state and of a sequence of objects, and each
function has a lemma that says what it keeps and what it leaves alone. `CommitTells` speaks of the
past; what makes it inductive is that, while the connection is up, a transaction of the thread that
the server will not commit already has a refused exec or a hidden failure in its history (`Good`): a
DEALLOCATE, or a query that broke off after rows; and that a COMMIT whose answer is lost is the only
one that keeps changes and returns false.
`Leftovers` needs that a connection that is down has no statements, and that a statement is dropped
from the list only when it is dropped from the server. `OneOwner` needs the nesting of the callers
(`Innermost`): it is an assumption on them, kept by destructors.

**PSqlValues.** `ParInv` says that the buffer of the parameters holds what is wanted, place by place
(`Holds`), and that the types the server has for the statement are those of the parameters, also of
those still to be given after a reset (`TypeOf`): a value is never read as another type. The bytes
of a number are an integer in base `Byte`; `NumbersBack` shows that reading gives back what was
written, for any base and both signs. `ResInv` says the same of the field at hand and the fields of
the row. Assumed is that the base is even, and the fields are made of naturals (`ValuesAssumption`,
`FieldsAssumption`). Before the first prepare there is no place for a value (the count is -1): callers
prepare first. A reader before `next()` meets the types of the result before, and is promised nothing.

**QtSqlTransaction.** The scopes that are not nested are the lower part of the stack
(`NestedAbove`), and the highest of them answers for what the thread has open (`Answerable`).
`Honest` ties what `commit()` said to what was kept, up to a refused query and a COMMIT whose answer
was lost.

**KafkaGroup.** `Good` is stated of the state in the middle of a handler too: types, who asks
the coordinator (`Asking`), what a connection of the group may have sent while the group is joined
and that it has no request to leave on its way (`Joined`), and that a heartbeat has its connection
(`Beating`), and that whoever is asked to join is the connection of the group or has been taken from
it (`JoinsStay`, `Apart`): only of the latter `doSync` uses a null pointer. Connections close and delete themselves in callbacks, so each function is proved to
lead from a good state to a good state.

**KafkaClient.** As for `KafkaGroup`, `Sound` and `Looking` are stated of the members, the
connections and the requests as values, since a handler opens or closes a connection and then goes
on. `Waiting` says without counting that a request waits on the one connection that carries it, or
is not waiting; `Carries` that no connection carries a request twice, that one that is closed
carries none and that one for offsets carries exactly one; `Mapped` that the map of a purpose leads
to the connections for it and no others. Whatever changes one connection is an instance of
`SoundChanges`; `FetchMetaDataKeeps` shows that whoever gives up a broker looks for one afterwards,
with a connection for metadata or with a call that waits.

**KafkaAssignment.** `ShareInv` has a part for each protocol. `RangeInv` follows the topic at hand:
what has been given of it is the beginning of its partitions, dealt to the members that had their
turn (`InTopic`, `Dealt`), the topics before it are dealt completely, and those after it untouched.
`RoundInv` says that what is left and what is given is all there is and nobody's twice, and, if all
members want the same, that those before `turn` have one more than the rest. `AssignAssumption` says that
members, topics and partitions are finite sets of numbers.

**SchemaUpdate.** `Table` says of the database that a revision is noted exactly when it has been
done, that it was done a whole number of times, in the order of the revisions, and that a commit
whose answer was lost belongs to a revision all of whose predecessors are there. `Progress` says of
a program that what it goes by may be older than the table, but never says less than what others
have committed since (`missed`) unless its SELECT broke off (`cut`), and that while it works on a revision it has run exactly the pieces
it counts. `AppliedBlindly` concludes that a revision is applied again only after a commit whose
answer was lost, or by a program that had read the table before, or not to its end. The divisibility is in lemmas of its own, since the prover has no theory of
remainders.

### Only model-checked

* Liveness (`ClosesFinish`, `CallsServed`, `NothingHangs`, `NobodyWaits`, the second half of `Woken`):
  the prover has no ENABLED, hence no weak fairness.
* `WebSocketKept`.
* `WrittenIsRead` and `StubsAgree`: their modules use RECURSIVE operators over types and tokens, which
  take the SMT solver from the prover.
* `RepliedOnce`, `SiteServed`, and the framing in `PipelineKept`.

Induction over data needs theorems of the library with an operator as parameter, which no installed
prover can instantiate. Where a proof above needs it (`UpHeap` and `DownHeap`, the turns of the
round-robin protocol, `Filled` and `Escaped`, the bytes of numbers), the operator is a recursive
function; it is shown to exist, and what it computes is shown by the least place at which it would be
wrong (`LeastOf`, `UpTo`, `Backwards`).

## 5. What is not modelled, and what the models showed

* **TCP.** Addresses, socket options, resolving names. `stop()` is the one way to leave a record
  behind: a connection that was draining for deletion loses its watcher and is never freed, hence
  the `stopped` in `NothingLeftBehind` and `ClosesFinish`. While bytes wait, `closeConn` defers the
  close in `closeAfterWriting` and forgets `notifyClose` (`net/impl/tcpmanagerimpl.cpp:298`): the
  user hears of that close only if he waits for a read.
* **TLS.** The contents of the stream; Botan is nondeterministic. `stop()` posts its close through
  the TLS thread, where it can arrive after the delete. A stream error that meets a read half closed
  without a word (a FIN while the TLS thread works, say) leaves the `startReadWatcher` unanswered:
  `closeConn` has nothing to change and calls nobody, though `tcpconn.h:35` and `:37` promise it.
  Ending a connection before its handshake
  loses what is held. Every alert, also close_notify, sets `hasError`. No close_notify is sent.
* **ThreadVerify.** The Qt event loop, disabled pools (`threadCount` 0), calls from the own thread
  (they run at once), the destructor. A synced call to a thread that has ended waits for ever
  (`util/threadverify.h:63`). `isActive_` is read without a lock, so a caller may see the old value
  after it was cleared; `Call` allows both.
* **Event loop.** Backends other than epoll, the EPERM path, `fd_kill`; one async watcher per loop.
  Memory fences in `ev.c` justify the one order of steps.
* **HTTP connections.** Header contents, compression, `readPassThrough` inside `handleRequest`; a
  handler detaches a connection only when no earlier request is open (`requestparser.cpp:109` does not
  check it). `Freed`
  has one exception: when the client goes while an upload nobody reads is passed through, no watcher
  tells the parser.
* **HTTP threads.** `activeRequests_` is raised by the TCP thread and lowered by the HTTP thread
  without a lock (`httpthread.cpp`): a lost start ends the thread before its last parser, a lost end
  lets the destructor of the server wait for ever.
* **Redirects, client.** Redirects over TLS, bytes the parser still has at the detach (they are
  lost). The exceptions of `ForwardsToTheEnd` are the code's: a second `closed()`, a client that ends
  before the handler has stored its pointer, a reader whose last bytes wait. Those of `RepliedOnce`,
  too: over TLS the close of a timeout is posted (`httprequest.cpp:155`, `tlsthread.cpp:65`), and
  bytes or a `closed()` that cross it reply again and delete the Conn twice; and
  `close(…, true)` of a connection that was closed silently calls nobody, against `tcpconn.h:56`, so
  the Conn stays and each later `start()` is answered 429.
* **File server.** Regular expressions, listings, `exportTo`. A redirect for a missing page is
  kept for a year by the ending of the missing path; files edited while the server runs are not seen
  until it starts again; an `if` inside a branch that is not shown counts for what it encloses.
* **WebSocket.** Masks, the handshake request, contents of deflated frames, lengths beyond 32 bits.
  Frames after a close by the service are still handled. A checker that needs longer than the timeout
  has its connection given up. Session ids are fresh (the code draws random ones).
* **RMI.** In `RMI`: calls without a reply, several services, registration functions (whose numbers
  and parameters are in `RMIStubs`), other tags than 1 to 3, and `rmi.stop`. An application that sends while there is no socket gets an exception
  (`"thrown"`), and a request that was on its way when the connection broke is not repeated
  (`"lost"`): both are in the model. Of generated code, the JavaScript constructor of a derived class
  reads its base from tag 1 and its members one number too early (`rmiserverbase.cpp:775`),
  which `CallsArrive` excepts; of overloaded functions the last stub stays in JavaScript.
* **BER.** `-0.0` reads back as 0, C++ truncates a length to `int`, numbers beyond 2^53 are left
  out for JavaScript. A null shared pointer writes nothing, also inside a list, which comes back
  shorter; an object of an unknown class is read as null.
* **PostgreSQL, Qt.** Callers nest their transactions as the destructors do, objects live on a stack, an
  attempt to reconnect succeeds (one that fails leaves a pointer to a freed connection,
  `psql.cpp:135`). `next()` returns false for a query that breaks off after rows as for one at its end
  (`psql.cpp:508`), so that `commit()` may return true with all changes gone; a COMMIT whose answer is
  lost may be kept though `commit()` returns false, also in `db.cpp:138`. `isPrepared_` stays set when a prepare
  fails, parameters stay after a refused exec, times are truncated toward zero.
* **Schema.** Two programs that update at once apply the same revision twice: there is no lock. So
  does one whose SELECT of the applied revisions breaks off (`schema.cpp:155`), and one that starts
  after a COMMIT without answer. `RevisionsWhole` says that these are the only ways.
* **Kafka.** Message layouts; `commit` and the fetch of a group are empty in the code.
  A reply to a join on a connection the group no longer has (after `leaveGroup()`, or after another one
  took its place) makes `doSync` use the null `groupConnection_` (`kafkaconnectorimpl.cpp:414`): the
  model stops there; `PointersLive` says that there is no other case.
  `joinInProgress_` is not reset when a join is refused (`kafkaconnectorimpl.cpp:322`), so that the
  group stays without partitions; the "range" protocol numbers partitions from 0 though metadata may
  have skipped one.
* **Mailer, logging.** A sendmail that cannot be started leaves the queue standing. Mails are accepted
  until the thread has ended (`mailer.cpp:53`), and lost or handed to a deleted process then. Time and place
  of a line are left out; texts of traces are not escaped, whatever the comment at `log.cpp:111` says
  of messages.
* **Browser library.** DOM helpers, forms, animation, `forward`, nested `require`, browsers without
  `currentScript`. A module that throws stays with the waiting calls and is run again.
* **TLS credentials.** The contents of revocation lists, texts for the log, the export of all
  certificates. A certificate that was added as not trusted stays so when it is added again as trusted.
* **Not modelled at all.** The older HTTP client, HTTP authentication, utilities,
  for the reasons `PROJECT.json` gives.

## 6. What is left

All components that have a protocol are modelled. Of the safety properties the passing runs check, six are not theorems
(`WebSocketKept`, `WrittenIsRead`, `StubsAgree`, `RepliedOnce`, `SiteServed`, `PipelineKept` but for
its order), for the reasons at the end of section 4.
