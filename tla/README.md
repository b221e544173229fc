# net4cxx in TLA+

net4cxx is an asynchronous network library for C++ in the style of Twisted: a
reactor (one `io_context` per thread) runs handlers; connections, connectors
and listeners call protocols and factories; on top of them are an HTTP server,
a web framework, WebSockets and Deferreds. The paths below are relative to
`src/src/net4cxx/` unless they begin with `src/`; `src/README.md` and
`src/doc/api.md` are the library's own documentation.

This directory holds TLA+ models of the library's core, the TLC runs that
check them on small instances, and TLAPS proofs for every value of their
constants. `PROJECT.json` maps every definition to the lines it models, lists
the hazards and, per property, a mutation of the model that the property
catches.

## 1. The system

| Part | State | Operations | Talks to |
|---|---|---|---|
| Reactor, timers (`core/network/reactor.*`, `base.h`) | `io_context`, handlers ready, timers, sub-reactor threads | `run`, `stop`, `callLater`, `addCallback` | runs every handler below, one at a time per reactor |
| Stream connection (`tcp.*`, copies in `unix.*`) | flags (`_connected`, `_disconnecting`, `_disconnected`, `_aborting`), `_reading`, `_writing`, write queue, producer | `write`, `loseConnection`, `abortConnection`, `registerProducer`, completion handlers | protocol callbacks `connectionMade`, `dataReceived`, `connectionLost`; the producer; the connector or listener that made it |
| SSL connection (`ssl.*`) | the same, plus the handshake and shutdown | the same | the same, OpenSSL |
| Connector (`tcp.*`, `unix.*`, `ssl.*`) | `_state`, `_error`, the timeout, resolver and socket | `startConnecting`, `stopConnecting`, `disconnect`, handlers | the client factory, the connection |
| Client factories (`core/network/protocol.*`) | ports in use, retries, `_callId`, `_connector` | `doStart`, `doStop`, `retry`, `stopTrying`, `resetDelay` | connectors call them, they call connectors back |
| Listeners (`tcp.*`, `ssl.*`, `unix.*`) | acceptor, `_deferred`, flags | `startListening`, `stopListening`, accept handlers | server factory, sub-reactors, a Deferred |
| Datagram connections (`udp.*`, `unix.*`) | flags, buffer, peer | `startListening`, `stopListening`, `connect`, `write`, `read` | protocol, a Deferred |
| Deferred (`defer.*`) | result, callbacks, pauses, chain | `callback`, `errback`, `addCallbacks`, `pause`, `unpause`, `cancel` | callbacks of the application, other Deferreds |
| Endpoints (`endpoints.*`) | wrapping factory and its Deferred | `connect`, `listen`, the parser of descriptions | connectors, listeners, Deferred |
| IOStream (`core/protocols/iostream.*`) | buffer, pending read, write state | `readBytes`, `readUntil`, `readUntilClose`, `close` | connection below, HTTP above |
| HTTP server and web framework (`plugins/web`) | request being read, response being written, handler | `finish`, `writeChunk`, keep-alive, `RequestHandler::execute` | IOStream, Deferred |
| HTTP client (`plugins/web/httpclient.*`) | request, timeout, redirects | `fetch` | connector, IOStream |
| WebSocket (`plugins/websocket/protocol.*`) | handshake and closing state, five timers, frame and message being received, send queue | `sendMessage`, `sendPing`, `sendClose`, handlers | connection below, application callbacks above |
| UTF-8 validator, masker, compression (`plugins/websocket`) | octets so far | `validate`, `process` | WebSocket |
| Task pool, concurrent queue (`common/threading`) | tasks, worker threads, stop flags | `submit`, `stop`, `terminate`, `reset`, `wait` | application threads |
| Codecs (`common/configuration/json.*`, `common/httputils`, `common/serialization`, `core/protocols/uintnreceiver.*`, `plugins/web/httputil.*`) | none over time, or the octets so far | reading and writing | everybody |
| Logging, crypto, compression, utilities | none over time | pure functions | everybody |

Names such as `tcp.*` stand for `core/network/tcp.cpp` and `tcp.h`.

What is hard here, and what correctness means part by part:

- *Everything runs between a completion and its handler.* An operation that has
  completed but whose handler is only queued can no longer be cancelled. The
  handler then meets a connection that was closed, a connector that began
  another attempt, a handshake that ended. **Streams**: bytes leave in order
  and once; `connectionLost` comes once and last; a connection that is open is
  never deaf or stalled; a closed one ends. **Connectors**: attempts do not
  overlap, each is reported once, retries go on until they are used up.
- *A timer that expired cannot be cancelled either* (`Timeout::wait` ignores
  only an aborted wait, `base.h` 319-327), and `DelayedCall::reset` drops the
  handle without stopping the timer. **Timeouts** must recognise that what they
  watch has ended.
- *Callbacks re-enter.* Application code called from a handler calls back into
  the same object before the handler is finished, or throws, and the rest of the
  handler does not run. **Deferreds** run callbacks of one Deferred one at a
  time, in order, and forget none. **Listeners and datagram sockets** are
  stopped and started again from inside the callbacks of a stop.
- *Several parties decide the end.* In a WebSocket both peers, TCP and four
  timeouts close the connection. **WebSocket**: messages are delivered in
  order up to the first refused, the end is reported once and clean only after
  both close frames, and a peer that falls silent is found out.
- *Answers race.* Reading a request and answering it end in any order, and a
  fetch can be answered by its response, a redirect, two time-outs, a lost
  connection or an exception. **HTTP server**: a request begins only when the
  one before is read and answered, and every response is framed by its length
  or its chunks. **HTTP client**: a fetch is answered once, and with a whole
  body.
- *Two sides decide alike.* **Handshake**: client and server open with the same
  protocol and extension, or not at all.
- *What is written must be read.* **Codecs**: quoting, escapes, lengths and byte
  orders are undone by the reader, whatever the pieces.
- *Threads meet* only in the task pool, at the start and stop of sub-reactors,
  and where a listener hands an accepted connection to another reactor.
  **Task pool**: a task accepted is run or its future is broken; **stop** ends
  every thread. **Listener**: the Deferred of `stopListening` fires once.

`PROJECT.json` lists the individual hazards with their lines.

## 2. The modules

| Module | What it is |
|---|---|
| `Transport` | what a stream connection promises about the bytes written to it |
| `TCPConnection`, `TCPConnectionProofs` | one TCP connection, server or client; implements `Transport` |
| `Connector`, `ConnectorProofs` | one TCP connector with a reconnecting factory |
| `Deferred`, `DeferredProofs` | Deferreds that chain, pause, cancel and re-enter |
| `Session` | what a WebSocket endpoint promises its application |
| `WebSocketProtocol`, `WebSocketProtocolProofs` | one WebSocket endpoint; implements `Session` |
| `TaskPool` | a pool's threads, or the users of a concurrent queue |
| `Server` | a reactor with its sub-reactors' threads, and a listener |
| `Datagram` | one UDP connection |
| `SSLConnection`, `SSLConnectionProofs` | one SSL connection: handshake, data, shutdown; implements `Transport` |
| `Endpoint` | one connect of an endpoint: a Deferred over a connector, with a time-out |
| `Runtime` | `Connector` and `Server` side by side, for one run |
| `Network` | `TaskPool`, `Datagram`, `SSLConnection` and `Endpoint` side by side, for one run |
| `NetworkProofs` | the proofs about `TaskPool`, `Server`, `Datagram` and `Endpoint` |
| `IOStream` | the read positions that both HTTP connections share |
| `HTTPConnection`, `HTTPConnectionProofs` | one connection of the HTTP server, with its handler |
| `HTTPClient`, `WebProofs` | one fetch over redirected connections |
| `Handshake`, `WebProofs` | the opening handshake of a WebSocket client and server |
| `Json`, `TextCodecs`, `OctetCodecs` | codecs as operators, checked against reference definitions |
| `Description` | descriptions of endpoints: their parser and what is made of them |
| `Web` | the parts from `HTTPConnection` to `Description` and `Deferred` side by side, for one run |

`Runtime`, `Network` and `Web` are what instantiates their parts for TLC: the
parts share no state, so a behaviour picks one (`part`) and the others stay as
they began. The number of runs stays small, and each part keeps its own
fairness.

Conventions. A variable carries the name of the member it stands for, without
the underscore; an action carries the name of the method or handler. An action
is one whole handler, or one call of the application, with everything it calls.
Where a handler calls the application and goes on afterwards, it is split there:
a variable says which callback is running (`frame`, `pausing`, `calling`,
`handling`, `starting`, `inside`), while it runs the application may do what it
may do from outside, and it returns or throws.
Ghost variables only record what happened (`lost`, `owed`, `sent`, `lapses`,
`unreported`, `offered`, `fired`, `dgFired`, `slips`, `dgSlips`, `lossSeen`,
`sslEnd`, `asserted`, `brokenOff`, `lookupDropped`, `lateTimeout`, `wsChanged`).
A definition whose comment begins with "Mutant" is
not part of the model: it is a plausible bug, named in `PROJECT.json`, with
which the model would break the property named there. The `ASSUME` of each
module types its constants and is all that the proofs assume.

### TCPConnection

`core/network/tcp.cpp` 11-278 and `tcp.h`, with the producers of `base.cpp`.
Bytes are offsets in the stream, a buffer of `_writeQueue` is the offset of its
last byte, and `consumed` is what was taken off the queue; so short writes, the
inline loop of `doWrite` and `readCompleted` are arithmetic on offsets.
`readOp` and `writeOp` hold an outstanding operation or the way it completed;
asio's and the kernel's part is `ReadCompletes`, `WriteCompletes` and
`WriteBreaks`. `frame` names the callback the application is in, from which it
may write, lose or abort the connection and register or remove a producer.
`write` calls `pauseProducing` between the queueing of its bytes and
`startWriting`; `pausing` counts the calls of it under way, which nest when a
producer writes from inside. A callback returns or throws (`CallbackThrows`,
`PauseProducingThrows`), and an exception skips the rest of its handler.
`lapses` records what did not come about in this way: a read or a write that an
exception skipped, and a `loseConnection` that came ahead of bytes nobody was
writing yet. A `doWrite` on a queue that a nested write has emptied follows
`front()` of nothing, which ends the model (`crashed`). `UNIXConnection` is a
copy of this code for another kind of socket and is not modelled again.

`Transport` says the same without operations, handlers or flags: bytes are
accepted only while open, sent is a growing prefix of accepted, and a graceful
end has sent everything. The refinement mapping (`Phase`, `Reason`) reads the
phase off the flags; a `loseConnection` that came ahead of queued bytes is not a
graceful end, which is what `tcp_paused` is about.

### Connector

`TCPConnector` (`tcp.cpp` 372-565) driven by `ReconnectingClientFactory`
(`core/network/protocol.cpp`, `protocol.h`). `resolveOp` and `connectOp` are
the two operations of an attempt, `timer` the timeout of the current attempt
and `lateTimers` the expired ones of earlier attempts whose handlers are still
queued. Of the delay between retries only its existence is kept; `retries`,
`_maxRetries` and the port count are exact. An exception out of a handler is
logged by the reactor and forgotten (`thrown`), a null `_connection` followed
ends the model (`crashed`).

### Endpoint

`endpoints.cpp` 14-74 and 209-218, and `Deferred::addTimeout`. It composes with
`Connector`: `C == INSTANCE Connector` gives the handlers that a
`WrappingFactory` leaves as they are, and this module the ones it takes part in
(`ConnectionFailed`, `BuildProtocol` and what follows it). There is one attempt,
so that the variables about retries are constants of the instance. `answer` is
what the Deferred says, `told` what the wrapped protocol was told, and a cancel
may come at any moment: from the application, from the timer of `addTimeout`, or
from inside the wrapped factory or protocol.

### Deferred

`defer.h` and `defer.cpp`: results (`Values` says what of them decides which
callback runs), callback lists, `runCallbacks` with its chain, pauses, the
continuation that a returned Deferred gets, and `cancel`. `stack` is the C++
stack reduced to activations of `runCallbacks` and callbacks under way, so that
a callback may do anything to any Deferred, its own included.

### WebSocketProtocol

`plugins/websocket/protocol.cpp`, `protocol.h`. `conn` is the part of the state
that methods pass from one to the next; each method is an operator from the
state it finds to the one it leaves (`FailConnection`, `SendCloseFrame`,
`DropConnection`, `SendData`, `Send`, ...), and a handler applies them in the
code's order. The peer is the environment and may break any rule: a frame has a
kind, a size, a number of header flaws (0, 1 or more: a third is met by a
closed connection), and text that is well formed, incomplete or invalid. `due`
counts the timer handlers that nothing can stop any more. `config` holds role,
`_failByDrop` and the durations; it is chosen in `Init` and never changes.
Opening headers are abstracted to the outcomes of their parsing; one of them is
the missing port, which a server refuses and then goes on: it may open the
connection it has dropped (`droppedByMe` in state OPEN).

`Session` is the application's view: messages in order with none missing before
the last, one report, clean only after a close frame of the peer and one made in
return. Made, not written: a reply queued on a connection that is then dropped
counts for the code too.

### TaskPool

`common/threading`: `taskpool.h`, `taskpool.cpp` and `concurrentqueue.h`. A
critical section is a step, as everything shared is touched under the mutex;
`worker` says where each thread is (starting, waiting in the condition, with a
task, gone). `NotifyOne` wakes an arbitrary waiter, and a wait may end by
itself. `push` after `stop`, `reset` while threads still leave, and a destructor
that breaks the futures of what is left are actions like the others.

### Server

`core/network/reactor.cpp` and `reactor.h` with `TCPListener` (`tcp.cpp`
281-371). `loop` is where each reactor's thread is: `off`, about to run its
loop (`starting`: a stop that comes now is discarded by `restart`), in it, or
joining. The listener lives on reactor 0 and hands connections round robin to
the others (`posted`). The application stops and starts it between handlers, or
from inside `buildProtocol`, `connectionMade`, `stopFactory`, the errback or
the callbacks of the Deferred (`calling`), all of which run inside the accept
handler; exceptions leave it where the code lets them. A listener started again
from there has two accepts outstanding (`accepts`), of which the handler resets
the `_connection` of the newer (`held`). `slips` records what confuses a
listener for good: it was started while connected, a second accept was
cancelled, or it was stopped inside the `connectionLost` of an earlier stop.
Members that only add up (`MaxRuns`, `MaxListens`, `MaxStops`, `MaxConns`) are
the bounds.

### Datagram

`udp.cpp`, `udp.h` and `DatagramConnection` (`base.cpp`). A start is `bind`,
`connect`, `startProtocol` and the first read; each may throw, and what the
steps before it did stays (an open socket, `_connected`, a transport).
`handling` and `starting` name the callback under way: `datagramReceived` or
`connectionRefused`, `stopProtocol`, the callbacks of the Deferred, and
`startProtocol`, from which the application stops, starts, closes, connects and
writes. What is sent is not modelled, but that `write` without a peer and
`connect` open a closed socket is. `dgSlips` records what the end does not
undo.

### SSLConnection

`ssl.cpp` 14-268 and `ssl.h`. Each of the four operations (handshake, read,
write, shutdown) is `none`, `pending` or the way it completed; a method maps
the state it finds to the one it leaves. Writes are coalesced, so that a queue
is two numbers: what is being written (`front`) and what waits (`rest`).
OpenSSL, the kernel and the peer are `Completes`. `inside`, `pausing` and
`lapses` are what `frame`, `pausing` and `lapses` are in TCPConnection:
callbacks act and throw, and `pauseProducing` runs before the writing is
started.

It is the second implementation of `Transport`, by a mapping of its own
(`SSLPhase`, `SSLReason`, `SSLSent`). `loseConnection` after the handshake
waits for the writes and starts the shutdown; before it, a close is posted that
drops what was written, so only a shutdown is a graceful end. A write that
completes after the loss is still counted by its handler, so what was sent is
frozen at the loss. `sslEnd` records both. A shutdown asked for ahead of bytes
nobody writes yet is no graceful end either.

### HTTPConnection and IOStream

`plugins/web/httpserver.cpp` with `RequestHandler` (`web.cpp`, `web.h`) and
`core/protocols/iostream.cpp`. An octet is a pair of what it is part of and of
whose request; arrival in pieces, the pending read (`want`), reads posted to
the reactor (`posted`), both timers and what the reactor has queued (`due`) are
kept. `frame` is the callback of the connection under way and `stage` how far
the handler is: its `prepare`, method and `finish` may return Deferreds, throw,
set a status without a body (204 stands for it and 1xx; the Etag makes a 304),
write, flush and finish in any order. `config` says whether the application
reads bodies as a stream and whether time-outs are set.

### HTTPClient

`httpclient.cpp`, `httpclient.h`: `fetch` is one fetch with the state of its
present connection, `queue` what the reactor will run, in order. A redirect
replaces the connection and the request; the new request takes the callback
along, and if that was used already (`heard` is false) what the new connection
posts is called with nobody to hear it (`unheard`). `asks` is what the request
of this hop asks for: 302 and 303 make it a GET without a body, the other
redirects repeat it. A redirect without a `Location` throws. `Exchanges` gives
the responses that the server of each connection sends. They conform
(`Conforms`): interim responses without a body, then one that is the last,
because the client asks for the close of the connection (`httpclient.cpp`
163-164); a header or a body may be longer than the client allows, and the
connection may be lost at any octet. `ServerAssumption` says this, and that
there is a server behind every redirect that is followed.

### Handshake

`protocol.cpp`, `protocol.h` (`processHandshake` of both ends,
`startHandshake`, `succeedHandshake`, `failHandshake`) and `compress.cpp`,
`compress.h` (offers and answers of permessage-deflate, with the window bits
each side lets pass). Messages are records of the headers that the checks look
at; `wsChanged` is the set of those that somebody changed on the way. The
server looks at the port after the checks of the request line and goes on when
it has refused it; `onConnect` denies only what passed the checks. The texts of
headers and their parser (`parseExtensionsHeader`) are left out.

### Json, TextCodecs, OctetCodecs, Description

Pure code, as operators. `Json`: the reader (tokens stand for scalars), the
writer, conversions between integers and doubles with `JsonBits` for the
widths, and code points. `TextCodecs`: percent escapes and query strings,
quoting and parsing of cookies, URLs split and joined, header lines and
parameters, over short texts of an alphabet of the characters the code looks
for. `OctetCodecs`: archives, length-prefixed receivers, `MessageBuffer`, the
UTF-8 validator and the two maskers; an octet has `Octet` values instead of
256, which puts the limits of each width within reach. `Description`: the
fields of a description of an endpoint, the characters around them, and
`clientFromString` and `serverFromString`, with the certificate an SSL server
must have. Each has a variable for the input, so that TLC enumerates inputs as
states. They recurse over data and have no theorems.

## 3. What the runs check

| Run | Instance | What it shows |
|---|---|---|
| `tcp_connection` | 4 bytes in buffers of 1 or 2, pause above 1, 2 packets | every interleaving keeps the queue exact (`StreamIntact`), leaves no open connection stalled unless an exception of the application does (`OpenIsActive`), reports the loss once (`LostExactlyOnce`), never cancels without a reason, which the handlers assert (`CancelledHasReason`), resumes producers (`WaitingProducerIsRemembered`), reports an abort during a write (`AbortedWriteReported`) and implements `Transport` |
| `runtime` | *connector*: both kinds of host, a bind that may throw, 2 retries, 2 starts, 1 other port; *server*: 2 sub-reactors, 1 run, 2 listens, 2 stops, 1 connection | *connector*: attempts do not overlap (`OneAttempt`), `_state` agrees with what is outstanding (`StateIsKept`), aborted operations have a reason (`AbortHasReason`), ports are balanced (`FactoryBalanced`), retries are scheduled (`KeepsTrying`), attempts to an address end (`AttemptEnds`). *server*: factory, acceptor and Deferred end together, and no Deferred fires early or twice, also when the listener is stopped and started inside its callbacks (`StopIsClean`); `run` returns and the Deferred fires (`StopCompletes`) |
| `websocket` | server and proxied client, both values of `failByDrop`, with and without pings, 2 frames, 3 frames made | order of what is sent, the send chain, soundness of what is delivered, `Session`, and three forms of "the peer cannot hold us": both handshakes end, a silent peer is dropped |
| `network` | 2 threads, 3 tasks, 1 reset; 2 datagrams, 2 starts, 2 stops; 3 bytes and 1 packet over SSL, pause above 1; one connect to both kinds of host, with and without time-outs, and a bind that may throw | *pool*: a task is in one place and executed once (`EachTaskOnce`), nobody sleeps while there is work (`NoLostWakeup`), accepted tasks are taken and `stop` ends the threads (`PoolMakesProgress`). *datagram*: protocol, socket, read and Deferred start and end together, whatever throws or restarts in between (`DatagramStopIsClean`). *ssl*: one shutdown (`OneShutdown`), no gap between operations (`SSLNeverStalls`), the connection ends (`SSLCloses`), and it implements `Transport`, so that a shutdown `loseConnection` asked for, with nothing waiting unwritten, comes after everything accepted was written (`SSLImplementsTransport`). *endpoint*: the Deferred of `connect` says that it connected exactly if it did, something outstanding answers it, and its time-out does not outlive it (`ConnectKeepsWord`); it is answered (`ConnectIsAnswered`) |
| `web` | the messages of module `Web`: 7 scripts of up to 2 requests, 11 exchanges, 5 requests, 4 dialects of JSON, texts up to 4 or 5 characters, 4 values of an octet, descriptions of up to 5 characters and the documented ones; 3 Deferreds, 3 callbacks, 1 pause each | *server*: requests in turn (`RequestsInTurn`), framing (`ResponseFramed`), always something to wait for (`NothingStalls`). *client*: one answer (`FetchAnswered`), the last response of its connection with its whole body (`ResponseWhole`). *handshake*: the ends agree, and a request is refused for the reasons the two factories give and no others (`HandshakeAgrees`). *codecs*: `CodecsReadBack`, which is `JsonReadsBack`, `TextsSurvive`, `OctetsSurvive` and `DescriptionsRead`, with a mutant for each. *deferred*: each wait has its waker (`WaitsMatch`), callbacks of a Deferred do not nest and get a result and not a Deferred (`CallbacksInTurn`), and nothing is stranded but what section 5 names (`NothingStranded`) |
| `tcp_lose`, `tcp_data_after_lost`, `tcp_paused`, `connector_retry`, `connector_stop`, `websocket_lost`, `endpoint_host` | as small as the counterexample allows | a promise the code does not keep; see section 5 |

*Exemptions are part of the properties.* Where the code does leave something
behind, the property says exactly what, and the definition it uses says why:
`left` of `NothingStranded`, `lapses` of the properties of TCPConnection and
SSLConnection, `Deaf`, `Spinning` and `Confused` of `StopFires`, `slips` of
`StopIsClean`, `dgSlips` of `DatagramStopIsClean`, `stopLost` of `StopEndsRun`,
`Deaf` and `stranded` of `FetchAnswered`, `brokenOff` and `lookupDropped` of
the properties of `Endpoint`, `EmptyTail` of `NothingStalls`, and in the codecs
the inputs that are not read back. Section 5 lists them.

*Why the bounds suffice.* TCP: two buffer sizes and four bytes give queues of
up to four buffers, partial writes inside one, and a write that drains several
inline; two packets give a read that completes while another handler closes the
connection, twice. Connector: two retries and two starts give a late timeout of
one attempt in the middle of the next, and the retry limit. Deferred: three
Deferreds are the shortest chain with a middle; a callback that returns one
with a callback of its own needs three callbacks. WebSocket: two frames are a
fragmented message or a message after a failure, three made frames are a
response and a queue with a frame waiting. A client without a proxy is a
proxied one after its proxy answered. Pool: three tasks over two threads keep
one in the list while both work; a reset revives a pool that stops. Server: two
stops replace a Deferred, two listens start a listener again, also inside
`connectionLost`, one connection completes an accept while it is closed; two
sub-reactors can be stopped apart. Datagram: two starts and two stops restart a
connection inside the Deferred of the first stop and stop it again.
SSL: three bytes are a partial write with bytes behind it. HTTP: two requests
are pipelined, blocks of two octets cut a body of three; two exchanges are a
redirect and its refusal. Codecs: the texts are long enough for an escape cut at
every place and two delimiters in each order. What section 4 proves holds for
any bound.

*Fairness.* `FairSpec` of TCPConnection: the reactor runs every handler that is
ready, and callbacks return or throw. `ReadingPeerSpec` adds that pending writes
complete, which only a peer that reads provides; only `tcp_lose` uses it, to
show that the connection stays open even then. Connector: the kernel ends every
`connect`, timers expire, handlers run; nothing is assumed of the resolver, so
`AttemptEnds` is about addresses; the same for Endpoint, whose
`ConnectIsAnswered` is about addresses and about any host with a time-out.
WebSocket: timers expire and handlers run;
the peer owes nothing. Pool: each thread is scheduled and its tasks return.
Server: threads are scheduled and each reactor runs what is ready; nobody has to
connect. SSL: handlers run, callbacks return, and the peer reads what is written
and answers the shutdown, or breaks off; the handlers of a write, of the
shutdown and of a posted close are strongly fair, because a write that fails at
once and is retried (section 5) keeps disabling and enabling them, while the
reactor's queue is served in order. There is no fairness on what the
application does.

*Deadlock.* `CHECK_DEADLOCK FALSE` everywhere: connections are closed, starts
and frames are used up, and then the models stop, as the system does.

*Order of timers.* Two timers of one kind last equally long, so the handler of
the older runs before the newer one expires; `Expire` relies on that in
WebSocketProtocol. In Connector a late timeout may run at any moment, as its
duration and the retry delay are unrelated; so may the two timers of
HTTPConnection.

## 4. What is proved

For all values of the constants, from the named `ASSUME` of each module alone.

*TCPConnectionProofs*: `TypeCorrect`, `StreamCorrect`, `LostOnce`,
`NeverStalled`, `ProducerRemembered`, `AssertionsHold`, and `Implementation`,
that every step of TCPConnection is a step of Transport or a stutter. None of
the invariants is inductive alone. `IInv` adds: `_reading` and `_writing` say
exactly which operations are outstanding (`FlagsTrackOperations`), without
which a handler could run for an operation nobody knows of; the phases the
flags can be in, and what is known inside a callback (`Phases`); what the queue
holds while a write is in flight (`WriteInFlight`), which is what lets a
completion be added to `consumed`; that a close is posted only with nothing to
read and on the way to the end (`PostedCloses`); that a close the application
asked for waits for the write outstanding, unless it was asked for ahead of it
(`CloseWaits`); and that a producer that waits behind an empty queue has its
lambda posted (`DrainedIsRemembered`). `Lossless` carries the graceful end to
the refinement. The proof that a step preserves `IInv` has a lemma per action
over shared lemmas about the queue.

*ConnectorProofs*: `TypeCorrect`, `AttemptsDoNotOverlap`, `StateKept`,
`AbortExplained`, `PortsBalanced` and `RetryScheduled`. `Inv` adds `Phases`,
where operations, connection and timers can be in each `_state`, and
`TimersBounded`, at most one expired timer per start, without which `lateTimers`
would have no bound to be typed by.

*NetworkProofs*, of four parts that share no state. Pool: `TasksRunOnce` and
`WakeupsKept`. To the types and these two, `PoolInv` adds `GoneIsFinal`: the
promises are broken only once the owner is gone, when no thread is left in its
loop and none of the broken tasks was taken. Without it a thread could take a
task from a pool that was destroyed. Listener: `ListenerStopsCleanly`.
`ListenerInv` adds how stops are numbered and that the Deferred which
`connectionLost` has moved out is not the listener's (`DeferredsApart`): a stop
inside its callbacks makes a new one. `ListenerClean` says: as long as nobody
started the listener while it was connected and no second accept was cancelled,
its port is counted exactly while connected, an unanswered Deferred is one of a
closed acceptor that is still connected, and an accept is outstanding
only while connected. Datagrams: `DatagramStopsCleanly`. `DatagramInv` adds the
numbering of stops (`StopsNumbered`), what is known inside each callback
(`CallbacksNest`), that a protocol with a port has its transport and reads or
should (`PortsInv`), and that a cancelled read is one of a closed socket
(`SocketInv`). Endpoint: `ConnectKeepsItsWord`, and
`AnsweredOnce`, that no later handler, cancel or time-out changes the answer.
`EndpointInv` adds that before `connect` nothing has happened (`Unused`), that
the handler of an outstanding operation finds the Deferred unanswered unless the
attempt was aborted, and no protocol that was told anything (`Attempting`), and
that what a callback waits for and an expired time-out come after the answer
(`Afterwards`).

*SSLConnectionProofs*: `ShutdownRunsOnce`, `SSLKeepsGoing` and
`GracefulCloseSendsAll` (no shutdown that `loseConnection` asked for begins
while bytes wait, unless it was called ahead of them), all from `SSLInv`. Its
parts are predicates of a state of the connection, so that every method has one
lemma that it keeps them (`CloseSound`, `ShutdownSound`, `WriteOnSound`, ...),
and a handler is the sum of its methods: the flags tell which operations are
outstanding (`Operations`), data and shutdown come only after the handshake and
a posted close only before it, an operation is cancelled early only by an abort
(`Cancelled`), which is what the assertions of the handlers rely on, a
connection that ends has a reason (`Phases`), and a producer is paused inside a
write of a connection that is up (`Pausing`). `SSLImplementation`, that
SSLConnection implements `Transport`, follows from the same invariant: a method
leaves what Transport sees of the record as it was (`SameEnd`), or fails a
connection that was not lost yet (`GoesOn`), and what closes it is one of three
handlers (`LossRefines`).

*WebSocketProtocolProofs*: `NoFrameLost`, `QueueServed` and `OnlyDeliverable`,
from `WebSocketInv`. Frames are numbered as they are made, and while the
transport takes what is written (`Live`: not CLOSED, and not dropped before it
was opened) the wire followed by the queue is exactly 1, 2, ... up to the last
(`Whole`), which is what a frame sent past a waiting one would break;
afterwards the wire is still a prefix of it. The close frame is the last made,
because it ends OPEN (`Final`). A message over the limit has failed the
connection (`LimitKept`), and `failedByMe` is never taken back: `Leads` says
this, and that the opening handshake does not return, of every method, and is
transitive, so that a handler is again the sum of its methods. Only the types
the argument needs are carried (`Types`), not all of `TypeOK`.

`SessionKept` is the refinement: every step is a step of `Session` or leaves it
as it is. It needs `SessionInv`: what the endpoint notes of the close is true
(`Truthful`: CLOSING only after its own close frame, clean only after both), the
session has an outcome only once the connection is down, and as long as nothing
failed what was offered was delivered. `Goes` is what each method keeps of that,
transitive like `Leads`; `Moves` is the same without "CLOSED stays CLOSED", for
the one handler that opens what it refused.

*WebProofs*, of the HTTP client: `FetchIsAnswered`, from `ClientInv`.
`AnswerSound` is an exclusive choice: the answer is still to come (`Waits`), or
is in the reactor's queue once, or was given once, or the fetch was stranded.
It holds after every method, in the middle of a handler too. `Attended` holds
between handlers: an open connection reads or has a handler queued that will,
and a lost one has used its callback. Redirects decide the argument: a request
that takes over a used callback must not post a second answer. Of the servers
it assumes nothing.

`ResponsesAreWhole` is about the data, from `ClientWhole`: the octets that are
not consumed, the buffer followed by those still to arrive, are what the
pending read expects (`Aligned`, `Expects`). Before a header they begin with a
response (`AtResponse`); in a body with a length they are the length less what
was counted; in chunks they begin with the length of one (`AtChunk`), or are
the rest of the data and the end of the chunks (`Tailing`). As the client reads
a chunk in blocks of full size it may take octets of that end for data;
`Tailing` then says that it is past the data, so that it can only fail, and the
read of the last line end (`ReadsLastEnds`) is reached with the whole body
alone. Where the responses lie in the stream is `Laid`, which `FlattenLays`
proves of the concatenation. `Midway` is what holds inside a handler, while no
read is pending; `Reached` is what a method leaves, on this connection or at
the start of the next one, and `Ensues` what a handler leaves. The types and
the positions of the servers' responses come from `ServerAssumption`.

*WebProofs*, of the opening handshake: `EndsAgree`, from `HandshakeInv`, for
any factories, any answers of the callbacks and any changes on the way.
`HandshakeAgrees` speaks of both ends once they are open, and of a request that
was overwritten by then, so the invariant keeps what the wire tells in between:
until the server has answered, a request nobody changed is the client's own
(`Unanswered`), and a response with 101 is of a server that opened and
announces what that server holds (`Answered`, `Announces`). The parameters of
permessage-deflate are compared twice: what the server creates from an offer
with the response it writes (`PairAnnounced`), and that response with what the
client creates from it (`ConclusionFollows`); both need what each callback may
accept (`OfferAcceptValid`, `ResponseAcceptValid`), which the code checks by
throwing. That an unchanged request is refused with 400 only for a reason the
two factories give (`Refusable`: port, version, subprotocols, origin, window
bits), and opened only if there is none, follows from the checks taken in their
order: the first that holds decides (`FirstRefusalDecides`), and on an
unchanged request only those remain that compare the two configurations
(`LineChecks`, `RestChecks`). `HandshakeAssumption` gives the types of the
factories: drafts 10 to 18 (`SUPPORTED_SPEC_VERSIONS`) and ports that are
unsigned.

*HTTPConnectionProofs*: `ResponsesAreFramed`, `ConnectionGoesOn` and
`RequestsTakeTurns`, from `HTTPInv`, for any scripts of requests, any pieces in
which they arrive and any order in which the handler prepares, writes, flushes,
waits, throws and finishes. The methods call one another deeply
(`finish` ends a request, which reads the next, which may call a handler that
finishes), so there is a lemma per method on what it needs and leaves, in three
layers. `Sound` is what every method keeps: who is in turn (`Turn`), what may
still be written of the response (`Framed`: nothing until the headers are out,
then `Budget`, in which what is expected is the length less what was sent), and
what an open connection waits for (`Posted`, `Timed`, `Sends`, `EndsOnce`).
`Settles` is what a method leaves when the turn goes back to the handler or the
reactor: a request whose handler has not finished was not answered, and whoever
begins finds a clean response (`Tidy`). `Steady` is both, with no exception
under way and nothing half consumed, and is the invariant between actions. For
`RequestsTakeTurns` the same lemmas say of a step that it begins no request
(`Stays`) or begins one as the theorem demands (`Begins`).

*DeferredProofs*: `TypeCorrect`, `WaitsCounted`, `CallbacksDoNotNest` and
`NoneStranded`, for any number of Deferreds and any depth of re-entrance. The
stack is the heart of the matter: a callback lies on the activation that called
it, and an activation on a callback, or on nothing, and has nobody in its chain
of whom a callback is under way (`OnTop`); the stack grows and shrinks at its
top only, so each action has to show this for the top alone. To this `IInv`
adds that a Deferred whose callback runs does not wait (`Results`), nor does
the one the loop goes on with (`ReadyTop`); that those who wait and the
Continuations are each other's inverse (`Woken`, `Wakers`), without which a
Continuation could unpause somebody twice; and that whoever has callbacks that
may run is in the chain of an activation (`Attended`), which for an empty stack
is `NothingStranded`.

Left to TLC: liveness and whatever needs fairness or ENABLED, among it
`AbortedWriteReported`, `AttemptEnds` and `ConnectIsAnswered`; and
`CodecsReadBack`, as the codecs are RECURSIVE operators, which the provers
cannot use. Every other invariant of the runs has a theorem. Theorems of the
library that take an operator as a parameter cannot be used either, so a fact
about data is proved by a least counterexample where it is simple
(`FlattenTyped` of HTTPConnectionProofs; `FirstMatch` and `FlattenLays` of
WebProofs, from `LeastNat`) and otherwise not at all.

## 5. Where the code does not do what is written

Seven have a run that finds them; `PROJECT.json` quotes the documentation.

1. `loseConnection` with several buffers queued sends them and never closes:
   `handleWrite` looks at the queue before `doWrite` drains it (`tcp_lose`,
   `tcp.cpp` 228).
2. A read that completed before the write handler closed the socket is handed
   to `dataReceived` after `connectionLost` (`tcp_data_after_lost`,
   `tcp.cpp` 131).
3. A timeout queued while its attempt failed moves the connector to a state no
   retry gets out of (`connector_retry`, `tcp.cpp` 503).
4. `stopTrying` does not stop: nothing sets `_continueTrying` to false
   (`connector_stop`, `core/network/protocol.cpp` 74).
5. A WebSocket endpoint that drops the connection without a reason, a server
   after its status page or a client whose proxy refuses, follows an empty
   optional when the connection is lost (`websocket_lost`,
   `plugins/websocket/protocol.cpp` 259).
6. A producer that calls `loseConnection` from inside `pauseProducing`, before
   `write` has started writing, has the close posted ahead of its bytes: the
   connection ends as asked, with bytes unsent (`tcp_paused`, `tcp.cpp` 37; the
   same in `ssl.cpp` 39).
7. A client endpoint described with `host=`, as `endpoints.h` 229, 231 and 234
   write it, connects to the empty host: the parameter is looked for and never
   read (`endpoint_host`, `endpoints.cpp` 247).

The rest was seen while modelling, and the models keep it. It has no run of its
own, because nothing is written that it contradicts or because a single step of
the model shows it. Five of these do contradict what is written:

- A chunked request ends in a state that `onDataRead` has no case for and
  asserts to be unreachable (`httpserver.cpp` 69; `unreachable` in
  HTTPConnection).
- An exception out of `connectionMade` or `dataReceived` is logged by the
  reactor and skips the `doRead` after it: the open connection notices neither
  data nor its end any more (`tcp.h` 93, `ssl.h` 117). `lapses` has "read" from
  then on, which is what `OpenIsActive` and `SSLNeverStalls` except.
- `loseConnection` before the SSL handshake is over drops what was written from
  `connectionMade` (`ssl.cpp` 75). `SSLReason` counts it as no graceful end.
- A WebSocket server that refuses a handshake for a missing port does not
  return: it goes on, answers 101 on the connection it dropped, and opens
  (`plugins/websocket/protocol.cpp` 1264; `droppedByMe` in state OPEN).
  `HandshakeAgrees` and `Session` hold all the same.
- What a handler flushes with status 204 or 1xx is sent, with nothing that
  tells its length (`httpserver.cpp` 148). `ResponseFramed` excepts the flushed
  ones.

And, where nothing is written:

*Streams and connectors.* A read completion queued when the connection is being
lost keeps it from closing; a write nested in `pauseProducing` that empties the
queue leaves the outer one to follow `front()` of an empty list (`crashed`); an
exception out of `pauseProducing` leaves bytes queued until something is written
again; `handleConnect` follows `_connection` after an abort reset it;
a resolve that completed before it was aborted is never reported; an exception
from bind loses the attempt.

*Endpoints.* A connect that is cancelled from inside `buildProtocol` or
`connectionMade` ends with an exception and a connection whose loss is not
reported; a wrapped protocol that throws out of `connectionMade` leaves the
Deferred unanswered; and a time-out of `addTimeout` that has expired when the
answer comes cancels what a callback waits for (`defer.cpp` 18-21).

*SSL.* A failing write is retried in a loop until the shutdown ends (`ssl.h`
127-138); a read completed before `closeSocket` is handed to `dataReceived`
after `connectionLost`; `abortConnection` of an idle connection waits for the
peer's shutdown; an exception out of `dataReceived` or `pauseProducing` skips
the read or the write after it.

*Reactor, listeners, datagrams.* A sub-reactor that stopped itself makes
`Reactor::stop` throw before the main reactor stops (`reactor.cpp` 57-66), and
a stop before a sub-reactor's `restart` is discarded; `Reactor::running` is
inverted (`reactor.h` 110). `stopListening` inside the callback of an accept or
a datagram closes with no operation pending, so that the next one fails for
ever (`Spinning`). An exception in `handleAccept` leaves the listener deaf, and
a deaf listener that is stopped and started again counts its port twice
(`startedTwice`). A listener started again from inside `stopFactory` or the
Deferred of its stop has its new `_connection` reset by the handler under way
and accepts twice; an accept that then succeeds writes to a socket that is gone
(`Orphan`), and one that is cancelled ends the listener twice (`lostTwice`). A
listener stopped inside `stopFactory` never fires that Deferred, because
`connectionLost` puts `_disconnecting` down (`stoppedInside`).

A datagram start that fails half way leaves its socket open or its transport
set, so that no later start succeeds; a `stopProtocol` that throws leaves
`_reading` and the transport set. A connection started again from inside the
Deferred of its stop never reads, because `_reading` is put down after it
(`restarted`), and a stop made there has its Deferred dropped by `_d.reset()`
(`base.cpp` 193-196). A write after a stop opens the socket again, and the next
bind throws. `stopListening` in `startProtocol` makes a Deferred with nothing
to fire it.

*Task pool.* `stop`, `reset` and `wait` in this order can leave `wait` blocked;
a task pushed after `stop` is accepted and may never run.

*Deferred.* A callback that returns a Deferred with a result passes `nullptr`
on, so an error is lost (`ReturnFired`); the loop of `runCallbacks` forgets the
rest of a chain when the Deferred it woke is paused (`left`).

*WebSocket.* A ping time-out between the drop and `connectionLost` turns a
clean close unclean; a server's close reply queued behind synchronous frames is
never written; a client that answered the server's close waits for it without a
timer unless pings are on; a client sends `Origin` for versions above 10 while
the server reads `Sec-WebSocket-Origin` below 13, so that drafts 11 and 12
escape the origin check; an exception of `onOpen` writes an HTTP error into the
open stream; a client without an accept callback refuses any extension; the
server ignores whether a client offered `client_no_context_takeover`.

*HTTP server.* The last of a body's blocks is asked for in full
(`readFixedBodyBlock` does not subtract `_bytesRead`); `Content-Length: 0` arms
the body timer after the request was executed; an empty last write leaves
`_pendingWrite` set (`EmptyTail`); an answer to HEAD flushed early ends with a
chunk; a response to a kept HTTP/1.0 connection that was flushed early has
neither length nor end; a posted read still delivers data after
`connectionLost` (`iostream.cpp` 106); a header time-out that expired and waits
in the reactor's queue closes a valid request; `RequestHandler::write` of a
string appends it twice (`web.h` 189-193).

*HTTP client.* A complete chunked response followed at once by the end of the
connection is reported as 599, and a redirect cut that way is answered 599 and
then followed by a request nobody listens to; `close` during a redirect leaves
the fetch unanswered (`stranded`); a header too long that a posted read finds
while a data read completed leaves the connection deaf (`Deaf`); a body longer
than a block, and not a multiple of it, waits for octets that do not come; a
non-2xx response after a redirect is reported with 599; two interim responses
send the body twice; a body until close that a reset cuts is delivered as
success.

*JSON.* `parse` inverts its test of comments; comments are accepted where they
are not allowed; `-` alone reads as 0; a comma may follow an empty name; the
first of four octets of a code point is shifted by 24; a double of 2^63 or 2^64
passes for an integer that it is not.

*Texts.* `HTTPHeaders::normalizeName` discards its result, so names are
case-sensitive; `urlSplit` compares the scheme with an ordering; the host of
`[::1]:80` keeps its bracket; a `;` in quotes swallows the parameters behind it;
a continuation line after `clear` throws; a jar's secure flags are lost when it
reads its own output; `http:////a` comes back with a host.

*Octets.* The receivers with an extended length discard what `convertFrom`
returns (`uintnreceiver.h` 149), so a long message in network order is misread;
messages left when a handler throws wait for more data; a `MessageBuffer` of at
most one octet never grows; archives write infinities they refuse to read, and
reals keep the byte order of the host.

Of code that is not modelled: `DeferredValue(ValueT&&)` takes an lvalue
DeferredValue by its template constructor and wraps it a second time;
`CSVReader::open` tests the wrong stream and always throws; `endCompressMessage`
erases at least four octets of what may be shorter (`compress.cpp` 207-211);
`Base64::b64decode` keeps the padding as trailing zeros.

## 6. Plan

Done, in this order: `Transport` and `TCPConnection` (everything else sits on
streams), `Connector`, `Deferred`, `Session` and `WebSocketProtocol`;
`TaskPool`, `Server`, `Datagram` and `SSLConnection`, with proofs; `IOStream`,
`HTTPConnection`, `HTTPClient` and `Handshake`; the codecs; the proofs about
WebSocketProtocol and Deferred; `Description` and `Endpoint`; the proofs about
Endpoint, both HTTP connections and the handshake, that WebSocketProtocol
implements `Session`, that the HTTP client delivers whole responses, and that
SSLConnection implements `Transport`, as TCPConnection does.

Left, in this order:

1. `DeferredList`, and the helpers that wrap the result of a function.
2. The lock file of UNIX listeners.

## 7. What is not modelled, and why

Contents of buffers, addresses, headers and log lines, except where a property
depends on them. Memory life times: an object is taken to live as long as a
handler refers to it, which the `shared_from_this` captures ensure. asio,
OpenSSL, the kernel and zlib appear as the completions they produce. Threads
appear only where the code shares state between them: in the task pool, and at
the start and stop of reactors.

The UNIX variants of connections, connectors, listeners and datagrams are
copies of the TCP and UDP code and would be the same modules again. So are
their endpoints. Routing, rendering and static files are look-ups and text.
Options, INI and CSV files are read once at start-up. Logging, cryptography,
compression and debugging aids are wrappers or output that nothing depends on.
Within what is modelled, left out are: the Flash policy file, chopped sends,
compressed payloads and the connection count of WebSocket factories; the parser
of extension headers (`parseExtensionsHeader`); transforms, `xheaders` and an
`HTTPError` with a status that has no body, of the HTTP server; proxies,
decompression, a `bodyProducer` and redirects to another scheme, of the HTTP
client; dates in headers. An application that cancels the Deferred of
`stopListening`, and exceptions out of `stopProducing`, `resumeProducing` and
`connectionLost`, are left out too.

The type invariants are no properties of the runs. Those of the modules with
theorems are parts of the inductive invariants and proved, except those of
WebSocketProtocol, Endpoint, HTTPConnection and HTTPClient, of which the proofs
carry the part they need; those of the others state the types for the reader.

## 8. Running

    tlc -config TCPConnection.cfg TCPConnection.tla
    tlapm TCPConnectionProofs.tla

and likewise for the other configurations and proof modules. The `web` and
`websocket` runs are the largest: about 1.8 and 0.9 million states, two to three
minutes each.
