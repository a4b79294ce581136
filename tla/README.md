# A TLA+ model of workspace-images

This directory specifies and checks the parts of this repository whose
correctness depends on the order in which things happen. The repository builds
Docker images of browser IDEs. Most of it is a checkout of VS Code with its
remote server (`vscode/`), plus a program that installs extensions into an image
(`extension-downloader/`), a web test server (`vscode-test-web/`), and the
Dockerfiles and scripts of the images.

What makes such an image usable or not is the connection between the browser and
the server: it must survive dropped sockets, sleeping laptops and restarts of the
network without losing, repeating or reordering a message, and the server must
neither drop a client that will return nor keep one that will not. The model
follows that connection from the WebSocket up to the calls made over it, with the
extension host that the server starts for it. Two more programs are modelled: the
storage in which a window keeps its state, since a browser IDE has no other, and
the extension downloader, which this repository itself adds.

## Inventory

Paths are under `src/`; `vs/` stands for `vscode/src/vs/`.

| Component | State | Operations | Hard behaviours |
| --- | --- | --- | --- |
| `PersistentProtocol`, `ProtocolWriter` (`vs/base/parts/ipc/common/ipc.net.ts`) | unacknowledged queue, four counters, two acknowledgement timers, current socket, writer buffer, pause flag | send, sendControl, receive of each message type, timers, begin/endAcceptReconnection, dispose | messages written again, gaps and replay requests, timers across reconnections, disposal in the middle of one |
| Reconnecting loop and handshake of the browser (`vs/platform/remote/common/remoteAgentConnection.ts`) | phase of the loop, attempt, static `_permanentFailure` | socket close and time-out events, the awaits of the loop, the two handshake messages, permanent failure | time limits with late answers, failures between two awaits, several connections in one window |
| Handshake and table of the server (`vs/server/node/remoteExtensionHostAgentServer.ts`) | `_managementConnections`, `_extHostConnections`, state of each handshake | web socket handshake, rejection, accepting a reconnection, a free debug port | an old handshake read after a newer one, the protocol object that only lives for the handshake |
| `ManagementConnection` (`vs/server/node/remoteExtensionManagement.ts`) | protocol, two grace timers | onSocketClose, shorten, acceptReconnection, clean-up | timers against the return of the client |
| `ExtensionHostConnection` (`vs/server/node/extensionHostConnection.ts`) | forked process, socket of the first connection | start, READY, acceptReconnection, shorten, exit of the process | sockets that overtake each other at the drain, a reconnection while the fork starts |
| Extension host process, connection part (`vs/workbench/api/node/extensionHostProcess.ts`) | protocol, runners, 60s timer | message with a socket, shorten, close event, exit | dead sockets, older sockets after newer ones |
| `WebSocketNodeSocket`, flow manager (`vs/base/parts/ipc/node/ipc.net.ts`) | queues of frames being deflated and inflated | write, accept frame, end, drain, dispose | close event ahead of data, writes lost at the end |
| Browser socket factory (`vs/platform/remote/browser/browserSocketFactory.ts`) | FileReader queue | message, close, send | close event ahead of data |
| `ChannelClient`, `ChannelServer` (`vs/base/parts/ipc/common/ipc.ts`) | pending requests, active requests, handlers | call, cancel, listen, dispose, registerChannel | cancellation against the answer, requests that wait on either side |
| Storage (`vs/base/parts/storage/common/storage.ts`, `vs/platform/storage/browser/storageService.ts`) | cache, pending writes, the running transaction | set, delete, flush, close, external change | an update in progress against new writes, windows that share the database |
| `Throttler`, `Delayer`, `createCancelablePromise` (`vs/base/common/async.ts`) | active and queued task | queue, trigger, cancel | a queued task that fails |
| Extension downloader (`extension-downloader/src`) | loop, archives, streams, shared counter, shared regular expression | download, extract, count, exit | unawaited concurrency, flush at exit, running again |
| In-memory file system (`vscode-test-web/fs-provider/src/fsProvider.ts`) | tree of entries behind promises | write, rename, delete, create | operations interleaved at awaits |
| `vscode-test-web` server, Dockerfile runner (`parser`), images | almost none | download, start a process | none to speak of |

How they interact: the loop of the browser opens a WebSocket and hands it to
`PersistentProtocol.beginAcceptReconnection`; the server reads the handshake
messages with a protocol object of its own, then hands the socket to
`ManagementConnection.acceptReconnection`, which gives it to the server's
`PersistentProtocol`, or to `ExtensionHostConnection`, which drains it and sends
it to the extension host process. Both protocols then write again what was not
acknowledged. The sockets call back with data and close events, the protocols with
`onSocketClose`, `onSocketTimeout` and `onDidDispose`. The channels run over the
protocol. Storage and the downloader stand alone.

`PROJECT.json` lists the components with what is modelled of each, and the
hazards at their lines with the properties that watch over them.

## Modules

| Module | What it models |
| --- | --- |
| `WebSocketSocket` | one WebSocket: the queues of both ends, end, dispose, drain, the close events |
| `PersistentProtocol` | both ends of one connection, message by message |
| `ReliableChannel` | what the protocol promises: in order, once, confirmed only when delivered |
| `RemoteConnection` | the loop of the browser, the handshake of the server and the grace timers, over sockets that close |
| `ExtensionHost` | the hand-over of sockets to the extension host process, its timers and its end |
| `IpcChannels` | calls and events over a connection |
| `Storage` | the storages of several windows over one database |
| `WriteBehind` | what a storage promises: whole memories, in order |
| `ExtensionDownloader` | the extension downloader, callback by callback |
| `...Proofs`, `PersistentProtocolTimers` | the theorems about the module they are named after |
| `MC...` | small values of the constants for TLC |

The layers are checked one at a time, since their product is out of TLC's reach.
What one layer assumes of the one below is what the other module checks:
`IpcChannels` takes its two directions as sequences (`ReliableChannel`, which
`PersistentProtocol` implements); `RemoteConnection` and `ExtensionHost` take
from the protocol that a write goes to the current socket, that nothing is written
during a reconnection and the whole queue after it (`NoGap`,
`NothingForgotten`); all three take a socket as a sequence that may lose a tail
(`InOrderOnce` of `WebSocketSocket`), and `Eager` and the lost Disconnect of
`RemoteConnection` are what `CloseEvent` and `End` of `WebSocketSocket` produce.

Definitions that begin with the comment "Mutated:" are wrong on purpose. Each is
one plausible bug, used to see that a property would notice it; the
specification does not use them.

### PersistentProtocol

`ep[p]` is one end, a record with the fields of the class without their
underscores. `pipe[s][p]` is what `p` wrote to socket `s` and nobody has read.
Operators such as `SendRegular`, `ReceiveMessage` or `RecvAckCheck` are the
methods, functions from an end to an end; an action is one JavaScript turn. An
armed timer is a BOOLEAN and may fire at any moment; a test of elapsed time may
go either way (`overdue`), so every timing is covered. `sent` and `delivered` are
histories.

A network that closes a socket loses any tail of what it carries. Replacing a
socket destroys the old one, and what was written to it arrives in part.
`Lossy` adds a reader that takes a message off a socket: the only way a gap
arises inside a socket, and what `ReplayRequest` exists for. `Disposing` disposes
an end at any time, also before a reconnection under way revives it.

Left out: the byte framing (`ProtocolReader`, `ChunkStream`), the text of control
messages, the load estimator (it only delays a time-out) and the wrap-around of
the 32-bit ids, assumed not to be reached.

### RemoteConnection

`client.at` is the await at which `_runReconnectingLoop` stands; each action is
what runs up to the next one. The protocol is reduced to what matters here:
counters of one direction of data, the acknowledgements, and the buffer of
control messages of its `BufferedEmitter`. `server` is the `ManagementConnection`
with its two runners, `state[s]` the handshake on socket `s`. `Trouble` selects
what goes wrong besides closing sockets. `Eager` says which end may see a close
event before the last data: the browser always may, because its close event does not
pass through the FileReader queue (`browserSocketFactory.ts:151`), so the runs have
`"client"` in it; a `WebSocketNodeSocket` may when it still inflates a frame.

### ExtensionHost

The first handshake has just been answered and `start()` awaits the environment.
`server` is the `ExtensionHostConnection` with its entry in the table: `first` is
`_connectionData`, `port` the handshakes that await a free debug port, `draining`
the sockets whose drain `_sendSocketToExtensionHost` awaits. They finish in any
order, so an older socket may come to the process after a newer one. A message of
`ipc` carries a handle unless node had destroyed the socket. `process` has the
runners of `_createExtHostProtocol` and the socket of its protocol. The client
pauses its writer before the last answer and resumes when told by the process;
of its messages one is kept, written again until acknowledged.

### WebSocketSocket

`node` is `WebSocketNodeSocket` over `NodeSocket`, with the write and read queues
of the flow manager, the promise of `drain` in four stages and the state of
`_acceptChunk`; `browser` is `BrowserWebSocket` with the queue of its FileReader.
`buffer` and `needDrain` are the writable stream of node, external and taken as
documented. The end of node's socket is two events: `EndEvent`, after which the
socket is half open and keeps its buffer, and `CloseEvent`, after which it is
destroyed. A message to the node end has one or two frames, of which only the first
has the RSV1 bit. A drain that comes while dispose waits for the write queue is
`"late"`: `Emitter.dispose` drops it from the delivery that would tell it.

### IpcChannels

`client` and `server` are `ChannelClient` and `ChannelServer`. The microtasks
between the promise `whenInitialized` and the reactions of its waiters are
actions, and code of the window may run between them; this is where a cancel can
be missed. `pending` holds what waits for a channel to be registered, `timers` the
"Unknown channel" timers. `abandoned` is a history of what was given up before it
began, see "Also seen".

### Storage

`win[w]` is the `Storage` of window `w` with its `ThrottledDelayer` and its
`IndexedDBStorageDatabase`; `disk` is the object store, `inbox[w]` the
BroadcastChannel. IndexedDB runs a read-write transaction whole, so `Commit` is
one action, and the window hears of it later (`Complete`). Windows vanish and come
back, close their storage, and their transactions fail with an error event or
abort without one, as `Closing`, `Leaving`, `Failing` and `Aborting` allow.

### ExtensionDownloader

`main` is the loop and then the await of the progress bars; `phase[x]` is how far
extension `x` is. An archive is a sequence of entries of which only the kind and
the length of the name matter, since that is what `folderRegex.test`, with its
`lastIndex`, depends on. `flushing` are write streams told to close whose data is
not on disk yet. A rejection nobody catches ends the process, as Node does. The
bars belong to a library outside the repository, but whether the last step fills the
total bar depends on how `percentage(1, n)`, a floating-point number, adds up over
`n` extensions; that is the constant `TotalFills`, TRUE for the two of the runs.

## Runs

| Run | Checks | Distinct states |
| --- | --- | --- |
| `reconnect` | `DeadSocketNoticed`, `AckOwed`: both ends send one message, both of the two sockets may close, the client is disposed at any time | 466,002 |
| `loss` | `WriteScheduled`, `InOrderOnce`, `NothingForgotten`: two messages with two payloads, any message may be taken away, the server pauses the client's writer and its own | 971,779 |
| `delivery` | `NoGap`, `EventuallyAcknowledged`, `ImplementsChannel`: two messages one way, one the other, fairness | 63,369 |
| `handshake` | `AnswersMatch`, `ClientNotices`, `GraceRunsIffLost`, `Agreement`, `HandshakeReadsNoData`, `NoNewAttempt`: all troubles at once, three sockets, close events of the client that overtake data | 663,784 |
| `resume` | `EventuallyAcknowledged`, `ForgetsTheGone`: four sockets of which two close, two messages, the window may be closed at any point, close events of the client that overtake data, fairness | 498,564 |
| `exthost` | `TypeOK`, `HandoffLosesNothing`, `GraceRunsIffLost`, `RefusedOnlyWhenOver`, `EventuallyDelivered`, `ForgetsTheGone`: four sockets, the first two bad, all troubles, fairness | 234,873 |
| `sockets` | `InOrderOnce`, `DrainedMeansWritten`, `DisposeWaits`, `EventuallyFinished`, `EventuallyDelivered`: two messages in any directions, deflated or not, everything that ends a socket or half of it, fairness | 117,776 |
| `channels` | `TypeOK`, `RunsIffWanted`, `AnswerIsDue`, `HeardInOrderOnce`, `EventuallySettled`: a call and an event, which is listened to twice and fired twice, over a channel registered late or never, fairness | 482,814 |
| `storage` | `PendingScheduled`, `OthersHear`, `FlushedIsStored`, `ImplementsWriteBehind`, `EventuallyStored`, `EventuallyClosed`: two windows, three keys, one window closes or vanishes and opens again, the other's transactions fail and abort, fairness | 43,441 |
| `install` | `CountsTheExtracted`, `EventuallyEnds`: two archives, everything may fail or be cut off, two runs of the program, fairness | 1,635 |
| `flush`, `close` | each finds one property violated, see Findings | |

Why the bounds are enough: two messages in a direction are the least for a gap, a
duplicate or a wrong order; two sockets for a reconnection; three for an answer
that comes late while another attempt is under way; four in `resume` so that an
old handshake can take the connection back from a newer one and still leave
sockets to recover, and in `exthost` so that two bad sockets may overtake each
other before two good ones. One attempt beyond the limit reaches the giving up of
the loop. Listening twice puts the end of the first subscription and the request
for the second on the wire together; two firings are the least for an order.
Three keys are one that each window owns and one that both write, two writes let
one be set while the other is stored; `MaxOpens = 2` is a window that comes back.
A high-water mark of two separates writes that fill node's buffer from writes that
do not. Two archives are the least for interleaved extractions.

The theorems do not depend on these bounds. Deadlock is not checked, because each
of these systems really comes to rest: when all is sent and acknowledged, when no
socket is left, when the program has exited. `LaterSockets` and
`PayloadSymmetry` are sound since nothing in the specification singles out one of
these values; they are used with invariants only.

`MaxQueued` bounds control messages, which are unlimited in the code; `MaxSend`
and `MaxMessages` bound messages, `MaxWrites` writes, `MaxListens` and `MaxFires`
what happens to an event, `MaxOpens` and `MaxRuns` restarts, and the sets of
sockets the attempts. No Regular message or acknowledgement is bounded by
`MaxQueued`.

### Fairness

- `PersistentProtocol`: weak fairness of the writer's timer, of reading, of the
  acknowledgement timer, of ending a reconnection that has begun, and of beginning
  one on an end whose socket has closed, which is what the loop above it does.
  Nothing is assumed of the network but that the last socket stays.
- `RemoteConnection`: promises settle, time limits pass, events are dispatched and
  timers fire; the network also closes the sockets of a window that is gone, as an
  operating system does. A server that is told so closes its side as well
  (`ServerSeesClose`); a socket that is only half-closed would stay with it until
  something is written to it. No fairness of sending, of trouble or of the network
  closing anything else.
- `ExtensionHost`: the same for the client and the server; the fork succeeds or
  fails, messages between the processes arrive, the exit of the process is seen.
- `WebSocketSocket`: zlib, the kernel, the FileReader and the two event loops make
  progress, and node tells of the end of the other side. Its socket closes by
  itself only when it is destroyed, the network is cut, or both directions have
  ended (`MustClose`): a half-closed one may stay open. Nobody has to write, close
  or dispose.
- `IpcChannels`: microtasks run, both ends read, the timer and the flush of pending
  requests run, a service answers. No fairness of registering a channel.
- `Storage`: timers fire, a transaction commits, fails or aborts, its report
  comes, a settled `close` closes the database. No fairness of writing.
- `ExtensionDownloader`: requests and streams make progress unless they fail or are
  cut off.

All of it is weak fairness of steps that stay enabled until they happen: timers,
events and promises of an event loop, each of which runs once due.

## What is proved

The modules `...Proofs` and `PersistentProtocolTimers` hold theorems for every
value of the constants, from the assumptions named in the modules they are about.
These say that bounds are numbers, that the chosen sets are subsets of what they
choose from, and, with real work to do, that the first socket is a socket, that
`None` is no value, and that an archive is a sequence of entries. `TotalFills` is
assumed to be a BOOLEAN and nothing else.

| Module | Theorems |
| --- | --- |
| `PersistentProtocolProofs` | `TypeCorrect`, `DeliversInOrderOnce`, `ForgetsNothing`, `Implementation` (the refinement of `ReliableChannel`), `LeavesNoGap` (`NoGap`, when no other reader takes messages off a socket) |
| `PersistentProtocolTimers` | `NoticesDeadSockets`, `OwesNoForgottenAck`, `SchedulesWrites` |
| `WebSocketSocketProofs` | `TypeCorrect`, `Orderly` (`InOrderOnce`), `DrainIsTrue` (`DrainedMeansWritten`), `DisposesLate` (`DisposeWaits`) |
| `RemoteConnectionProofs` | `TypeCorrect`, `Answers` (`AnswersMatch`), `ReadsNoData` (`HandshakeReadsNoData`), `Agrees` (`Agreement`); `Graces` (`GraceRunsIffLost`) for a server whose close events keep their place; `Notices` (`ClientNotices`) and `StopsForGood` (`NoNewAttempt`) whichever close events overtake data and whatever goes wrong |
| `ExtensionHostProofs` | `TypeCorrect`, `LosesNothing` (`HandoffLosesNothing`), `GraceTime` (`GraceRunsIffLost`), `Refuses` (`RefusedOnlyWhenOver`) |
| `IpcChannelsProofs` | `TypeCorrect`, `RunsWhatIsWanted` (`RunsIffWanted`), `AnswersAreDue` (`AnswerIsDue`), `FiringsInOrderOnce` (`HeardInOrderOnce`) |
| `StorageProofs` | `TypeCorrect`, `SchedulesUpdates` (`PendingScheduled`), `KeepsItsPromise` (`FlushedIsStored`), `OthersAreTold` (`OthersHear`), `Implementation` (the refinement of `WriteBehind`) |
| `ExtensionDownloaderProofs` | `TypeCorrect`, `Counts` (`CountsTheExtracted`), `ExitsWhenExtracted` (a run that exits has read every archive to its last entry) |

### The arguments

**PersistentProtocol.** The properties of delivery are not inductive: a state in
which a message on its way carries the wrong data, or acknowledges what was never
sent, satisfies `InOrderOnce` and leads out of it. `IInv` adds three things.
`EndInv`: the counters of an end agree with its histories, its queue holds exactly
the ids above `outgoingAckId` (`QueueExact`), and its queue and its writer hold
only good messages. `GoodPipes`: so does every socket, closed, abandoned or
current; a good message acknowledges no more than its writer has received and, if
it is Regular, carries what was sent under its id. `Paired`: what one end knows to
be delivered, what the other delivered and what was sent are ordered, and the
delivered contents are those sent. The first two are what makes a replay, a
duplicate or a late acknowledgement harmless: they say the same thing whenever
they are read. There is a lemma per operation (it keeps `EndInv` and changes the
histories by sending, by receiving or not at all), one per kind of step (it has
such an effect and writes only good messages), and one that such a step keeps
`IInv`. The refinement reads the same effects as steps of the channel. The timer
invariants concern one end at a time and are inductive together (`Attended`).

`NoGap` looks only at the socket that is read now and says nothing of what is
sent next, so it is not inductive either. `GapFree` says it of every socket, also
those the reader has not come to yet, and adds that an end that writes is complete
(`Flows`): the last id it sent has arrived or is on its socket or in its writer.
Sending keeps this because of the completeness, a replay because it begins right
after what the other end has acknowledged, the loss of a tail because a front part
of such a sequence is one too, and a suppressed write because the end of the
reconnection restores the completeness before anything new is written. Only a
reader that takes a message out of the middle breaks it, which is why the theorem
assumes `~Lossy`; closing, pausing and disposing are free.

**WebSocketSocket.** `IInv` says where each message is. `WriteSide`: what was
handed over, the FileReader's queue, the kernel, node's buffer and the write queue
count on from each other, so nothing is out of place as long as nothing has ended;
what is behind the mark of a drain is not in the queue any more. `ReadSide`: the
same for the parts on the wire, in the read queue and handed over, and the RSV1
bit of the first part of a message together with `compressed` determines how each
later part has to be read.

**RemoteConnection.** `IInv` says of each socket how far its handshake has come:
from what it carries (`Carried`: data goes up only after the end of the handshake,
an `ok` comes down only then, a `sign` comes down once), from what has come to the
client (`Came`) and from what the client has done with it (`Attempt`). `Moved`: of
the sockets whose handshake has ended only the one the connection has moved to is
open. `ServerSees` adds that a close event is the last thing to come over a socket
of a server that is not eager, and is what `Graces` rests on. `Notices` and
`StopsForGood` need no invariant but the types: `ClientAlone` says that the server
and the network do not move the loop, `Phases` which phase each step of the client
leads to and on which conditions.

**ExtensionHost.** A socket is in one place at a time (`Places`: awaiting a
port, draining, `_connectionData`, or a message to the process) and its last
handshake message comes once (`Requests`), so that it never comes back to the
server. `Talk`: until it has arrived its client is paused, and a Resume comes only
from the process. `Over` and `Phases` relate the table, the refusals and the
process. `GraceRunsIffLost` is inductive with these.

**IpcChannels.** `IInv` follows one id at a time through the promises of the
client, the requests on their way, and what is pending, active or running on the
server. A call is in one of these places, and answered only when in none
(`CallInv`); a call that is given up has its cancel behind its request. The
requests for an event alternate between listening and disposing, the first of them
fits what the server has (`Held`) and the last what the client wants (`Leads`):
each of the two ends can take its step without knowing the other's. Both parts
except the ids in `abandoned`. That a list which keeps its elements and is filtered
keeps their order is proved by counting positions (`Rank`), since induction over
sequences is not available.

**Storage.** `IInv` looks at one window at a time: running update and pending
update, applied to the database in this order, give what the window has in memory
under its own keys (`Agree`); what another window stores or announces does not
touch them (`Foreign`). From this the database goes from one memory to a later
one. `OthersHear` needs a second invariant (`HearInv`) that follows the last event
about a key through the inboxes.

**ExtensionDownloader.** `Extraction`: the count is the number of installed
archives, an installed archive was read to its end, and one that is opened or
extracted has its file. It does not matter to it whether the total bar fills.

### What is only checked by TLC

All liveness properties and `ENABLED`, which the prover does not handle; what a
recursive definition computes for every input, which would need induction over
data (the modules have none that matter). Every safety property of a run, every
invariant and both refinements, is also the statement of a theorem. The type
invariants of `PersistentProtocol`, `RemoteConnection`, `WebSocketSocket`, `Storage`
and `ExtensionDownloader` are proved and in no run. Every inductive invariant was
checked with TLC on the instance of its run before it was proved.

## Findings

1. `flush`: the downloader exits when the read streams have ended, not the write
   streams (`util.ts:193`, `index.ts:107`).
2. `close`: `Storage.close` waits for ever when an update is running as it is
   called and the update after it fails: `Throttler.queue` returns a promise that
   nobody rejects (`vs/base/common/async.ts:192`), so the database is not closed,
   against the comment at `storage.ts:280-282`.

### Also seen

Behaviour of the code that the model has, or that reading it showed, and that no
property denies.

- The loop checks `_permanentFailure` before two awaits and not after them. If
  another connection of the window fails for good in between, the attempt goes on
  and revives the protocol that was just disposed
  (`remoteAgentConnection.ts:624-634`; the comment at line 602 says "no more
  attempts!"). No further attempt begins: `NoNewAttempt` is checked with such
  failures and proved for every `Trouble`.
- A close event can overtake the last message of a handshake, and is then over when
  the reconnection ends. At the browser it always may, since the close event does
  not wait for the FileReader (`browserSocketFactory.ts:151`): a close event that
  comes while the loop waits for that message is swallowed by the guard of
  `_beginReconnecting` (`remoteAgentConnection.ts:587-591`), the message ends the
  loop, and the client sits on a dead socket until something it sends is not
  acknowledged. `ClientNotices` says that this is the only way to get there. A
  server may see the same while it inflates the message
  (`vs/base/parts/ipc/node/ipc.net.ts:250`): the `ManagementConnection` adopts a
  dead socket and schedules no grace timer (`remoteExtensionManagement.ts:81`).
  `GraceRunsIffLost` is therefore checked and proved for a server whose close events
  keep their place.
- With `--cache` a second run of the downloader fails in `mkdirSync`
  (`index.ts:53`, EEXIST); the help text (`index.ts:25`) says that it "will not
  delete the downloaded extensions when run".
- `folderRegex` has the `g` flag (`util.ts:132`), so a folder entry tested right
  after another one that is not shorter is taken for a file. The model has this
  (`AfterTest`, `OnWriteError`); it is one of the ways in which a run of `install`
  is brought down. An archive whose last entry is a folder is never counted
  (`util.ts:138`); the archives of the runs end in files.
- The downloader waits for a total bar that gets `percentage(1, n)` for each of `n`
  extensions (`index.ts:96-98`, `util.ts:205-207`). In IEEE doubles the sum falls
  short of 1 for `n` = 10, 13 to 15, 22 to 24, 26 to 31 and others, among them the 24
  extensions of the repository's own list; `process.exit` is then not reached. A
  response that ends before its time has no listener (`util.ts:68-101`), so its file
  is never finished and its extension never installed. `EventuallyEnds` names these
  two ways of staying, and the folder above.
- `Storage.flush` and `whenFlushed` return at once when nothing is pending although
  an update is running (`vs/base/parts/storage/common/storage.ts:335`,
  `vs/platform/storage/common/storage.ts:157`). `FlushedIsStored` speaks of the
  promises that had to wait.
- An update that fails is dropped while the cache keeps its values
  (`storage.ts:313`), and a later `set` of the same value returns early. A
  transaction that aborts without an error event is never reported
  (`vs/base/browser/indexedDB.ts:124` sets no `onabort`). Two
  windows that write the same key may end with different caches
  (`storage.ts:132`). The properties speak of windows whose transactions do not
  fail, and of keys with one writer.
- On Safari the storage service closes its databases "to cancel any pending
  transactions" (`storageService.ts:110-113`), but `IndexedDBStorageDatabase.close`
  awaits the pending update first (lines 322-330).
- IPC: a request given up before it began is not given up. A cancel while the
  request is pending on the server is ignored, and a request whose channel timed
  out is executed all the same when the channel is registered
  (`vs/base/parts/ipc/common/ipc.ts:427`); a cancel between the resolution of
  `whenInitialized` and its reaction is missed; the flush of a registered channel
  runs after `dispose`; an event that is listened to, left and listened to again
  while its first request is pending is subscribed twice. `RunsIffWanted` and
  `HeardInOrderOnce` except exactly these (`abandoned`).
- `NodeSocket.drain` awaits `drain`, which node emits only if a write returned
  false: with less than the high-water mark buffered, or on a closed socket, the
  promise waits for the next one (`vs/base/parts/ipc/node/ipc.net.ts:161`), also
  if nothing waits to be drained (`vs/base/parts/ipc/common/ipc.ts:101`). It is
  also fulfilled by `end` (`ipc.net.ts:158`), when the other side has half-closed the
  socket and node may still hold data; `DrainedMeansWritten` then speaks of the write
  queue only.
- A `WebSocketNodeSocket.drain` called while `dispose` waits for the write queue is
  never told that it is done: the listener of `dispose` comes first and disposes of
  the flow manager's emitter (`ipc.net.ts:254-261`), which empties the delivery queue
  (`vs/base/common/event.ts:637-639`). `EventuallyFinished` speaks of drains that
  were there before.
- `WebSocketNodeSocket.dispose` waits for its own write queue, then `NodeSocket`
  destroys the socket with what node still has buffered (`ipc.net.ts:255`,
  "Wait for any outstanding writes to finish before disposing").
- `ManagementConnection._cleanResources` ends the socket right after the
  Disconnect, which may still be in deflation (`ipc.net.ts:327`).
- When `start()` fails, nothing removes the `ExtensionHostConnection` from the
  table (`extensionHostConnection.ts:249`).

## Not modelled

- Byte framing, zlib errors, ping and pong, and the 32-bit wrap-around of ids: the
  first ones do not interact with what is modelled, the last takes four thousand
  million messages.
- `ExtensionHostPersistentConnection` of the browser runs the same loop as the
  management connection with another first message; `ExtensionHost` models the part
  that differs. First connections, tunnels, plain HTTP requests and the auto
  shutdown of the server are left out.
- A channel whose `listen` throws, out of `onEventListen` or in the middle of
  `flushPendingRequests` (`ipc.ts:420`, `:462-471`); channels are taken to return an
  event.
- `IPCServer`, routing, `ProxyChannel` and the serialisation above the channels.
- The in-memory file system, a fixture that serves a folder to the tests of web
  extensions; the server of `vscode-test-web` and the Dockerfile runner, which keep
  no state between requests; the Dockerfiles and shell scripts, which run once and
  in order.
- The rest of VS Code (editor, workbench, bundled extensions, build): almost all of
  the lines of this repository, kept as a vendored checkout. It reaches this system
  only through the interfaces above, and runs in one thread of one window.
