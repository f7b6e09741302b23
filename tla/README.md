# PonsWarp Grid: TLA+ models, checks and proofs

PonsWarp Grid transfers a file between browsers or command-line peers in
hash-verified pieces, over WebRTC data channels or WebSockets, with a signaling
server that only introduces the peers. This directory holds TLA+ modules
translated from its TypeScript sources, TLC configurations that check them on
small instances, and TLAPS proofs for all values of the parameters. Paths below
are relative to `src/`.

## 1. Inventory

| Part | Source | State it keeps | Operations | Hard behaviour | What makes it correct |
|---|---|---|---|---|---|
| Direct request windows | `packages/core/src/index.ts` (`PonsWarpEngine`) | `outstandingRequests`, `directWindows` (cap, generation, queue, error, disabled, exhausted), `directTimers`, `directTombstones`, `disposed` | `requestPieceWindow`, `requestNextPiece`, timers, `cancelDirectRequests`, `flushDirectLifecycle`, `dispose` | a promise chain per window; timers, answers and cancellation interleave at every `await`; sends and saves fail half-way | cap kept, one terminal event per request, nothing lost, bounded retries, dispose returns |
| Piece table and scheduler | `PieceManager`, `OwnerFirstScheduler` | status and retry count per piece | mark, reset, import, export, `next` | shared by all windows; no status is checked before it is overwritten | verified pieces stay verified and stored; nothing stranded |
| Receive pipeline | `receivePiece`, `handleTransportBinary` | the piece in flight | verify, write or delete, persist, acknowledge, broadcast | five awaits, each of which may see the request settled or the storage fail | settled requests write nothing; verified means stored |
| Chunk stream, provider send queue | `appendIncomingChunk`, `queueRequestedPiece` | `pendingChunks`, `incomingChunks`, `pieceSendQueues` | header, frame, refusal, send | headers and frames handled by separate un-awaited handlers | frames go to their own header; a failed send does not stop the queue |
| Grid scheduler | `requestNextGridPiece`, `maybeScheduleEndgamePiece`, `PieceAvailabilityTable`, `PeerHealthTable` | providers, leases, health | window, endgame, lease expiry, refusals, re-requests | leases outlive or precede the answer, chunks come after both; endgame answers race; the loop reads progress between the end of an answer and its event | limits per peer, no slot and no lease kept, a verified piece stays so, the loop is woken |
| Session, resume, persistence | `joinSession`, `restoreResumeState`, `persistState` | saved piece map | save, restore, discard | crash between write and save, overlapping saves | after resume, verified = valid bytes in storage |
| Storage adapters | Memory, OPFS, IndexedDB in core; `packages/cli/src/node-file-storage.ts` | piece files, offset output, state file | write, read, delete, assemble | write at an offset and state rename are two steps | state never claims what was not written |
| Data channel | `packages/webrtc/src/index.ts` | send queue, pending bytes, drain waiters, AIMD window | send, drain, close, dispose | waiters versus close; byte accounting on every exit | bytes never leak, every send settles |
| Signaling rooms | `packages/signaling/src/{index,server}.ts` | sessions, peers, connections | create, join, relay, leave, detach, eviction, expiry | news and relays cross joins; eviction announces a departure twice | the room is exactly the connected members |
| Mesh of pages | `apps/demo/src/main.tsx` (`handleOwnerSignal`, `handleReceiverSignal`) | room roster, peer connections | handlers of the signaling messages | handlers are not awaited and overlap; two receivers meet | every pair connects once, without glare |
| Reconnecting client | `packages/signaling/src/index.ts` | state, socket, attempt | connect, close, reconnect | late close events, close during the delay | one live socket, none after close |
| Transfer controller | `apps/demo/src/direct-transfer-controller.ts` | pending windows, deferred events, cleanup queue | `requestWindow`, `failWindow`, `dispose` | events before the generation is known, counting terminals | every call ends once and leaves nothing behind |
| Node transport | `packages/cli/src/node-websocket-transport.ts` | connections, queues | connect, accept, send, close | same-named connections, one accepted while another is dialed, close by name | the map names usable connections, none newer is missing |
| CLI process | `packages/cli/src/cli-runtime.ts` | source, transport, engine, signal handlers | start, join, seed, cleanup, shutdown | a signal or an error at any await | all is released, a signal ends the process |
| Demo page | `apps/demo/src/main.tsx` | current runtime, generation, panel | share, receive, leave | a second attempt between any two awaits of the first | no runtime left open; the newest one is served |
| Share registry, coordinator commands | `packages/signaling/src/server.ts`, `packages/cli/src/coordinator-runtime.ts` | shares with a time to live | put, get, cleanup; node, publish, share, get, download | a lost answer repeats a request; a share changes between two | what is reported is recorded; the file is the one resolved |
| React hooks, rendering, scripts | `packages/react`, `apps/demo`, `scripts` | little | glue, rendering, QA | none of their own | not modelled (section 7) |

How they interact: an application (the demo's controller or the CLI runtime)
calls `requestPieceWindow` or `requestGridPieceWindow` and listens to engine
events. The engine sends `PIECE_REQUEST` through a transport; the provider's
engine answers with chunk headers and binary frames, which the receiving engine
assembles, hashes, stores and acknowledges. Every change of the piece table is
followed by a save of the whole session state. Windows share the piece table and
the piece store, and nothing else; within a window, top-ups, expiries and
retries run one after another on a promise chain, while answers, flushes and
cancellations run outside it. Pages find each other in a room of the signaling
server, which relays their offers and answers; a share registry leads from a
short code to that room. Command-line peers dial each other from a descriptor.

The list of hazards, each at its line with the properties aimed at it, is
`hazards` in `PROJECT.json`.

## 2. The modules

| Module | Extends | Models | Proofs |
|---|---|---|---|
| `DirectLifecycle` | | windows, piece table and receive pipeline together, because every property worth stating relates them | `DirectLifecycleProofs` |
| `RequestLedger` | | abstract: a request is created in a window with room, then settled once with one event, displaced by a rival that obtained the piece, or forgotten by dispose | |
| `DirectRefinement` | `DirectLifecycle` | the mapping onto `RequestLedger` | `DirectLifecycleProofs` |
| `TransferController` | | the demo's controller over the events of the engine's windows | `TransferControllerProofs` |
| `GridScheduler` | | the grid half of the engine and the join loop of the CLI | `GridSchedulerProofs` |
| `ResumeStorage` | | what is persisted, and a receiver that crashes and is run again | `ResumeStorageProofs` |
| `DataChannelQueue` | | open component: the send queue of a data channel | |
| `ChunkStream` | `DataChannelQueue` | provider and receiver of one peer over that channel | `ChunkStreamProofs` |
| `SignalingRoom` | | open component: the server, for one session | |
| `RoomMesh` | `SignalingRoom` | the pages in the room and their connections | `RoomMeshProofs` |
| `SignalingClient` | | the reconnecting client | `ClientProofs` |
| `CliNode` | | one CLI process and its transport | `CliNodeProofs` |
| `ShareRegistry` | | open component: shares by code | |
| `CoordinatorClient` | `ShareRegistry` | the coordinator commands | |
| `PageRuntime` | `ShareRegistry` | the page's attempts and runtimes | |
| `ShareFlow` | `PageRuntime`, `CoordinatorClient` | both around one registry | `ClientProofs` |

Each checked module has an `MC` module with the instances. Open components leave
who drives them to the module that extends them, and state their own invariants,
which that module checks.

Left to do, in order of worth: ICE candidates and the states of
`RTCPeerConnection` under `RoomMesh`; the partial-resume switch of the page
(`main.tsx:1618`); more than one member of a grid in one model (a receiver that
provides while it receives).

## 3. Models

### `DirectLifecycle`

State. `status`/`retries` are the `PieceManager`, `stored` the pieces in the
storage adapter, `outstanding`/`direct`/`timer`/`tombstones` the engine's maps,
`open`/`disabled`/`failed`/`exhausted`/`generation` the window records,
`queue`/`running` the window's promise chain, `phase` the engine's `disposed`
flag with the time dispose takes. A request is named `<<piece, n>>`. `tx` and
`rx` say at which `await` the `requestNextPiece` call and the receive pipeline
of a request are. `terminals` records `requestTerminal` events; `issued`,
`fills` and `faults` count for names and bounds.

| Code | Model |
|---|---|
| `requestPieceWindow` | `RequestPieceWindow` queues a top-up; `RunTask`/`FillTurn`, `FillContinues` are its loop |
| `requestNextPiece` | `RequestNextPiece` (to the send), `SendSucceeds`, `SendFails`, `RequestSaved`, `RequestSaveFails` |
| `enqueueWindow` | `Enqueued`, `Skipped`, `RunTask` |
| `armDirectTimer`, `expireDirectRequest(s)` | `TimerFires`, `FlushExpires`, `ExpireDirectRequest` |
| `finalizeDirectRequest` | `FinalizeDirectRequest`, and `RetryTurn` for the retry it queues |
| `emitDirectLifecycleError` | `LifecycleError` |
| `cancelDirectRequests`, `flushDirectLifecycle`, `dispose` | `CancelDirectRequests`, `FlushReports`, `DisposeStarts`, `DisposeRejects`, `DisposeEnds` |
| `PIECE_REJECT`, `rejectIncomingChunk` | `ProviderRejects`, `RejectIncomingChunk` |
| `handleTransportBinary`, `receivePiece` | `AnswerArrives`, `VerifiedTooLate`, `HashMatches`, `HashMismatches`, `WriteLands`, `MarkVerified`, `ReceiveFails`, `PieceSaved`, `PieceAcknowledged`, `DeleteLands`, `RejectSaved`, `RejectSaveFails` |

Abstractions. Hashes, bytes, peers' names, progress, health and performance
events are left out: a hash matches or not, an answer is complete, refused or
never comes. A provider answers a request once and the transport neither
duplicates nor reorders (one channel per peer). Time is abstract: a request may
become overdue at any moment, so `FlushExpires` needs no clock. Intermediate
statuses `receiving`/`received` are never set by this code path. The write of a
piece takes effect some time after the call and before its promise is
continued; likewise the deletion. The owner does not call `requestPieceWindow`
again while it disposes the engine. The 4096-entry limit of window and tombstone
metadata is not reached.

### `TransferController`

State. `state`, `disposal`, `aborted` are the controller's flags; `pending` its
map of `Active` entries by window key, with each entry's generation, `scheduled`
count, terminals and deferred events; `promise` and `timer` the result and the
30 s timer of a call; `jobs` the cleanup queue and `working` the call whose
window a `failWindow` job is flushing; `stage` the `await` a call of
`requestWindow` is at. `calls` and `window` name the calls. The engine is
reduced to what its events depend on: requests outstanding, a top-up in
progress, retry tasks, generation, and the disabled, failed and exhausted flags
of each window.

| Code | Model |
|---|---|
| `requestWindow` | `RequestWindow`, `RequestWindowAgain`, `ScheduledReturns`, `Rechecked`, `RecheckFails`, `ResultResolves`, `ResultRejects`, `Catch` |
| `handleTerminal`, `handleExhausted`, `handleError`, `completeWindowIfSettled` | `Emit`, `Handle`, `Completing` |
| `failWindow`, the cleanup queue | `FailJob`, `JobFindsNothing`, `JobTakesCall`, `JobRejectsCall`, `JobDone` |
| timer, abort, `failPeer` | `Timeout`, `Abort`, `TransportFatal` |
| `dispose` | `Dispose`, `DisposeRuns`, `DisposeEnds` |
| engine events and top-ups | `FillIssues`, `FillStops`, `FillFails`, `FillRefused`, `RequestEnds`, `RetryRuns`, `CancelByOwner`, `OwnerFlush` |

Abstractions. All calls are for one file of one peer. Which piece is requested,
how often it may be retried and the table of pieces belong to `DirectLifecycle`:
here a top-up may stop at any time and a terminal may or may not announce a
retry. A flush waits for the tasks queued in the window it is about; what other
windows do meanwhile is left open. Metrics, the run artifact and the forwarding
of events to listeners are left out.

### `GridScheduler`

State. `eng` is the engine's part that changes without an `await` in one step:
`status`/`retries` (`PieceManager`), `lease` (`PieceAvailabilityTable`), `open`
and `tomb` (`outstandingRequests`, cancelled rivals), `issued` and `peer` of each
request. The scheduler is a set of operators on that record, as the code's
methods are calls without an `await`. `advert` holds the piece maps, `due` the
requests whose lease time is over, `rx` the await a receive pipeline is at,
`pendingChunks` the header of each provider that waits for its frame, `asides`
the sends outside the pipelines (the refusal of a chunk, a re-request without
grid options), `driver`, `seen`, `any` the join loop of the CLI and its current
window call. `eng.plain` are the requests that carry no grid options.

| Code | Model |
|---|---|
| `requestNextGridPiece`, `maybeScheduleEndgamePiece`, `expireRequestLeases` | operators of the same names, used by `WindowTurns`, `WindowRequests` and `RetryGrid` |
| `requestGridPieceWindow`, the join loop, `waitForProgress` | `LoopTurns`, `WindowTurns`, `WindowRequests`, `WindowSettles`, `ProgressTimeout`, `WakesDriver` |
| `receivePiece`, `handleTransportBinary` of a grid answer | `Answer`, `VerifyPasses`, `VerifyFails`, `DeletePieceSettles`, `RejectSaved`, `WritePieceSettles`, `SaveSettles`, `BroadcastSettles`, `ResponseSettles` |
| chunks (`handleTransportMessage`, `appendIncomingChunk`, `rejectIncomingChunk`) | `Answer`, `ChunkHeader`, `LateFrame`, `StrayHeader`, `MalformedFrame`, `RejectIncomingChunk`, `RefusalSettles` |
| `requestNextPiece` as a re-request | `RequestNextPiece`, `RetryPlain`, `AskSettles` |
| `PIECE_REJECT`, `PIECE_MAP`, the clock | `ProviderRejects`, `UpdatePeerPieceMap`, `LeaseFallsDue` |

The header of a chunk outlives its request: neither a lease that expires
(`core/src/index.ts:1454`) nor a `PIECE_REJECT` (1662) clears `pendingChunks`.
When the frame then turns out to be malformed, `rejectIncomingChunk` (1752)
does not ask whether the request is outstanding: it fails the piece, even a
verified one, sends its refusal, and takes the grid options of the re-request
from the entry that is gone, so the piece is asked for again by
`requestNextPiece` (1775), which knows no lease and no cap. `PerPeerCap` is
therefore about the requests that carry grid options, and
`VerifiedLostOnlyToRival` names the frame as the one other cause. A refusal's
`progress` event (1771) is emitted like any other, and wakes the loop only if it
has news.

Abstractions. Chunks before the last of an answer are left out. Health scores
only order the providers of a piece, and follow response times the model has not
got: any eligible provider may be chosen. What the code does and a reader may
not expect: both scheduling functions return before leases are expired when
nothing is missing; an endgame request takes no lease; re-requests bypass
`maxInFlightTotal`; a piece beyond its retries, ranked first, ends the call
though others could be requested; a cancelled rival's lease stays until it
expires; a provider whose source throws sends no refusal.

### `ResumeStorage`

State. `disk` what each piece's place in the storage holds, `saved` the
persisted session state, `offsetFile` the second state file of the CLI; all
else is the memory of a process: `status`/`retries`, `offset` (the adapter's
written set), `todo` (the restore loop), `work` and `flight` (pipelines and the
saves they wait for), `recording` (offset states being saved).

| Code | Model |
|---|---|
| `joinSession`, `importPieceMap`, `restoreResumeState`, `resumeFile` | `JoinSession`, `RestorePiece`, `Restored`, `ResumeLocally`, `RestoreLocalEnds` |
| `prepareOutputFile`, rename of the output | `PrepareOutputFile`, `Complete`, `Rerun` |
| `persistState`, `saveState` | `Saves`, `SaveLands` |
| `writePiece`, `deletePiece`, the offset state | `WriteLands`, `MarkVerified`, `CorruptAnswer`, `DeleteLands`, `RecordLands` |
| a kill, lost or torn bytes | `Crash`, `BytesLost` |

Abstractions. A file written under another name and renamed changes at once;
saves that overlap land in any order. Requests are one pipeline per piece. A
page's local restore is modelled before a transfer, not beside one.

### `DataChannelQueue` and `ChunkStream`

The queue is `DataChannelWrapper`: `pending`/`bytes` the queue and its counter,
`pump`/`current` the loop of `drainSendQueue` and the send it has taken,
`channel`, `buffer` and `lowEvent` the browser's side, `wire` what is on its way.
`Enqueue`, `PumpTakes`, `PumpSends`, `BufferDrains`, `HandleDrain`, `ChannelFails`
are `enqueueSend`, the two halves of the pump, the browser, the drain event, and
`handleClose`, `handleError` or `dispose`. `ChunkStream` puts the provider
(`chain` is `pieceSendQueues`, `job` the send a chunk loop waits for) and the
receiver (`active`, `header`, `chunks`: `outstandingRequests`, `pendingChunks`,
`incomingChunks`) on top of it; `OnHeader`, `OnFrame`, `OnRefusal` are the
handlers of the three kinds of message. A frame that is not the announced one may
happen to have the announced size, or not. `unread` are the
requests whose source could not be read. The congestion window is left out: it
only changes how long a sender waits.

### `SignalingRoom` and `RoomMesh`

The server is one thread, so each frame, close event and clean-up tick is one
step (`HandleCreateSession`, `HandleJoinSession`, `HandleRelay`, `Detach`,
`Evict`, `Expire`); `inbox`/`outbox` are the ordered streams to and from each
client. Of a page, `roster` is `roomPeerIds`, `known` whether the manifest is
set, `link[p][q]` p's side of the connection to q, `task` the handler of
`SESSION_JOINED` that waits for the engine or for an offer. `SessionJoined`,
`PeerJoined`, `PeerLeft`, `OfferArrives`, `AnswerArrives` are the handlers up to
their first await, `EngineJoins`, `OfferReady`, `AnswerReady` what follows it.
`Evict` is about connections that have joined; one that has not joined is closed
by the same tick, which is no more than its `Detach`. ICE candidates are left
out; an answered offer counts as connected. A socket that is lost comes back, if
at all, without joining again, so its peer is gone for the room.

### `SignalingClient`

`Connect`, `DelayEnds`, `Close` are the calls and the timer; `Opens`, `Errors`,
`Closes` are `onOpen`, `onError`, `onClose` of a socket, with the listeners each
removes (`listens`); `Fails` and `Drops` the network. A failed socket fires error
and later close, and anything may come in between. The application connects
again only after a failed connect and closes once; what happens otherwise is in
section 7.

### `CliNode`

`phase` and `target` are where `runSend` or `runJoin` is and whom it dials, `file`
and `source` the handle of the shared file and whether it is assigned to the
variable that cleanup reads, `stage` the cleanup step awaited, `looked` which
await of `runSend` was pending when cleanup read that variable, `server`,
`handshakes`, `conns`, `connections` the transport. Actions bear the names of the
code (`AcceptSocketConnection`, `SendRaw`, `Drain`, `Cleanup`, `Shutdown`, ...).
`OpenSource` and `CreateSession` are two awaits with the file open between them,
and `Fail` may strike at either. A dial is two steps, as in the code: `Connect`
asks the map for an open connection (`node-websocket-transport.ts:125`), and
`DialReturns` enters the WebSocket in place of whatever the map has by then (154).
A WebSocket closed by its remote side stays in the map until its close event
(`WebSocketCloses`, then `SocketCloses`), and text no handler can take closes the
peer by name whichever kind of connection it came by (`BadFrame`). Promise
callbacks run before other events, so a frame is written or queued within the
step that sends it. Frame
encoding and the session protocol above it are left out.

### `ShareRegistry`, `CoordinatorClient`, `PageRuntime`, `ShareFlow`

The registry maps codes to a file and the kind of its provider. A coordinator
command is its sequence of requests; the coordinator is not in the repository
and carries out a request, refuses it, or does so and its answer is lost, after
which the command repeats it once. `published` are the
files on its record; `ReportedIsRecorded` looks at no more than that, of a share
too. A page is its attempts: `stage` is the await
of `createWebShareLink`, `startSignaledSender`, `resolveWebGetInput` or
`joinSignaledReceiver`, `ticket` its generation, `parts` what it has built,
`current` the runtime reference, `disposal` the disposals under way, `transfer`
the loop of `completeReceiverTransfer`, `panel` what is shown.

## 4. Runs

Deadlock is not checked: in every model the system may stop (nothing left to
do, a process that has ended).

| Run | Instance | Question |
|---|---|---|
| `direct_windows` | 1 piece, 2 windows (symmetric), cap 1, 1 retry, 2 top-ups, 1 cancel, 1 fault | two providers competing for a piece while a call of an adapter fails: `WindowsAreBounded`, `RequestAccounting`, `StatusIsBacked`, `SettledNeverWrites`, `RetryOnlyInLiveGeneration`, and the refinement `ImplementsLedger` |
| `direct_liveness` | 2 pieces, 1 window, cap 2, no retry, 1 fault | `OutstandingSettles`, `DisposeReturns` |
| `controller_calls` | 1 window, cap 2, 2 calls, 3 requests | every way a call can fail, against its terminals, a later call on its key, and dispose: `OpenCallCanEnd`, `EndedIsClean`, `CallReturns`, `ControllerDisposeReturns` |
| `grid_join` | 2 pieces, 2 providers with all pieces or none, 1 per peer, 2 retries, 2 troubles, 1 fault | `RequestsAreBounded`, `ClaimsAreLive`, `ProgressIsAnnounced`, `VerifiedLostOnlyToRival` |
| `grid_stall` | the same, 1 retry, no trouble, no fault | the stall of section 6 |
| `resume` | 2 pieces, all adapters, 2 troubles, 2 restarts | `TableIsTrue`, `RetriesArePaidFor`, `RestoreKeepsGoodPieces`, `Completes` |
| `resume_offset` | 2 pieces, the CLI's adapter, 1 restart | the discarded pieces of section 6 |
| `chunk_stream` | 3 requests of 2 chunks, one of them of the grid, capacity 3 with marks 2 and 1, 1 other message, 1 channel failure, 1 trouble | `QueueIsSound`, `AssemblyIsSound`, `RequestsAreAnswered`, `SendsSettle` |
| `room_mesh` | an owner and 3 receivers, room of 3, 1 trouble | `RoomIsShared`, `OffersAreFresh`, `AlarmHasCause`, `MeshIsComplete` |
| `signaling_client` | 7 sockets, 2 delays, 5 drops | `PursuitIsSound`, `QuietCloseIsFinal`, `ComesBack` |
| `cli_node` | the owner and a peer, 3 connections, 1 handshake, 2 queued frames | `MapIsSound`, `OverIsReleased`, `SignalEnds`, `SendsSettle` |
| `share_flow` | 2 starts of attempts or commands, 2 files | `PageIsSound`, `RestsOnNewest`, `CommandsKeepTheirWord`, `EverythingEnds` |

Each property is stated in words above its definition; several are conjunctions
of named parts that belong together, and the type invariant of a module is a
part of its first one.

Bounds. `MaxFills`, `MaxGeneration`, `MaxFaults` bound calls of
`requestPieceWindow`, cancellations per window and failing adapter calls;
`MaxCalls`, `MaxRequests` the calls of the controller and the engine's requests;
`MaxTrouble` what the network and the providers do wrong; in `GridScheduler` it
covers corrupt answers, refusals, malformed chunks, late leases, new piece maps
and the faults of pipelines and loop together, and only failed sends of `asides`
come on top, within `MaxFaults`; `Maps` the piece maps there providers announce;
`MaxRestarts` crashes and reruns; `MaxFailures` failures of a channel;
`MaxSockets`, `MaxDrops` the life of a client; `MaxConns`, `MaxHandshakes`,
`MaxSends` that of a transport; `MaxAttempts`, `MaxCommands`, `MaxStarts` what
users start. `MaxRetries` is the engine's own parameter (3 by default), and
`MaxRetries = 4` in `resume` is more than two troubles and two restarts can
spend. `Fragile` names the peers of the mesh that may leave, be evicted or fail:
the owner and the middle receiver, which offers to one receiver and is offered
to by the other; the room may expire in any case. `OnlineFile` is the file of a
node that is online from the start, so that two starts suffice for a `get` that
meets a change of the node. Seven sockets are more than five drops can use, so
`ComesBack` never meets the bound.

Why they are enough. One piece already has two or three requests alive in
different phases, which is what the races of the windows need; two windows add
competition for it, and any adapter call may be the one that fails. Two pieces
fill a grid window of two, with the endgame open throughout; two troubles are what
a malformed chunk of an expired request takes (the expiry, then the chunk), and
providers that have all pieces or none leave the choice of the piece to its
retries and its place. Three requests are
one served, one refused or cut, and one after it. Three receivers in a room of
three make one of them the one too many, and give a middle one both roles of
the mesh. Three connections of two names are a replacement and a stray, be it of
an accepted connection or of a dialed one. Two
attempts are one superseding the other at each of its awaits.

Fairness asks only what the JavaScript runtime, the browser and the adapters
give: continuations run, armed timers fire, events are delivered, a send, hash
or storage call settles either way, a file closes. Nothing is asked of the
provider (except in `Completes`, which is about a provider that answers), of
the callers of public methods, of the user, or of remote processes.
`OutstandingSettles` excuses requests of a disabled window: after a lifecycle
error the window refuses the expiry its timer queues, and the request then waits
for a flush or a cancel. `SignalEnds` excuses a remote process that holds a
stray socket open. `Completes` counts a start refused by an empty state file.
`RequestsAreAnswered` and the `SendsSettle` of `ChunkStream` ask that an open
channel drains its buffer; what the former excuses (a source that cannot be read,
a failing send of the request's own, a channel that closed on what was sent) is
named in `Unanswered`. In `CliNode` one condition covers the cleanup steps and
the exit, of which one is enabled at a time, and one the close events of destroyed
sockets, each of which happens once.

## 5. Proofs

TLAPS proves the following for all values of the constants that satisfy the
assumptions in the modules.

- `BoundsHold`, `AccountingHolds` (`DirectLifecycleProofs`). `TypeOK` alone is
  not inductive: that the next request of a piece still has a name (`n <=
  MaxRetries + 1`) needs `RequestsArePaidFor`: a missing or failed piece has at
  least as many recorded failures as requests, and the scheduler gives up beyond
  `MaxRetries` failures. `Ledger` is their conjunction; `NextLedger` has one
  step per action. One terminal per request and no silent loss follow from
  `Ledger` and `Fresh` (a request not created yet has left no trace):
  `StepKinds` shows that every step is an `EventStep` (some requests leave the
  table, each with its event), a `CreateStep` (one request is created in a
  window with room), the success of a receive pipeline or the end of dispose.
  The cap follows from the same shapes and the finite-set theorems.
- `NoWriteAfterSettlement`, an action property: only `HashMatches`, which looks
  at the request again, starts a write.
- `RefinesLedger` (`DirectLifecycleProofs`): each kind of step of `StepKinds`
  maps to one action of `RequestLedger`. That nothing is created after the
  disposal needs `Rest` (a window that is not open runs nothing, the disposed
  engine runs nothing): the top-up loop itself never looks at the flag.
- `BackedStatus` (`DirectLifecycleProofs`). That some request of a requested
  piece is alive is not inductive, since any one may leave the table. `InFlight`
  says which: the newest, and its pipeline has not come to the point from which
  it could leave without failing or verifying the piece. `Held` (the bytes of a
  write that has landed are there when the piece is marked) carries the storage
  half and `Untouched` keeps new requests fresh. That every request has an expiry
  to come needs `Owned`: the window of an outstanding request is open, and the
  disposed engine has none. Most steps are a `PieceStep` or a `QueueStep`, and
  each shape is shown once.
- `RetriesStayLive` (`DirectLifecycleProofs`), an action property: a retry
  waiting in a queue is of a request that has ended and belonged to that window
  (`RetriesFollow`), and the turn that issues it compares the generations.
- `OpenCallsCanEnd` (`TransferControllerProofs`). The inductive invariant adds
  that the pending map is keyed by the window of its call (`Keyed`), that a job
  at work stands at the head of the queue (`HeadAtWork`), and, instead of
  `PendingIsGuarded`, `Guarded`: a `failWindow` that already holds one call
  guards no other, since it looks at the map only once. Most steps are an
  `ExtendStep` (they append jobs, and drop only what they settle or guard),
  shown once to keep the invariant.
- `EndedClean` (`TransferControllerProofs`). Its inductive invariant `Clean` is
  in two halves. `CleanInv` is about who acts: a call is overtaken or rejected
  only when its window is `Doomed` (refused by the engine, with the controller
  failed or about to be, or the controller disposed), a job at work stands at the
  head of the queue with its window cancelled, and there is one job of dispose.
  `Books` is about values and counts: what an entry of the pending map has
  scheduled, and what it has counted as ended or deferred together with what the
  engine has outstanding, never exceed the requests there were (`EntryCounts`).
- `PursuitSound`, `QuietCloseHolds` (`ClientProofs`). `OnePursuit` counts
  sockets and is not inductive; `SocketInv` says instead which listeners are
  left at each stage of a socket (`Stages`), that only the newest socket can
  have any, and none while a delay runs (`Latest`), and what the
  state of the client says of the newest socket (`Told`). `OnePursuit` then
  follows from the finite-set theorems.
- `MapSound`, `CleanupReleases` (`CliNodeProofs`). Connections enter the map in
  the order of their numbers (`Fresh`), which makes the newest of a name the one
  the map can hold, whether it was accepted or dialed and whatever it replaced;
  a mapped connection is open or a WebSocket before its close event
  (`Reachable`). `Staged` relates the cleanup step, and the await at which cleanup
  looked for the source, to the phase and to the server; `Owned` says an open file
  is assigned to the variable that cleanup reads, which is what makes a failing
  `createSession` harmless. The steps of the transport are shown on their own
  (`Transport`, `Sockets`), so that those of the process need not look at
  connections.
- `TableTrue`, `RestoreKeeps` (`ResumeStorageProofs`). `VerifiedIsGood` holds of
  transferring processes only; `Looked` is its form for the others: every
  verified piece outside `todo` is good, since a piece becomes verified in a
  process only by being hashed in the restore or written by a pipeline.
  `Pipelines` and `Phased` say that nothing else touches the bytes of such a
  piece.
- `RetriesPaid` (`ResumeStorageProofs`). The bound on the retries in memory is
  not inductive: a rerun loads them from a table of long ago. `Paid` bounds
  every table there is, in memory, on disk and in a save under way (`Covered`),
  by what has happened so far, and keeps one retry in hand for each piece the
  next restore will discard (`OwedInStore`, and `OwedInOutput` for the CLI, whose
  restore discards all). `SavesAreCurrent` says no save under way reports a
  verified piece that was taken back since.
- `BoundsOfGrid`, `RivalsTakeVerified`, `NoLostWakeUp`, `ClaimsHold`
  (`GridSchedulerProofs`). Each operator on `eng` has a lemma of its own, and
  `Scheduled` lists what one attempt to schedule can do to the record.
  `Numbered` (only requests up to `issued` have a trace) makes new ones fresh;
  `Paid` counts a piece's failures when they happen or while a due lease still
  owes them. That a verified piece is lost only to a rival, a waiting header or
  a failure needs `Owned` (a request that is being saved holds no lease) and
  `Carried` (a step keeps a lease, gives it back, or gives it to a new request);
  the wake-up needs `Announced` (the verified pieces nobody will announce are at
  most those the sleeping loop has seen); the claims need `Freed` and `Tidy` (an
  answer that has been dealt with is outstanding only after an adapter failed).
- `QueueSound` (`ChunkStreamProofs`). `QueueInv` gives the stages of the pump and
  of the channel (`Shape`) with the two books themselves, and says that a chunk
  loop holds one item of its own request, which is the head of the chain
  (`Serve`): so two loops are never awake. That the counter is right needs no more
  than that the size of a sequence is additive, which is shown for the cardinality
  it is defined by.
- `AssemblySound` (`ChunkStreamProofs`). It rests on one order: what a provider
  sends is sorted by request, chunk and header before frame along the whole line
  from the channel to the queue (`StreamInv`), and of a request whose send was
  rejected nothing more is sent. So whatever arrives while a frame is awaited,
  and is not that frame, shows that the frame was cut off. A request mixed up is
  a cut one or a victim, the next request whose header is refused because the cut
  one's still waits. Between a cut request and its victim there is no other
  victim (`VictimsAreApart`), which gives the bound by counting with the
  finite-set theorems.
- `RoomShared`, `OffersFresh`, `AlarmsHaveCause`, `MeshComplete`
  (`RoomMeshProofs`) follow from one inductive invariant. `RoomInv` says what a
  peer is before and after it joins; its heart is `Strangers`, nobody has heard of
  a peer before it joins, from which it follows that whatever names a peer names
  one that has joined. `RosterInv` is `RosterIsMembership` read through the
  messages to come, and inductive on top of it. `OfferInv` says offers go one way
  between two peers (`Directed`) and that there is one of them, ready, travelling
  or arrived, while the other is in the room (`OfferOnce`). `AlarmInv` and
  `MeshInv` speak of rooms without trouble: everybody who joined is a member
  (`Undisturbed`), a receiver learns of the room before anything else
  (`LearnsFirst`), an offer not made yet is promised by the task of
  SESSION_JOINED or by a message to come (`OffersFollow`), and one made is
  followed by its answer (`AnswersFollow`). The steps are brought into a few
  shapes (`Moves`, `Tame`, `Mild`, `Follows`, `Drops`; `Opens`, `Admits`,
  `Refuses`, `Relays`, `GoesOff`), and each part is shown once per shape.
- `PageStaysSound`, `PageRestsOnNewest` (`ClientProofs`). At rest nothing is
  under way, so what is wanted then has to be carried through every interleaving
  of attempts by `PageInv`. `Tickets` says how generations are handed out: one
  by one, to an attempt or to the closing page, which also bounds them by the
  number of attempts. `Reference` is its heart: the runtime referred to belongs
  to the newest attempt, or the newest one still asks for its ICE servers, after
  which it will drop the reference; and a newest attempt is never undone
  silently. So an attempt whose test of the reference fails is not the newest
  (`OutdatedReference`), which is what lets it close its own runtime. `Disposals`
  and `AreHeld` follow the parts of each runtime into the disposal that closes
  them: nobody begins a disposal while its own is under way, and what is being
  disposed is not referred to. The panel has no generation; that it nevertheless
  names the newest link of an open page rests on the owner's attempts taking
  their generations in the order they start (`InTurn`, false of a receiver, whose
  lookups overtake each other) and on what its stage says of it (`Showing`). The
  three tests of the referenced runtime share one step (`GoesOnKeeps`), as do all
  the ways to give a runtime up (`GivesUpKeeps`).
- `CommandsAreTrue` (`ClientProofs`). `Progress` ties a command's end to the
  requests it has behind it, and the number of times the coordinator has carried
  out the request under way to the retries used; `Recorded` says what the
  requests behind it have left on record, or told it.

Only model-checked: the liveness properties (`OutstandingSettles`,
`DisposeReturns`, `CallReturns`, `ControllerDisposeReturns`, `Completes`,
`RequestsAreAnswered`, `SendsSettle`, `ComesBack`, `SignalEnds`, `EverythingEnds`):
liveness under fairness is out of the prover's reach and stays with TLC. Every
invariant that a passing run checks is stated by a theorem.

## 6. Findings

1. `grid_stall` (code): `receivePiece` marks a piece verified
   (`packages/core/src/index.ts:1530`), awaits the save of the state (1546), gives
   the slot of the request back (1553) and only then emits `progress` (1557).
   `waitForProgress` reads `getProgress` before it sleeps
   (`packages/cli/src/cli-runtime.ts:453`). If it does so while that save is
   pending, it returns with the piece counted; the window call that follows finds
   the slot still taken and schedules nothing, and the next `waitForProgress`
   already knows the piece, so its event does not wake it. With the other answers
   over by then, the loop sleeps with nothing outstanding until its timeout.
   `docs/23-grid-scheduler-endgame-design.md:129` has it go on "while
   (!complete)". `ProgressIsAnnounced` shows that no event is lost: what the loop
   misses is the free slot.
2. `resume_offset` (documentation): the join of a CLI rerun restores before
   its output file is open, so no piece can be read back and every verified one
   is requested again; `README.md:153` says a receiver "resumes from the session
   state on rerun".

Known limits the models reach, where no document promises otherwise or a
property is worded around them:

- Windows. A corrupt answer's deletion can land after the write of an overlapping
  good answer of the same piece, which is then verified with nothing in storage
  (`core/src/index.ts:1503`); `VerifiedLostOnlyToCorruptAnswer` shows this and a
  failing adapter are the only ways. An expiry while the verified state is being
  saved marks the piece failed, and the provider still gets a `verified`
  acknowledgement (1934). A top-up waiting for an adapter when its window is
  cancelled goes on issuing requests (1217). A piece's retry limit can be used up
  by two chains that both still announce a retry (1950). Dropping the rival
  requests of a verified piece leaves their timers (1428).
- Grid. A failing save of a verified piece leaves its slot taken for ever; the
  header of an expired or refused grid request goes on waiting for its frame
  (`pendingChunks` is not cleared by `expireRequestLeases`). A well-formed frame is
  dropped; a malformed one fails the piece though it may be verified (1757), and
  the piece is asked for again without the cap per provider (1775).
  A piece can stay `requested` for ever though its bytes are stored: a lease
  expires while its answer is being written and the piece is requested again;
  the write marks it verified, the refusal of the second request marks it failed,
  a third request is issued with a lease, and the end of the first save drops
  that rival (`core/src/index.ts:1427`) but not its lease
  (`docs/23-grid-scheduler-endgame-design.md:97` releases other leases). When
  that lease ends no outstanding request has it (1454), and nothing resets the
  piece, as `docs/02-srs.md:319` asks of a timeout. It takes three troubles and
  two retries, one trouble more than `grid_join` has; `LeaseGuardsLiveRequest` says
  of each lease that its request is open or was cancelled this way.
- Storage. A crash during the first save in the origin private file system
  leaves an empty state file on which every later start throws.
- Mesh. A receiver that waits for its offer to a peer that leaves offers to none
  of the peers after it; a departure caused by a hiccup of the signaling socket
  closes healthy data channels.
- Signaling client. `close()` during a reconnect delay does not stop the delay,
  and the socket is opened again; `connect()` while reconnecting opens a second
  socket.
- CLI. A connection, accepted or dialed, replaces the one of the same name,
  whose socket stays open: also one accepted while the dial was awaited; a
  failing write closes the peer by name, possibly a newer connection;
  `server.close()` waits for such strays and for handshakes, so a signal may
  hang; a source whose opening ends after cleanup looked for it stays open until
  exit.
- Page. `startSignaledSender` does not touch the panel, which may go on showing
  a replaced share; the transfer of a superseded receiver may rewrite the panel
  (`main.tsx:1655`); two lookups started one after the other finish in any
  order, and the last to finish wins (789); a lookup that finishes after the page
  was left starts a full attempt; a finished receiver's engine is disposed, so it
  serves nobody.
- Coordinator. `download` has no check of the file (`coordinator-runtime.ts:187`);
  a `get` of a page's share ends as planned, because its hint is a web link; a
  share outlives its room until its time to live; a response body that stalls is
  waited for without end.

## 7. Not modelled

- `integrity`, manifest generation, the congestion window: pure functions of
  bytes and times no protocol state depends on; a hash is an oracle.
- ICE candidates, candidate diagnostics and peer connection states; browser quota
  probing and the choice of a storage adapter; HTTP and WebSocket framing, health
  and version routes.
- The page's QA modes, its cross-tab demo, its partial-resume switch
  (`main.tsx:1618`) and a local restore beside a running transfer (two engines on
  one storage).
- The run artifact, rendering, formatting, React hooks, QA scripts and deployment:
  no state of their own that the protocol reads.
- `connect()` of the signaling client while it reconnects: no caller does it.
