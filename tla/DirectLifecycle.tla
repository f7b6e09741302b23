--------------------------- MODULE DirectLifecycle ---------------------------
(***************************************************************************)
(* The receiving side of PonsWarpEngine (packages/core/src/index.ts): the  *)
(* direct request windows of one file.  A window is a bounded set of       *)
(* outstanding piece requests with a serialized queue of tasks (top-up,    *)
(* expiry, retry).  Answers arrive from the provider outside that queue and *)
(* run the receive pipeline verify -> write -> persist, so every `await` of *)
(* the code is a point where the other actors move: each one is a phase    *)
(* here.  The piece table (PieceManager) and the piece store are shared by *)
(* all the windows of the file.                                            *)
(*                                                                         *)
(* A request is named <<piece, n>>: the n-th request the engine created    *)
(* for that piece (the code draws a random id).                            *)
(***************************************************************************)
EXTENDS Naturals, Sequences, FiniteSets

CONSTANTS
  PieceCount,     \* pieces of the file
  Windows,        \* window keys
  Cap,            \* maxInFlight of every window
  MaxRetries,     \* the engine's maxRetries
  MaxFills,       \* bound: calls of requestPieceWindow
  MaxGeneration,  \* bound: cancellations of one window, dispose included
  MaxFaults       \* bound: failed sends and failed storage operations

ASSUME ConstantsAssumption ==
  /\ PieceCount \in Nat \ {0}
  /\ "none" \notin Windows
  /\ Cap \in Nat \ {0}
  /\ MaxRetries \in Nat
  /\ MaxFills \in Nat
  /\ MaxGeneration \in Nat
  /\ MaxFaults \in Nat

Piece == 1..PieceCount
Request == Piece \X (1..MaxRetries + 1)

(* Terminal reasons; the retryable ones are those finalizeDirectRequest     *)
(* names.                                                                  *)
Retryable == {"provider_reject", "send_failed", "request_timeout", "hash_mismatch", "invalid_chunk"}
Reason == Retryable \cup {"verified", "cancelled"}

FillTask == [kind |-> "fill"]
ExpireTask(r) == [kind |-> "expire", req |-> r]
RetryTask(r) == [kind |-> "retry", req |-> r]
Task == {FillTask} \cup {ExpireTask(r) : r \in Request} \cup {RetryTask(r) : r \in Request}

VARIABLES
  status,       \* piece -> status held by the PieceManager
  retries,      \* piece -> the PieceManager's retryCount
  stored,       \* pieces whose verified bytes are in the storage adapter
  issued,       \* piece -> requests created for it so far
  direct,       \* request -> window key, window generation and retry count it carries
  outstanding,  \* keys of outstandingRequests
  timer,        \* request -> its entry of directTimers, and whether it has fired
  tombstones,   \* directTombstones
  terminals,    \* request -> reasons of the requestTerminal events emitted for it
  tx,           \* request -> where the requestNextPiece call that created it is
  rx,           \* request -> where the receive pipeline of its answer is
  open,         \* keys of directWindows
  disabled,     \* windows with window.disabled
  failed,       \* windows with window.error
  exhausted,    \* windows with window.exhausted
  generation,   \* window -> how often it has been cancelled
  queue,        \* window -> tasks waiting in window.queue
  running,      \* window -> the task it is running
  fills,        \* requestPieceWindow calls so far
  faults,       \* adapter failures so far
  phase         \* "live", "disposing" or "disposed"

pieceVars == <<status, retries, stored>>
requestVars == <<issued, direct, tombstones>>
settleVars == <<outstanding, timer, terminals, queue, exhausted>>
boundVars == <<fills, faults>>
windowVars == <<open, disabled, failed, generation>>
vars == <<pieceVars, requestVars, settleVars, tx, rx, windowVars, running, boundVars, phase>>

NoDirect == [window |-> "none", generation |-> 0, retryCount |-> 0]

Init ==
  /\ status = [p \in Piece |-> "missing"]
  /\ retries = [p \in Piece |-> 0]
  /\ stored = {}
  /\ issued = [p \in Piece |-> 0]
  /\ direct = [r \in Request |-> NoDirect]
  /\ outstanding = {}
  /\ timer = [r \in Request |-> "none"]
  /\ tombstones = {}
  /\ terminals = [r \in Request |-> <<>>]
  /\ tx = [r \in Request |-> "none"]
  /\ rx = [r \in Request |-> "none"]
  /\ open = {}
  /\ disabled = {}
  /\ failed = {}
  /\ exhausted = {}
  /\ generation = [w \in Windows |-> 0]
  /\ queue = [w \in Windows |-> <<>>]
  /\ running = [w \in Windows |-> "idle"]
  /\ fills = 0
  /\ faults = 0
  /\ phase = "live"

-----------------------------------------------------------------------------
(* Helpers: each is one method or idiom of the engine.                      *)

InWindow(w) == {r \in outstanding : direct[r].window = w}

(* countOutstandingRequestsForWindow against the cap                        *)
HasRoom(w) == Cardinality(InWindow(w)) < Cap

(* isExactActiveRequest                                                     *)
ActiveUnlessTombstoned(r) == r \notin tombstones
Active(r) == r \in outstanding /\ r \notin tombstones

(* The first test of finalizeDirectRequest                                  *)
FinalizableAnyDirect(r) == direct[r].window # "none"
FinalizableWhileArmed(r) == r \in outstanding /\ timer[r] = "armed"
Finalizable(r) == r \in outstanding

(* The test enqueueWindow repeats when the task's turn comes                *)
Skipped(w) == w \in disabled \/ phase = "disposed"

(* enqueueWindow: a missing or disabled window, or a disposed engine, drops  *)
(* the task on the floor.                                                  *)
EnqueuedUnlessExhausted(q, w, task) ==
  IF w \in open \ (disabled \cup exhausted) /\ phase # "disposed"
  THEN [q EXCEPT ![w] = Append(@, task)] ELSE q
Enqueued(q, w, task) ==
  IF w \in open \ disabled /\ phase # "disposed" THEN [q EXCEPT ![w] = Append(@, task)] ELSE q

(* PieceManager.markFailed                                                  *)
MarkFailed(p) ==
  /\ status' = [status EXCEPT ![p] = "failed"]
  /\ retries' = [retries EXCEPT ![p] = @ + 1]

WillRetry(r, reason) == reason \in Retryable /\ direct[r].retryCount < MaxRetries

(* finalizeDirectRequest: q is the window queues once the caller has taken  *)
(* its own task off.  Nothing happens for a request that is no longer      *)
(* outstanding.                                                            *)
FinalizeDirectRequest(r, reason, q) ==
  LET live == Finalizable(r)
      w == direct[r].window
  IN  /\ outstanding' = outstanding \ {r}
      /\ timer' = IF live THEN [timer EXCEPT ![r] = "none"] ELSE timer
      /\ terminals' = IF live THEN [terminals EXCEPT ![r] = Append(@, reason)] ELSE terminals
      /\ queue' = IF live /\ WillRetry(r, reason) THEN Enqueued(q, w, RetryTask(r)) ELSE q
      /\ exhausted' = IF live /\ reason \in Retryable /\ ~WillRetry(r, reason)
                      THEN exhausted \cup ({w} \cap open) ELSE exhausted

(* emitDirectLifecycleError: disables the window and records the error.    *)
LifecycleError(w) ==
  /\ disabled' = disabled \cup ({w} \cap open)
  /\ failed' = failed \cup ({w} \cap open)
  /\ UNCHANGED <<open, generation>>

(* OwnerFirstScheduler: missing or failed pieces within the retry limit.   *)
SchedulableOneMore(st) == {p \in Piece : st[p] \in {"missing", "failed"} /\ retries[p] <= MaxRetries + 1}
Schedulable(st) == {p \in Piece : st[p] \in {"missing", "failed"} /\ retries[p] <= MaxRetries}

(* requestNextPiece up to its first await: the first schedulable piece is   *)
(* marked requested, its request registered and its timer armed, and the   *)
(* PIECE_REQUEST handed to the transport.                                  *)
RequestNextPiece(w, kind, retryCount, st, q) ==
  \E p \in Schedulable(st) :
    LET r == <<p, issued[p] + 1>> IN
    /\ \A o \in Schedulable(st) : p <= o
    /\ status' = [st EXCEPT ![p] = "requested"]
    /\ issued' = [issued EXCEPT ![p] = @ + 1]
    /\ direct' = [direct EXCEPT ![r] =
                    [window |-> w, generation |-> generation[w], retryCount |-> retryCount]]
    /\ outstanding' = outstanding \cup {r}
    /\ timer' = [timer EXCEPT ![r] = "armed"]
    /\ tx' = [tx EXCEPT ![r] = "sending"]
    /\ rx' = [rx EXCEPT ![r] = "awaiting"]
    /\ queue' = q
    /\ running' = [running EXCEPT ![w] = kind]
    /\ UNCHANGED <<retries, stored, tombstones, terminals, exhausted, windowVars, boundVars, phase>>

(* A send or a storage operation rejects.                                   *)
Fault ==
  /\ faults < MaxFaults
  /\ faults' = faults + 1
  /\ UNCHANGED fills

(* A task of window w that ends here, leaving the queues at q.              *)
TaskEnds(w, q) ==
  /\ queue' = q
  /\ running' = [running EXCEPT ![w] = "idle"]
  /\ UNCHANGED <<retries, stored, requestVars, outstanding, timer, terminals, exhausted, tx, rx,
                 windowVars, boundVars, phase>>

-----------------------------------------------------------------------------
(* The public calls and the window queue.                                   *)

(* requestPieceWindow: creates the window on first use, refuses a disabled  *)
(* one, and queues a top-up.                                               *)
RequestPieceWindow(w) ==
  /\ phase = "live"
  /\ fills < MaxFills
  /\ w \notin disabled
  /\ open' = open \cup {w}
  /\ queue' = [queue EXCEPT ![w] = Append(@, FillTask)]
  /\ fills' = fills + 1
  /\ UNCHANGED <<pieceVars, requestVars, outstanding, timer, terminals, exhausted, tx, rx,
                 disabled, failed, generation, running, faults, phase>>

(* One turn of the top-up loop: request the next piece while the window has  *)
(* room, else the task is over.                                            *)
FillTurn(w, q) ==
  \/ HasRoom(w) /\ RequestNextPiece(w, "fill", 0, status, q)
  \/ /\ HasRoom(w) => Schedulable(status) = {}
     /\ TaskEnds(w, q)
     /\ UNCHANGED status

(* The retry of request r is one further along its chain.                  *)
NextRetryTwice(r) == direct[r].retryCount + 2
NextRetry(r) == direct[r].retryCount + 1

(* The retry task of a finalized request: dropped when the window was        *)
(* cancelled since or has no room, else the failed piece goes back to       *)
(* missing and the next piece is requested.  The task's own test of        *)
(* window.disabled is the one RunTask has just made.                       *)
RetryTurn(w, r, q) ==
  LET p == r[1]
      reset == [status EXCEPT ![p] = IF @ = "failed" THEN "missing" ELSE @]
      admitted == /\ r \notin tombstones
                  /\ generation[w] = direct[r].generation
                  /\ HasRoom(w)
  IN  \/ admitted /\ RequestNextPiece(w, "retry", NextRetry(r), reset, q)
      \/ /\ admitted => Schedulable(reset) = {}
         /\ TaskEnds(w, q)
         /\ status' = IF admitted THEN reset ELSE status

(* expireDirectRequest *)
ExpireDirectRequest(r, q) ==
  /\ IF r \in outstanding THEN MarkFailed(r[1]) ELSE UNCHANGED <<status, retries>>
  /\ FinalizeDirectRequest(r, "request_timeout", q)
  /\ UNCHANGED <<stored, requestVars, tx, rx, windowVars, running, boundVars, phase>>

(* The next task of the window's promise chain.                             *)
RunTask(w) ==
  /\ running[w] = "idle"
  /\ queue[w] # <<>>
  /\ LET task == Head(queue[w])
         q == [queue EXCEPT ![w] = Tail(@)]
     IN  \/ Skipped(w) /\ TaskEnds(w, q) /\ UNCHANGED status
         \/ ~Skipped(w) /\ task.kind = "fill" /\ FillTurn(w, q)
         \/ ~Skipped(w) /\ task.kind = "retry" /\ RetryTurn(w, task.req, q)
         \/ ~Skipped(w) /\ task.kind = "expire" /\ ExpireDirectRequest(task.req, q)

(* The top-up loop resumes after requestNextPiece returned a piece.  The    *)
(* loop does not look at window.disabled again.                            *)
FillContinuesUnlessDisabled(w) ==
  /\ running[w] = "looping"
  /\ w \notin disabled
  /\ FillTurn(w, queue)
FillContinues(w) ==
  /\ running[w] = "looping"
  /\ FillTurn(w, queue)

(* The PIECE_REQUEST has been sent; persistState is called.                 *)
SendSucceeds(r) ==
  /\ tx[r] = "sending"
  /\ tx' = [tx EXCEPT ![r] = "saving"]
  /\ UNCHANGED <<pieceVars, requestVars, settleVars, rx, windowVars, running, boundVars, phase>>

(* The transport rejected the PIECE_REQUEST (which a closing channel does    *)
(* even for a request that went through): requestNextPiece returns null and *)
(* the task is over.                                                       *)
SendFails(r) ==
  /\ tx[r] = "sending"
  /\ Fault
  /\ MarkFailed(r[1])
  /\ FinalizeDirectRequest(r, "send_failed", queue)
  /\ tx' = [tx EXCEPT ![r] = "done"]
  /\ rx' = [rx EXCEPT ![r] = IF @ = "awaiting" THEN "dropped" ELSE @]
  /\ running' = [running EXCEPT ![direct[r].window] = "idle"]
  /\ UNCHANGED <<stored, requestVars, windowVars, phase>>

(* persistState of requestNextPiece succeeded.                              *)
RequestSaved(r) ==
  /\ tx[r] = "saving"
  /\ tx' = [tx EXCEPT ![r] = "done"]
  /\ running' = [running EXCEPT ![direct[r].window] = IF @ = "fill" THEN "looping" ELSE "idle"]
  /\ UNCHANGED <<pieceVars, requestVars, settleVars, rx, windowVars, boundVars, phase>>

(* persistState of requestNextPiece failed: the error is attributed to the  *)
(* window only if the request is still outstanding, the piece is marked     *)
(* failed whatever its status has become.                                  *)
RequestSaveFails(r) ==
  LET w == direct[r].window IN
  /\ tx[r] = "saving"
  /\ Fault
  /\ IF r \in outstanding THEN LifecycleError(w) ELSE UNCHANGED windowVars
  /\ MarkFailed(r[1])
  /\ FinalizeDirectRequest(r, "cancelled", queue)
  /\ tx' = [tx EXCEPT ![r] = "done"]
  /\ running' = [running EXCEPT ![w] = "idle"]
  /\ UNCHANGED <<stored, requestVars, rx, phase>>

(* The timer armed by armDirectTimer fires once and queues the expiry.      *)
TimerFires(r) ==
  /\ timer[r] = "armed"
  /\ timer' = [timer EXCEPT ![r] = "fired"]
  /\ queue' = Enqueued(queue, direct[r].window, ExpireTask(r))
  /\ UNCHANGED <<pieceVars, requestVars, outstanding, terminals, exhausted, tx, rx, windowVars,
                 running, boundVars, phase>>

(* flushDirectLifecycle expires overdue requests itself, not through the    *)
(* queue (one overdue request per step).                                   *)
FlushExpires(r) ==
  /\ r \in outstanding
  /\ ExpireDirectRequest(r, queue)

Drained == \A w \in open : queue[w] = <<>> /\ running[w] = "idle"

(* flushDirectLifecycle ends, rethrowing and clearing the first window        *)
(* error.  It waited only for the tasks queued when it was called: newer    *)
(* ones may be under way.                                                  *)
FlushReports ==
  /\ phase = "live"
  /\ \E w \in failed : failed' = failed \ {w}
  /\ UNCHANGED <<pieceVars, requestVars, settleVars, tx, rx, open, disabled, generation, running,
                 boundVars, phase>>

(* cancelDirectRequests for the windows in S: they are disabled under a new  *)
(* generation and their outstanding requests are tombstoned and finalized.  *)
CancelWindows(S) ==
  LET victims == {r \in outstanding : direct[r].window \in S} IN
  /\ disabled' = disabled \cup S
  /\ generation' = [w \in Windows |-> IF w \in S THEN generation[w] + 1 ELSE generation[w]]
  /\ tombstones' = tombstones \cup victims
  /\ outstanding' = outstanding \ victims
  /\ timer' = [r \in Request |-> IF r \in victims THEN "none" ELSE timer[r]]
  /\ terminals' = [r \in Request |->
                     IF r \in victims THEN Append(terminals[r], "cancelled") ELSE terminals[r]]
  /\ UNCHANGED <<pieceVars, issued, direct, queue, exhausted, tx, rx, open, failed, running, boundVars>>

CancelDirectRequests(w) ==
  /\ w \in open
  /\ generation[w] < MaxGeneration
  /\ CancelWindows({w})
  /\ UNCHANGED phase

(* dispose: cancel everything, then flush.  A pending window error makes     *)
(* the flush, and so dispose, reject and leaves the engine live.           *)
DisposeStarts ==
  /\ phase = "live"
  /\ \A w \in open : generation[w] < MaxGeneration
  /\ CancelWindows(open)
  /\ phase' = "disposing"

DisposeRejects ==
  /\ phase = "disposing"
  /\ Drained
  /\ \E w \in failed : failed' = failed \ {w}
  /\ phase' = "live"
  /\ UNCHANGED <<pieceVars, requestVars, settleVars, tx, rx, open, disabled, generation, running,
                 boundVars>>

DisposeEnds ==
  /\ phase = "disposing"
  /\ Drained
  /\ failed = {}
  /\ phase' = "disposed"
  /\ outstanding' = {}
  /\ timer' = [r \in Request |-> "none"]
  /\ open' = {}
  /\ UNCHANGED <<pieceVars, requestVars, terminals, queue, exhausted, tx, rx, disabled, failed,
                 generation, running, boundVars>>

-----------------------------------------------------------------------------
(* The provider's answer and the receive pipeline.                          *)

(* The chunks of the answer are assembled: handleTransportBinary calls      *)
(* receivePiece.  Chunks of a request that is not active are ignored.      *)
AnswerArrives(r) ==
  /\ rx[r] = "awaiting"
  /\ Active(r)
  /\ rx' = [rx EXCEPT ![r] = "verifying"]
  /\ UNCHANGED <<pieceVars, requestVars, settleVars, tx, windowVars, running, boundVars, phase>>

(* The answer is refused before it is complete: the piece is failed and the  *)
(* request finalized.                                                      *)
AnswerRefused(r, reason) ==
  /\ rx[r] = "awaiting"
  /\ r \in outstanding
  /\ MarkFailed(r[1])
  /\ FinalizeDirectRequest(r, reason, queue)
  /\ rx' = [rx EXCEPT ![r] = "dropped"]
  /\ UNCHANGED <<stored, requestVars, tx, windowVars, running, boundVars, phase>>

(* The provider answers with a PIECE_REJECT.                                *)
ProviderRejects(r) == AnswerRefused(r, "provider_reject")

(* rejectIncomingChunk: a chunk does not fit the assembly.                  *)
RejectIncomingChunk(r) == AnswerRefused(r, "invalid_chunk")

(* verifyPiece returned after the request was settled or cancelled.         *)
VerifiedTooLate(r) ==
  /\ rx[r] = "verifying"
  /\ ~Active(r)
  /\ rx' = [rx EXCEPT ![r] = "dropped"]
  /\ UNCHANGED <<pieceVars, requestVars, settleVars, tx, windowVars, running, boundVars, phase>>

(* The hash matches: the storage write is issued.                           *)
HashMatches(r) ==
  /\ rx[r] = "verifying"
  /\ Active(r)
  /\ rx' = [rx EXCEPT ![r] = "writing"]
  /\ UNCHANGED <<pieceVars, requestVars, settleVars, tx, windowVars, running, boundVars, phase>>

(* The hash does not match: the piece is failed and its deletion issued.    *)
HashMismatches(r) ==
  /\ rx[r] = "verifying"
  /\ Active(r)
  /\ MarkFailed(r[1])
  /\ rx' = [rx EXCEPT ![r] = "deleting"]
  /\ UNCHANGED <<stored, requestVars, settleVars, tx, windowVars, running, boundVars, phase>>

WriteLands(r) ==
  /\ rx[r] = "writing"
  /\ stored' = stored \cup {r[1]}
  /\ rx' = [rx EXCEPT ![r] = "written"]
  /\ UNCHANGED <<status, retries, requestVars, settleVars, tx, windowVars, running, boundVars, phase>>

(* receivePiece resumes after the write, without another look at the        *)
(* request, and calls persistState.                                        *)
MarkVerifiedBeforeWrite(r) ==
  /\ rx[r] = "writing"
  /\ status' = [status EXCEPT ![r[1]] = "verified"]
  /\ rx' = [rx EXCEPT ![r] = "saving"]
  /\ UNCHANGED <<retries, stored, requestVars, settleVars, tx, windowVars, running, boundVars, phase>>
MarkVerified(r) ==
  /\ rx[r] = "written"
  /\ status' = [status EXCEPT ![r[1]] = "verified"]
  /\ rx' = [rx EXCEPT ![r] = "saving"]
  /\ UNCHANGED <<retries, stored, requestVars, settleVars, tx, windowVars, running, boundVars, phase>>

(* The write, the deletion, the persist after a good write or the broadcast  *)
(* of the piece map failed: the window of the request is disabled, the      *)
(* piece failed, the request finalized as cancelled.                       *)
ReceiveFails(r) ==
  /\ rx[r] \in {"writing", "saving", "announcing", "deleting"}
  /\ Fault
  /\ LifecycleError(direct[r].window)
  /\ MarkFailed(r[1])
  /\ FinalizeDirectRequest(r, "cancelled", queue)
  /\ rx' = [rx EXCEPT ![r] = "dropped"]
  /\ UNCHANGED <<stored, requestVars, tx, running, phase>>

(* The verified state is persisted: the request is finalized, every other    *)
(* request of the piece is dropped by cancelCompetingGridRequests (no       *)
(* event, its timer entry stays), and broadcastPieceMap is called.         *)
PieceSaved(r) ==
  LET rivals == {o \in outstanding : o[1] = r[1]} \ {r} IN
  /\ rx[r] = "saving"
  /\ rx' = [rx EXCEPT ![r] = "announcing"]
  /\ outstanding' = outstanding \ ({r} \cup rivals)
  /\ tombstones' = tombstones \cup rivals
  /\ timer' = IF r \in outstanding THEN [timer EXCEPT ![r] = "none"] ELSE timer
  /\ terminals' = IF r \in outstanding THEN [terminals EXCEPT ![r] = Append(@, "verified")]
                  ELSE terminals
  /\ UNCHANGED <<pieceVars, issued, direct, queue, exhausted, tx, windowVars, running, boundVars, phase>>

(* Every known peer has been sent the piece map: the PIECE_ACK goes out.     *)
PieceAcknowledged(r) ==
  /\ rx[r] = "announcing"
  /\ rx' = [rx EXCEPT ![r] = "acked"]
  /\ UNCHANGED <<pieceVars, requestVars, settleVars, tx, windowVars, running, boundVars, phase>>

(* deletePiece landed; persistState is called.                              *)
DeleteLands(r) ==
  /\ rx[r] = "deleting"
  /\ stored' = stored \ {r[1]}
  /\ rx' = [rx EXCEPT ![r] = "savingReject"]
  /\ UNCHANGED <<status, retries, requestVars, settleVars, tx, windowVars, running, boundVars, phase>>

RejectSaved(r) ==
  /\ rx[r] = "savingReject"
  /\ FinalizeDirectRequest(r, "hash_mismatch", queue)
  /\ rx' = [rx EXCEPT ![r] = "rejected"]
  /\ UNCHANGED <<pieceVars, requestVars, tx, windowVars, running, boundVars, phase>>

RejectSaveFails(r) ==
  /\ rx[r] = "savingReject"
  /\ Fault
  /\ LifecycleError(direct[r].window)
  /\ FinalizeDirectRequest(r, "cancelled", queue)
  /\ rx' = [rx EXCEPT ![r] = "rejected"]
  /\ UNCHANGED <<pieceVars, requestVars, tx, running, phase>>

-----------------------------------------------------------------------------
SendSettles(r) == SendSucceeds(r) \/ SendFails(r)
RequestSaveSettles(r) == RequestSaved(r) \/ RequestSaveFails(r)
VerifySettles(r) == VerifiedTooLate(r) \/ HashMatches(r) \/ HashMismatches(r)
ReceiveSettles(r) ==
  \/ WriteLands(r) \/ MarkVerified(r) \/ PieceSaved(r) \/ PieceAcknowledged(r) \/ ReceiveFails(r)
  \/ DeleteLands(r) \/ RejectSaved(r) \/ RejectSaveFails(r)

WindowNext(w) ==
  RequestPieceWindow(w) \/ RunTask(w) \/ FillContinues(w) \/ CancelDirectRequests(w)

RequestNext(r) ==
  \/ SendSettles(r) \/ RequestSaveSettles(r)
  \/ TimerFires(r) \/ FlushExpires(r)
  \/ AnswerArrives(r) \/ ProviderRejects(r) \/ RejectIncomingChunk(r)
  \/ VerifySettles(r) \/ ReceiveSettles(r)

Next ==
  \/ \E w \in Windows : WindowNext(w)
  \/ \E r \in Request : RequestNext(r)
  \/ FlushReports \/ DisposeStarts \/ DisposeRejects \/ DisposeEnds

Spec == Init /\ [][Next]_vars

(* What the JavaScript runtime and the adapters guarantee: promise chains    *)
(* advance, an armed timer fires, every send, hash and storage operation    *)
(* settles one way or the other.  The provider owes no answer.             *)
Fairness ==
  /\ \A w \in Windows : WF_vars(RunTask(w)) /\ WF_vars(FillContinues(w))
  /\ \A r \in Request :
       /\ WF_vars(SendSettles(r)) /\ WF_vars(RequestSaveSettles(r))
       /\ WF_vars(TimerFires(r))
       /\ WF_vars(VerifySettles(r)) /\ WF_vars(ReceiveSettles(r))
  /\ WF_vars(DisposeRejects) /\ WF_vars(DisposeEnds)

FairSpec == Spec /\ Fairness

-----------------------------------------------------------------------------
(* Properties.                                                              *)

(* The state is well formed; issued stays in the range of request names, so *)
(* no piece is requested more than MaxRetries + 1 times.                    *)
TypeOK ==
  /\ status \in [Piece -> {"missing", "requested", "failed", "verified"}]
  /\ retries \in [Piece -> Nat]
  /\ stored \subseteq Piece
  /\ issued \in [Piece -> 0..MaxRetries + 1]
  /\ direct \in [Request -> [window : Windows \cup {"none"}, generation : Nat, retryCount : Nat]]
  /\ outstanding \subseteq Request
  /\ timer \in [Request -> {"none", "armed", "fired"}]
  /\ tombstones \subseteq Request
  /\ terminals \in [Request -> Seq(Reason)]
  /\ tx \in [Request -> {"none", "sending", "saving", "done"}]
  /\ rx \in [Request -> {"none", "awaiting", "verifying", "writing", "written", "saving",
                         "announcing", "acked", "deleting", "savingReject", "rejected", "dropped"}]
  /\ open \subseteq Windows
  /\ disabled \subseteq Windows
  /\ failed \subseteq Windows
  /\ exhausted \subseteq Windows
  /\ generation \in [Windows -> Nat]
  /\ queue \in [Windows -> Seq(Task)]
  /\ running \in [Windows -> {"idle", "fill", "looping", "retry"}]
  /\ fills \in 0..MaxFills
  /\ faults \in 0..MaxFaults
  /\ phase \in {"live", "disposing", "disposed"}

(* Top-ups, retries and late settlements together never put more requests   *)
(* in flight for a window than its immutable cap.                           *)
WindowCap == \A w \in Windows : Cardinality({r \in outstanding : direct[r].window = w}) <= Cap

(* A request settles at most once: requestTerminal is never emitted twice   *)
(* for it, nor while it is still outstanding, however its timeout, its      *)
(* answer, a cancellation and a failed save race.                           *)
OneTerminal ==
  \A r \in Request : Len(terminals[r]) <= 1 /\ (r \in outstanding => terminals[r] = <<>>)

(* No request disappears silently: one that left the table has had its      *)
(* requestTerminal, or was tombstoned by a rival's success, or the engine   *)
(* was disposed.                                                            *)
NoSilentLoss ==
  \A r \in Request :
    tx[r] # "none" /\ r \notin outstanding /\ phase # "disposed"
      => terminals[r] # <<>> \/ r \in tombstones

(* Every request of a piece but the first is paid for by a recorded failure *)
(* of that piece, over all windows, top-ups and retry chains.               *)
RequestsArePaidFor ==
  \A p \in Piece :
    /\ issued[p] <= retries[p] + 1
    /\ status[p] \in {"missing", "failed"} => issued[p] <= retries[p]

(* While a window is enabled, each of its outstanding requests will still   *)
(* be expired: its timer is armed or its expiry is queued.                  *)
ExpiryIsComing ==
  \A r \in outstanding :
    LET w == direct[r].window IN
    w \notin disabled =>
      timer[r] = "armed" \/ \E i \in 1..Len(queue[w]) : queue[w][i] = ExpireTask(r)

(* A piece marked verified is in storage, unless a second request of the    *)
(* same piece was answered with corrupt data and deleted it.                *)
VerifiedLostOnlyToCorruptAnswer ==
  \A p \in Piece :
    status[p] = "verified" /\ p \notin stored =>
      \E r \in Request : r[1] = p /\ rx[r] \in {"savingReject", "rejected"}

(* A piece marked requested has a request in flight, unless a cancellation  *)
(* or a rival's success tombstoned one of its requests, or the engine was   *)
(* disposed: no failure path strands it.                                    *)
NoStrandedPiece ==
  \A p \in Piece :
    status[p] = "requested" =>
      \/ \E r \in outstanding \cup tombstones : r[1] = p
      \/ phase = "disposed"

(* The windows stay within their bounds: every piece within its budget of    *)
(* requests, every window within its cap.                                   *)
WindowsAreBounded == TypeOK /\ WindowCap

(* Every request is paid for when it is created and accounted for once when  *)
(* it leaves, over all windows, top-ups, retry chains and failures.         *)
RequestAccounting == RequestsArePaidFor /\ OneTerminal /\ NoSilentLoss

(* What the table says of a piece is backed by something: "verified" by the  *)
(* storage, "requested" by a request, and a request by its coming expiry.   *)
StatusIsBacked == VerifiedLostOnlyToCorruptAnswer /\ NoStrandedPiece /\ ExpiryIsComing

(* A request that was settled while its answer was being hashed never       *)
(* reaches storage: receivePiece looks at the request again after the await.*)
SettledNeverWrites ==
  [][\A r \in Request : rx[r] # "writing" /\ rx'[r] = "writing" => terminals[r] = <<>>]_vars

(* A retry is issued only in a window that is still enabled, and continues  *)
(* the chain of a request that ended in that same window generation.        *)
RetryOnlyInLiveGeneration ==
  [][\A r \in Request :
       LET d == direct'[r] IN
       tx[r] = "none" /\ tx'[r] = "sending" /\ d.retryCount > 0 =>
         /\ d.window \notin disabled
         /\ \E o \in Request :
              /\ terminals[o] # <<>>
              /\ direct[o].window = d.window
              /\ direct[o].generation = generation[d.window]
              /\ direct[o].retryCount + 1 = d.retryCount]_vars

(* An outstanding request leaves the table unless its window is disabled,   *)
(* even if the provider never answers.                                      *)
OutstandingSettles ==
  \A r \in Request :
    r \in outstanding ~> (r \notin outstanding \/ direct[r].window \in disabled)

(* dispose() never hangs on the window queues it waits for.                 *)
DisposeReturns == phase = "disposing" ~> phase # "disposing"

=============================================================================
