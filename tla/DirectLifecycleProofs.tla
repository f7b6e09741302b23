------------------------ MODULE DirectLifecycleProofs ------------------------
(* Proofs about DirectLifecycle for every number of pieces and windows and   *)
(* every value of the limits.                                               *)
EXTENDS DirectRefinement, FiniteSetTheorems, TLAPS

(* TypeOK is inductive only together with the payment of every request: the *)
(* n-th request of a piece has a name (n <= MaxRetries + 1) because n - 1    *)
(* failures of that piece were recorded and the scheduler gives up beyond   *)
(* MaxRetries failures.                                                     *)
Ledger == TypeOK /\ RequestsArePaidFor

(* enqueueWindow leaves queues of tasks.                                     *)
LEMMA EnqueuedIsQueues ==
  ASSUME TypeOK, NEW w, NEW task \in Task, NEW q \in [Windows -> Seq(Task)]
  PROVE  Enqueued(q, w, task) \in [Windows -> Seq(Task)]
<1>1. CASE w \in Windows
  BY <1>1 DEF Enqueued
<1>2. CASE w \notin Windows
  BY <1>2 DEF Enqueued, TypeOK
<1> QED BY <1>1, <1>2

(* What finalizeDirectRequest may do to the tables it owns.                  *)
LEMMA FinalizeKeepsTypes ==
  ASSUME TypeOK, NEW r \in Request, NEW reason \in Reason, NEW q \in [Windows -> Seq(Task)],
         FinalizeDirectRequest(r, reason, q)
  PROVE  /\ outstanding' \subseteq Request
         /\ timer' \in [Request -> {"none", "armed", "fired"}]
         /\ terminals' \in [Request -> Seq(Reason)]
         /\ exhausted' \subseteq Windows
         /\ queue' \in [Windows -> Seq(Task)]
<1>1. RetryTask(r) \in Task
  BY DEF Task
<1>2. Enqueued(q, direct[r].window, RetryTask(r)) \in [Windows -> Seq(Task)]
  BY <1>1, EnqueuedIsQueues
<1>3. queue' \in [Windows -> Seq(Task)]
  BY <1>2, Zenon DEF FinalizeDirectRequest
<1>4. terminals' \in [Request -> Seq(Reason)]
  BY DEF FinalizeDirectRequest, TypeOK
<1>5. timer' \in [Request -> {"none", "armed", "fired"}]
  BY DEF FinalizeDirectRequest, TypeOK
<1>6. outstanding' \subseteq Request /\ exhausted' \subseteq Windows
  BY DEF FinalizeDirectRequest, TypeOK
<1> QED BY <1>3, <1>4, <1>5, <1>6

(* Recording a failure pays for one more request of the piece.               *)
LEMMA MarkFailedPays ==
  ASSUME Ledger, NEW p \in Piece, MarkFailed(p)
  PROVE  /\ status' \in [Piece -> {"missing", "requested", "failed", "verified"}]
         /\ retries' \in [Piece -> Nat]
         /\ issued' = issued => RequestsArePaidFor'
BY DEF Ledger, MarkFailed, TypeOK, RequestsArePaidFor

(* A request is issued for a piece that has paid for it, so it has a name.   *)
LEMMA RequestNextPieceKeepsLedger ==
  ASSUME Ledger, ConstantsAssumption,
         NEW w \in Windows, NEW kind \in {"fill", "retry"}, NEW n \in Nat,
         NEW q \in [Windows -> Seq(Task)],
         NEW st \in [Piece -> {"missing", "requested", "failed", "verified"}],
         \A p \in Piece : st[p] \in {"missing", "failed"} <=> status[p] \in {"missing", "failed"},
         RequestNextPiece(w, kind, n, st, q)
  PROVE  Ledger'
<1>1. PICK p \in Schedulable(st) :
        LET r == <<p, issued[p] + 1>> IN
        /\ status' = [st EXCEPT ![p] = "requested"]
        /\ issued' = [issued EXCEPT ![p] = @ + 1]
        /\ direct' = [direct EXCEPT ![r] =
                        [window |-> w, generation |-> generation[w], retryCount |-> n]]
        /\ outstanding' = outstanding \cup {r}
        /\ timer' = [timer EXCEPT ![r] = "armed"]
        /\ tx' = [tx EXCEPT ![r] = "sending"]
        /\ rx' = [rx EXCEPT ![r] = "awaiting"]
        /\ queue' = q
        /\ running' = [running EXCEPT ![w] = kind]
        /\ UNCHANGED <<retries, stored, tombstones, terminals, exhausted, windowVars, boundVars, phase>>
  BY DEF RequestNextPiece
<1>2. p \in Piece /\ issued[p] \in Nat /\ issued[p] <= retries[p] /\ retries[p] <= MaxRetries
  BY ConstantsAssumption DEF Schedulable, Ledger, RequestsArePaidFor, TypeOK
<1>3. issued[p] + 1 \in 1..MaxRetries + 1 /\ <<p, issued[p] + 1>> \in Request
  BY <1>2, ConstantsAssumption DEF Request, Ledger, TypeOK
<1>4. RequestsArePaidFor'
  BY <1>1, <1>2, ConstantsAssumption DEF Ledger, RequestsArePaidFor, TypeOK
<1>5. TypeOK'
  <2>1. /\ status' \in [Piece -> {"missing", "requested", "failed", "verified"}]
        /\ issued' \in [Piece -> 0..MaxRetries + 1]
    BY <1>1, <1>2, <1>3, ConstantsAssumption DEF Ledger, TypeOK
  <2>2. direct' \in [Request -> [window : Windows \cup {"none"}, generation : Nat, retryCount : Nat]]
    BY <1>1, <1>3 DEF Ledger, TypeOK
  <2>3. QED
    BY <1>1, <1>3, <2>1, <2>2 DEF Ledger, TypeOK, windowVars, boundVars
<1> QED BY <1>4, <1>5 DEF Ledger

(* The tasks of a window queue, and what is left of the queues when one is   *)
(* taken.                                                                  *)
LEMMA HeadTask ==
  ASSUME TypeOK, NEW w \in Windows, queue[w] # <<>>
  PROVE  /\ Head(queue[w]) \in Task
         /\ [queue EXCEPT ![w] = Tail(@)] \in [Windows -> Seq(Task)]
         /\ Head(queue[w]).kind \in {"expire", "retry"} => Head(queue[w]).req \in Request
<1>1. queue[w] \in Seq(Task)
  BY DEF TypeOK
<1>2. Head(queue[w]) \in Task /\ Tail(queue[w]) \in Seq(Task)
  BY <1>1
<1>3. \A t \in Task : t.kind \in {"expire", "retry"} => t.req \in Request
  BY DEF Task, FillTask, ExpireTask, RetryTask
<1> QED BY <1>2, <1>3 DEF TypeOK

(* One turn of a window queue.                                               *)
LEMMA FillTurnKeepsLedger ==
  ASSUME Ledger, NEW w \in Windows, NEW q \in [Windows -> Seq(Task)], FillTurn(w, q)
  PROVE  Ledger'
<1>1. CASE RequestNextPiece(w, "fill", 0, status, q)
  <2>1. status \in [Piece -> {"missing", "requested", "failed", "verified"}]
    BY DEF Ledger, TypeOK
  <2> QED BY <1>1, <2>1, RequestNextPieceKeepsLedger, ConstantsAssumption
<1>2. CASE TaskEnds(w, q) /\ UNCHANGED status
  BY <1>2 DEF TaskEnds, Ledger, TypeOK, RequestsArePaidFor, requestVars, windowVars, boundVars
<1> QED BY <1>1, <1>2 DEF FillTurn

LEMMA RetryTurnKeepsLedger ==
  ASSUME Ledger, NEW w \in Windows, NEW r \in Request, NEW q \in [Windows -> Seq(Task)],
         RetryTurn(w, r, q)
  PROVE  Ledger'
<1> DEFINE reset == [status EXCEPT ![r[1]] = IF @ = "failed" THEN "missing" ELSE @]
<1>1. /\ reset \in [Piece -> {"missing", "requested", "failed", "verified"}]
      /\ \A p \in Piece : reset[p] \in {"missing", "failed"} <=> status[p] \in {"missing", "failed"}
  BY DEF Ledger, TypeOK, Request
<1>2. NextRetry(r) \in Nat
  BY DEF Ledger, TypeOK, NextRetry
<1>3. CASE RequestNextPiece(w, "retry", NextRetry(r), reset, q)
  <2> HIDE DEF reset
  <2> QED BY <1>1, <1>2, <1>3, RequestNextPieceKeepsLedger, ConstantsAssumption
<1>4. CASE TaskEnds(w, q) /\ status' \in {status, reset}
  <2>1. /\ status' \in [Piece -> {"missing", "requested", "failed", "verified"}]
        /\ \A p \in Piece : status'[p] \in {"missing", "failed"} <=> status[p] \in {"missing", "failed"}
    <3> HIDE DEF reset
    <3> QED BY <1>1, <1>4 DEF Ledger, TypeOK
  <2> HIDE DEF reset
  <2> QED BY <1>4, <2>1 DEF TaskEnds, Ledger, TypeOK, RequestsArePaidFor, requestVars, windowVars, boundVars
<1> QED BY <1>3, <1>4 DEF RetryTurn

LEMMA ExpireKeepsLedger ==
  ASSUME Ledger, NEW r \in Request, NEW q \in [Windows -> Seq(Task)], ExpireDirectRequest(r, q)
  PROVE  Ledger'
<1>1. r[1] \in Piece /\ "request_timeout" \in Reason
  BY DEF Request, Reason, Retryable
<1>2. /\ status' \in [Piece -> {"missing", "requested", "failed", "verified"}]
      /\ retries' \in [Piece -> Nat]
      /\ RequestsArePaidFor'
  <2>1. CASE r \in outstanding
    BY <1>1, <2>1, MarkFailedPays DEF ExpireDirectRequest, requestVars
  <2>2. CASE r \notin outstanding
    BY <2>2 DEF ExpireDirectRequest, requestVars, Ledger, TypeOK, RequestsArePaidFor
  <2> QED BY <2>1, <2>2
<1>3. /\ outstanding' \subseteq Request
      /\ timer' \in [Request -> {"none", "armed", "fired"}]
      /\ terminals' \in [Request -> Seq(Reason)]
      /\ exhausted' \subseteq Windows
      /\ queue' \in [Windows -> Seq(Task)]
  BY <1>1, FinalizeKeepsTypes DEF ExpireDirectRequest, Ledger
<1> QED
  BY <1>2, <1>3 DEF ExpireDirectRequest, Ledger, TypeOK, requestVars, windowVars, boundVars

(* What a step that finalizes a request outside the window queue does to the *)
(* variables finalizeDirectRequest does not own.                            *)
SettlesOnly ==
  /\ UNCHANGED <<stored, issued, direct, tombstones, generation, phase, fills>>
  /\ tx' \in [Request -> {"none", "sending", "saving", "done"}]
  /\ rx' \in [Request -> {"none", "awaiting", "verifying", "writing", "written", "saving",
                          "announcing", "acked", "deleting", "savingReject", "rejected", "dropped"}]
  /\ open' \subseteq Windows /\ disabled' \subseteq Windows /\ failed' \subseteq Windows
  /\ running' \in [Windows -> {"idle", "fill", "looping", "retry"}]
  /\ faults' \in 0..MaxFaults

(* Failing the piece and finalizing the request.                             *)
LEMMA FailureKeepsLedger ==
  ASSUME Ledger, NEW r \in Request, NEW reason \in Reason,
         MarkFailed(r[1]), FinalizeDirectRequest(r, reason, queue), SettlesOnly
  PROVE  Ledger'
<1>1. r[1] \in Piece
  BY DEF Request
<1>2. /\ status' \in [Piece -> {"missing", "requested", "failed", "verified"}]
      /\ retries' \in [Piece -> Nat]
      /\ RequestsArePaidFor'
  BY <1>1, MarkFailedPays DEF SettlesOnly
<1>3. /\ outstanding' \subseteq Request
      /\ timer' \in [Request -> {"none", "armed", "fired"}]
      /\ terminals' \in [Request -> Seq(Reason)]
      /\ exhausted' \subseteq Windows
      /\ queue' \in [Windows -> Seq(Task)]
  <2>1. queue \in [Windows -> Seq(Task)]
    BY DEF Ledger, TypeOK
  <2> QED BY <2>1, FinalizeKeepsTypes DEF Ledger
<1>4. TypeOK'
  BY <1>2, <1>3 DEF Ledger, TypeOK, SettlesOnly
<1> QED BY <1>2, <1>4 DEF Ledger

LEMMA InitLedger == Init => Ledger
BY ConstantsAssumption, SMTT(30)
   DEF Init, Ledger, TypeOK, RequestsArePaidFor, NoDirect, Request, Reason, Task

(* Every step keeps the state well formed and every request paid for.        *)
LEMMA NextLedger == Ledger /\ [Next]_vars => Ledger'
<1> SUFFICES ASSUME Ledger, [Next]_vars PROVE Ledger'
  OBVIOUS
<1> USE ConstantsAssumption
<1>1. ASSUME NEW w \in Windows, RequestPieceWindow(w) PROVE Ledger'
  <2>1. queue' \in [Windows -> Seq(Task)]
    <3>1. FillTask \in Task
      BY DEF Task
    <3> QED BY <1>1, <3>1 DEF RequestPieceWindow, Ledger, TypeOK
  <2> QED BY <1>1, <2>1 DEF RequestPieceWindow, Ledger, TypeOK, RequestsArePaidFor, pieceVars, requestVars
<1>2. ASSUME NEW w \in Windows, RunTask(w) PROVE Ledger'
  <2> DEFINE task == Head(queue[w])
             q == [queue EXCEPT ![w] = Tail(@)]
  <2>1. /\ q \in [Windows -> Seq(Task)]
        /\ task.kind \in {"expire", "retry"} => task.req \in Request
    BY <1>2, HeadTask DEF RunTask, Ledger
  <2> HIDE DEF task, q
  <2>2. CASE TaskEnds(w, q) /\ UNCHANGED status
    BY <2>1, <2>2 DEF TaskEnds, Ledger, TypeOK, RequestsArePaidFor, requestVars, windowVars, boundVars
  <2>3. CASE FillTurn(w, q)
    BY <2>1, <2>3, FillTurnKeepsLedger
  <2>4. CASE task.kind = "retry" /\ RetryTurn(w, task.req, q)
    BY <2>1, <2>4, RetryTurnKeepsLedger
  <2>5. CASE task.kind = "expire" /\ ExpireDirectRequest(task.req, q)
    BY <2>1, <2>5, ExpireKeepsLedger
  <2> QED BY <1>2, <2>2, <2>3, <2>4, <2>5 DEF RunTask, task, q
<1>3. ASSUME NEW w \in Windows, FillContinues(w) PROVE Ledger'
  <2>1. queue \in [Windows -> Seq(Task)]
    BY DEF Ledger, TypeOK
  <2> QED BY <1>3, <2>1, FillTurnKeepsLedger DEF FillContinues
<1>4. ASSUME NEW S \in SUBSET open, CancelWindows(S),
             phase' \in {"live", "disposing", "disposed"}
      PROVE  Ledger'
  <2>1. \A r \in Request : Append(terminals[r], "cancelled") \in Seq(Reason)
    BY DEF Ledger, TypeOK, Reason
  <2>2. terminals' \in [Request -> Seq(Reason)]
    BY <1>4, <2>1 DEF CancelWindows, Ledger, TypeOK
  <2>3. /\ timer' \in [Request -> {"none", "armed", "fired"}]
        /\ generation' \in [Windows -> Nat]
    BY <1>4 DEF CancelWindows, Ledger, TypeOK
  <2> QED
    BY <1>4, <2>2, <2>3 DEF CancelWindows, Ledger, TypeOK, RequestsArePaidFor, pieceVars, boundVars
<1>5. ASSUME NEW w \in Windows, CancelDirectRequests(w) PROVE Ledger'
  BY <1>4, <1>5 DEF CancelDirectRequests, Ledger, TypeOK
<1>6. CASE DisposeStarts
  BY <1>4, <1>6 DEF DisposeStarts
<1>7. CASE FlushReports \/ DisposeRejects
  BY <1>7 DEF FlushReports, DisposeRejects, Ledger, TypeOK, RequestsArePaidFor,
              pieceVars, requestVars, settleVars, boundVars
<1>8. CASE DisposeEnds
  BY <1>8 DEF DisposeEnds, Ledger, TypeOK, RequestsArePaidFor, pieceVars, requestVars, boundVars
<1>9. ASSUME NEW r \in Request, RequestNext(r) PROVE Ledger'
  <2> USE <1>9
  <2>1. /\ r[1] \in Piece
        /\ Reason = {"provider_reject", "send_failed", "request_timeout", "hash_mismatch",
                     "invalid_chunk", "verified", "cancelled"}
    BY DEF Request, Reason, Retryable
  <2>2. CASE SendSucceeds(r) \/ RequestSaved(r)
    BY <2>2 DEF SendSucceeds, RequestSaved, Ledger, TypeOK, RequestsArePaidFor,
                pieceVars, requestVars, settleVars, windowVars, boundVars
  <2>3. CASE SendFails(r)
    <3>1. running' \in [Windows -> {"idle", "fill", "looping", "retry"}]
      BY <2>3 DEF SendFails, Ledger, TypeOK
    <3>2. tx' \in [Request -> {"none", "sending", "saving", "done"}]
      BY <2>3 DEF SendFails, Ledger, TypeOK
    <3>3. rx' \in [Request -> {"none", "awaiting", "verifying", "writing", "written", "saving",
                              "announcing", "acked", "deleting", "savingReject", "rejected", "dropped"}]
      BY <2>3 DEF SendFails, Ledger, TypeOK
    <3>4. UNCHANGED <<stored, requestVars, windowVars, phase, fills>> /\ faults' \in 0..MaxFaults
      BY <2>3 DEF SendFails, Fault, Ledger, TypeOK
    <3>5. SettlesOnly
      BY <3>1, <3>2, <3>3, <3>4 DEF SettlesOnly, Ledger, TypeOK, requestVars, windowVars
    <3> QED BY <2>1, <2>3, <3>5, FailureKeepsLedger DEF SendFails
  <2>4. CASE RequestSaveFails(r)
    <3>1. /\ open' \subseteq Windows /\ disabled' \subseteq Windows /\ failed' \subseteq Windows
          /\ generation' = generation
      BY <2>4 DEF RequestSaveFails, LifecycleError, windowVars, Ledger, TypeOK
    <3>2. running' \in [Windows -> {"idle", "fill", "looping", "retry"}]
      BY <2>4 DEF RequestSaveFails, Ledger, TypeOK
    <3>3. tx' \in [Request -> {"none", "sending", "saving", "done"}]
      BY <2>4 DEF RequestSaveFails, Ledger, TypeOK
    <3>4. UNCHANGED <<stored, requestVars, rx, phase, fills>> /\ faults' \in 0..MaxFaults
      BY <2>4 DEF RequestSaveFails, Fault, Ledger, TypeOK
    <3>5. SettlesOnly
      BY <3>1, <3>2, <3>3, <3>4 DEF SettlesOnly, Ledger, TypeOK, requestVars
    <3> QED BY <2>1, <2>4, <3>5, FailureKeepsLedger DEF RequestSaveFails
  <2>5. CASE TimerFires(r)
    <3>1. queue' \in [Windows -> Seq(Task)]
      <4>1. ExpireTask(r) \in Task /\ queue \in [Windows -> Seq(Task)]
        BY DEF Task, Ledger, TypeOK
      <4> QED BY <2>5, <4>1, EnqueuedIsQueues DEF TimerFires, Ledger
    <3> QED BY <2>5, <3>1 DEF TimerFires, Ledger, TypeOK, RequestsArePaidFor,
                              pieceVars, requestVars, windowVars, boundVars
  <2>6. CASE FlushExpires(r)
    <3>1. queue \in [Windows -> Seq(Task)]
      BY DEF Ledger, TypeOK
    <3> QED BY <2>6, <3>1, ExpireKeepsLedger DEF FlushExpires
  <2>7. CASE AnswerArrives(r) \/ VerifiedTooLate(r) \/ HashMatches(r) \/ PieceAcknowledged(r)
    BY <2>7 DEF AnswerArrives, VerifiedTooLate, HashMatches, PieceAcknowledged, Ledger, TypeOK,
                RequestsArePaidFor, pieceVars, requestVars, settleVars, windowVars, boundVars
  <2>8. CASE ProviderRejects(r) \/ RejectIncomingChunk(r)
    <3>1. SettlesOnly
      BY <2>8 DEF ProviderRejects, RejectIncomingChunk, AnswerRefused, SettlesOnly, Ledger, TypeOK,
                  requestVars, windowVars, boundVars
    <3> QED
      BY <2>1, <2>8, <3>1, FailureKeepsLedger DEF ProviderRejects, RejectIncomingChunk, AnswerRefused
  <2>9. CASE HashMismatches(r)
    <3>1. /\ status' \in [Piece -> {"missing", "requested", "failed", "verified"}]
          /\ retries' \in [Piece -> Nat]
          /\ RequestsArePaidFor'
      BY <2>1, <2>9, MarkFailedPays DEF HashMismatches, requestVars
    <3> QED BY <2>9, <3>1 DEF HashMismatches, Ledger, TypeOK,
                              requestVars, settleVars, windowVars, boundVars
  <2>10. CASE WriteLands(r) \/ MarkVerified(r) \/ DeleteLands(r)
    <3>1. UNCHANGED <<retries, issued, direct, tombstones, outstanding, timer, terminals, queue, exhausted, tx,
                      open, disabled, failed, generation, running, fills, faults, phase>>
      BY <2>10 DEF WriteLands, MarkVerified, DeleteLands, requestVars, settleVars, windowVars, boundVars
    <3>2. r \in Request /\ r[1] \in Piece
      BY <2>1
    <3>3. /\ stored' \in {stored, stored \cup {r[1]}, stored \ {r[1]}}
          /\ \E x \in {"written", "saving", "savingReject"} : rx' = [rx EXCEPT ![r] = x]
          /\ status' \in {status, [status EXCEPT ![r[1]] = "verified"]}
      BY <2>10 DEF WriteLands, MarkVerified, DeleteLands
    <3>4. TypeOK'
      <4>1. stored' \subseteq Piece
        BY <3>2, <3>3 DEF Ledger, TypeOK
      <4>2. rx' \in [Request -> {"none", "awaiting", "verifying", "writing", "written", "saving",
                                "announcing", "acked", "deleting", "savingReject", "rejected", "dropped"}]
        BY <3>2, <3>3 DEF Ledger, TypeOK
      <4>3. status' \in [Piece -> {"missing", "requested", "failed", "verified"}]
        BY <3>2, <3>3 DEF Ledger, TypeOK
      <4> QED BY <3>1, <4>1, <4>2, <4>3 DEF Ledger, TypeOK
    <3>5. RequestsArePaidFor'
      BY <3>1, <3>2, <3>3 DEF Ledger, TypeOK, RequestsArePaidFor
    <3> QED BY <3>4, <3>5 DEF Ledger
  <2>11. CASE ReceiveFails(r)
    <3>1. SettlesOnly
      BY <2>11 DEF ReceiveFails, LifecycleError, Fault, SettlesOnly, Ledger, TypeOK, requestVars
    <3> QED BY <2>1, <2>11, <3>1, FailureKeepsLedger DEF ReceiveFails
  <2>12. CASE PieceSaved(r)
    <3>1. terminals' \in [Request -> Seq(Reason)]
      <4>1. Append(terminals[r], "verified") \in Seq(Reason)
        BY <2>1 DEF Ledger, TypeOK
      <4> QED BY <2>12, <4>1 DEF PieceSaved, Ledger, TypeOK
    <3> QED BY <2>12, <3>1 DEF PieceSaved, Ledger, TypeOK, RequestsArePaidFor,
                               pieceVars, windowVars, boundVars
  <2>13. CASE RejectSaved(r) \/ RejectSaveFails(r)
    <3>1. /\ outstanding' \subseteq Request
          /\ timer' \in [Request -> {"none", "armed", "fired"}]
          /\ terminals' \in [Request -> Seq(Reason)]
          /\ exhausted' \subseteq Windows
          /\ queue' \in [Windows -> Seq(Task)]
      <4>1. queue \in [Windows -> Seq(Task)]
        BY DEF Ledger, TypeOK
      <4> QED BY <2>1, <2>13, <4>1, FinalizeKeepsTypes DEF RejectSaved, RejectSaveFails, Ledger
    <3>2. UNCHANGED <<pieceVars, requestVars, tx, running, phase, fills, generation>>
      BY <2>13 DEF RejectSaved, RejectSaveFails, LifecycleError, Fault, windowVars, boundVars
    <3>3. /\ open' \subseteq Windows /\ disabled' \subseteq Windows /\ failed' \subseteq Windows
          /\ faults' \in 0..MaxFaults
      BY <2>13 DEF RejectSaved, RejectSaveFails, LifecycleError, Fault, windowVars, boundVars, Ledger, TypeOK
    <3>4. rx' = [rx EXCEPT ![r] = "rejected"]
      BY <2>13 DEF RejectSaved, RejectSaveFails
    <3> QED
      BY <3>1, <3>2, <3>3, <3>4 DEF Ledger, TypeOK, RequestsArePaidFor, pieceVars, requestVars
  <2> QED
    BY <2>2, <2>3, <2>4, <2>5, <2>6, <2>7, <2>8, <2>9, <2>10, <2>11, <2>12, <2>13
    DEF RequestNext, SendSettles, RequestSaveSettles, VerifySettles, ReceiveSettles
<1>10. CASE UNCHANGED vars
  BY <1>10 DEF vars, Ledger, TypeOK, RequestsArePaidFor,
               pieceVars, requestVars, settleVars, windowVars, boundVars
<1> QED
  BY <1>1, <1>2, <1>3, <1>5, <1>6, <1>7, <1>8, <1>9, <1>10 DEF Next, WindowNext

LEMMA LedgerInvariant == Spec => []Ledger
BY InitLedger, NextLedger, PTL DEF Spec

(* Type correctness of the direct request lifecycle; in particular a piece   *)
(* is never requested more than MaxRetries + 1 times.                       *)
THEOREM TypeCorrect == Spec => []TypeOK
<1>1. Ledger => TypeOK
  BY DEF Ledger
<1> QED BY <1>1, LedgerInvariant, PTL

(* Every request of a piece but the first follows a recorded failure of the  *)
(* piece, whatever the windows, top-ups and retry chains that issued them.  *)
THEOREM PaidRequests == Spec => []RequestsArePaidFor
<1>1. Ledger => RequestsArePaidFor
  BY DEF Ledger
<1> QED BY <1>1, LedgerInvariant, PTL
-----------------------------------------------------------------------------
(* Settlement: how requests settle: at most one terminal event, none lost,   *)
(* never more in flight than the cap, no write after settlement.            *)

(* A request that has not been created yet has left no trace.                *)
Fresh ==
  \A r \in Request : issued[r[1]] < r[2] => r \notin outstanding /\ terminals[r] = <<>>

Settlement == OneTerminal /\ NoSilentLoss /\ Fresh

(* What every step but the creation of a request may do to the requests: a   *)
(* request leaves the table with its terminal event, with a tombstone or     *)
(* with the disposal of the engine, and no other request gets an event.      *)
SettleStep ==
  /\ UNCHANGED <<issued, direct>>
  /\ outstanding' \subseteq outstanding
  /\ tombstones \subseteq tombstones'
  /\ phase = "disposed" => phase' = "disposed"
  /\ \A r \in Request :
       /\ tx[r] = "none" => tx'[r] = "none"
       /\ \/ terminals'[r] = terminals[r]
          \/ /\ r \in outstanding \ outstanding'
             /\ \E reason \in Reason : terminals'[r] = Append(terminals[r], reason)
       /\ r \in outstanding \ outstanding' =>
            terminals'[r] # <<>> \/ r \in tombstones' \/ phase' = "disposed"

(* The requests in S leave the table, each with its event for the same       *)
(* reason; this is all that most steps do to the requests.                  *)
EventStep ==
  /\ UNCHANGED <<issued, direct>>
  /\ tombstones \subseteq tombstones'
  /\ phase' = "disposed" <=> phase = "disposed"
  /\ \A r \in Request : tx[r] = "none" => tx'[r] = "none"
  /\ \E S \in SUBSET outstanding, reason \in Reason :
       /\ outstanding' = outstanding \ S
       /\ terminals' = [r \in Request |-> IF r \in S THEN Append(terminals[r], reason) ELSE terminals[r]]

(* The creation of a request, in a window that has room.  Only a top-up loop *)
(* in progress does not look at the phase.                                  *)
CreateStep ==
  \E w \in Windows :
    /\ HasRoom(w)
    /\ phase # "disposed" \/ running[w] = "looping"
    /\ \E kind, n, st, q : RequestNextPiece(w, kind, n, st, q)

LEMMA AppendOnce ==
  ASSUME NEW s \in Seq(Reason), NEW reason \in Reason, s = <<>>
  PROVE  Len(Append(s, reason)) = 1 /\ Append(s, reason) # <<>>
OBVIOUS

LEMMA SettleStepKeepsSettlement ==
  ASSUME Ledger, Settlement, SettleStep
  PROVE  Settlement'
<1> SUFFICES ASSUME NEW r \in Request
             PROVE  /\ Len(terminals'[r]) <= 1 /\ (r \in outstanding' => terminals'[r] = <<>>)
                    /\ tx'[r] # "none" /\ r \notin outstanding' /\ phase' # "disposed"
                         => terminals'[r] # <<>> \/ r \in tombstones'
                    /\ issued'[r[1]] < r[2] => r \notin outstanding' /\ terminals'[r] = <<>>
  BY DEF Settlement, OneTerminal, NoSilentLoss, Fresh
<1>1. terminals[r] \in Seq(Reason)
  BY DEF Ledger, TypeOK
<1>2. CASE terminals'[r] = terminals[r]
  BY <1>2 DEF Settlement, OneTerminal, NoSilentLoss, Fresh, SettleStep
<1>3. CASE r \in outstanding \ outstanding' /\ \E reason \in Reason : terminals'[r] = Append(terminals[r], reason)
  <2>1. terminals[r] = <<>> /\ ~(issued[r[1]] < r[2]) /\ issued' = issued
    BY <1>3 DEF Settlement, OneTerminal, Fresh, SettleStep
  <2>2. Len(terminals'[r]) = 1 /\ terminals'[r] # <<>>
    BY <1>1, <1>3, <2>1, AppendOnce
  <2> QED BY <1>3, <2>1, <2>2
<1> QED BY <1>2, <1>3 DEF SettleStep

LEMMA EventStepSettles ==
  ASSUME Ledger, EventStep
  PROVE  SettleStep
<1>1. PICK S \in SUBSET outstanding, reason \in Reason :
        /\ outstanding' = outstanding \ S
        /\ terminals' = [r \in Request |-> IF r \in S THEN Append(terminals[r], reason) ELSE terminals[r]]
  BY DEF EventStep
<1>2. ASSUME NEW r \in Request PROVE Append(terminals[r], reason) # <<>>
  <2>1. terminals[r] \in Seq(Reason)
    BY DEF Ledger, TypeOK
  <2> QED BY <2>1
<1> QED BY <1>1, <1>2 DEF EventStep, SettleStep

(* finalizeDirectRequest, in a step that leaves the other tables alone.      *)
LEMMA FinalizeIsEventStep ==
  ASSUME Ledger, NEW r \in Request, NEW reason \in Reason, NEW q,
         FinalizeDirectRequest(r, reason, q),
         UNCHANGED <<issued, direct, tombstones, phase>>,
         \A o \in Request : tx[o] = "none" => tx'[o] = "none"
  PROVE  EventStep
<1> DEFINE S == {r} \cap outstanding
<1>1. /\ outstanding' = outstanding \ {r}
      /\ terminals' = IF r \in outstanding THEN [terminals EXCEPT ![r] = Append(@, reason)] ELSE terminals
  BY DEF FinalizeDirectRequest, Finalizable
<1>2. outstanding' = outstanding \ S /\ S \in SUBSET outstanding
  BY <1>1
<1>3. terminals' = [o \in Request |-> IF o \in S THEN Append(terminals[o], reason) ELSE terminals[o]]
  BY <1>1 DEF Ledger, TypeOK
<1> QED BY <1>2, <1>3 DEF EventStep

(* A step that settles nothing.                                             *)
LEMMA QuietIsEventStep ==
  ASSUME Ledger, UNCHANGED <<issued, direct, outstanding, terminals, tombstones>>,
         phase' = "disposed" <=> phase = "disposed",
         \A o \in Request : tx[o] = "none" => tx'[o] = "none"
  PROVE  EventStep
<1>1. {} \in SUBSET outstanding /\ outstanding' = outstanding \ {}
  OBVIOUS
<1>2. terminals' = [o \in Request |-> IF o \in {} THEN Append(terminals[o], "verified") ELSE terminals[o]]
  BY DEF Ledger, TypeOK
<1>3. "verified" \in Reason
  BY DEF Reason
<1> QED BY <1>1, <1>2, <1>3 DEF EventStep

(* Creating a request.                                                      *)
LEMMA RequestNextPieceKeepsSettlement ==
  ASSUME Ledger, Settlement, Ledger', NEW w, NEW kind, NEW n, NEW st, NEW q,
         RequestNextPiece(w, kind, n, st, q)
  PROVE  Settlement'
<1>1. PICK p \in Piece :
        /\ issued' = [issued EXCEPT ![p] = @ + 1]
        /\ outstanding' = outstanding \cup {<<p, issued[p] + 1>>}
        /\ tx' = [tx EXCEPT ![<<p, issued[p] + 1>>] = "sending"]
        /\ UNCHANGED <<tombstones, terminals, phase>>
  BY DEF RequestNextPiece, Schedulable
<1> DEFINE new == <<p, issued[p] + 1>>
<1>2. new \in Request
  BY <1>1 DEF Ledger, TypeOK
<1>3. issued[p] \in Nat /\ new[1] = p /\ new[2] = issued[p] + 1
  BY DEF Ledger, TypeOK
<1>4. terminals[new] = <<>>
  BY <1>2, <1>3 DEF Settlement, Fresh
<1>5. \A r \in Request : issued'[r[1]] < r[2] => issued[r[1]] < r[2] /\ r # new
  <2> SUFFICES ASSUME NEW r \in Request, issued'[r[1]] < r[2]
               PROVE  issued[r[1]] < r[2] /\ r # new
    OBVIOUS
  <2>1. r[1] \in Piece /\ r[2] \in Nat
    BY ConstantsAssumption DEF Request
  <2>2. issued[r[1]] \in Nat /\ issued'[r[1]] = IF r[1] = p THEN issued[r[1]] + 1 ELSE issued[r[1]]
    <3>1. issued \in [Piece -> 0..MaxRetries + 1]
      BY DEF Ledger, TypeOK
    <3>2. issued[r[1]] \in Nat
      BY <2>1, <3>1, ConstantsAssumption
    <3> QED BY <1>1, <2>1, <3>1, <3>2
  <2>3. CASE r[1] = p
    BY <1>3, <2>1, <2>2, <2>3
  <2>4. CASE r[1] # p
    BY <1>3, <2>2, <2>4
  <2> QED BY <2>3, <2>4
<1>6. \A r \in Request \ {new} : tx'[r] = tx[r]
  BY <1>1 DEF Ledger, TypeOK
<1> HIDE DEF new
<1>7. outstanding' = outstanding \cup {new}
  BY <1>1 DEF new
<1>8. OneTerminal'
  BY <1>1, <1>4, <1>7 DEF Settlement, OneTerminal
<1>9. NoSilentLoss'
  BY <1>1, <1>6, <1>7 DEF Settlement, NoSilentLoss
<1>10. Fresh'
  BY <1>1, <1>5, <1>7 DEF Settlement, Fresh
<1> QED BY <1>8, <1>9, <1>10 DEF Settlement

(* Every step settles requests with their event, creates one, obtains a      *)
(* piece, or is the end of dispose.                                         *)
LEMMA StepKinds ==
  Ledger /\ [Next]_vars =>
    EventStep \/ CreateStep \/ (\E r \in Request : PieceSaved(r)) \/ DisposeEnds
<1> SUFFICES ASSUME Ledger, [Next]_vars, ~DisposeEnds, \A r \in Request : ~PieceSaved(r)
             PROVE  EventStep \/ CreateStep
  OBVIOUS
<1>0. Reason = {"provider_reject", "send_failed", "request_timeout", "hash_mismatch",
                "invalid_chunk", "verified", "cancelled"}
  BY DEF Reason, Retryable
<1>1. ASSUME NEW w \in Windows, RequestPieceWindow(w) PROVE EventStep
  BY <1>1, QuietIsEventStep DEF RequestPieceWindow, requestVars
<1>2. ASSUME NEW w, NEW q, TaskEnds(w, q) PROVE EventStep
  BY <1>2, QuietIsEventStep DEF TaskEnds, requestVars
<1>3. ASSUME NEW w \in Windows, NEW q, FillTurn(w, q), phase # "disposed" \/ running[w] = "looping"
      PROVE  EventStep \/ CreateStep
  BY <1>2, <1>3 DEF FillTurn, CreateStep
<1>4. ASSUME NEW w \in Windows, NEW r, NEW q, RetryTurn(w, r, q), phase # "disposed"
      PROVE  EventStep \/ CreateStep
  <2>1. PICK n, st : (HasRoom(w) /\ RequestNextPiece(w, "retry", n, st, q)) \/ TaskEnds(w, q)
    BY <1>4 DEF RetryTurn
  <2> QED BY <1>2, <1>4, <2>1 DEF CreateStep
<1>5. ASSUME NEW r \in Request, NEW q, ExpireDirectRequest(r, q) PROVE EventStep
  BY <1>0, <1>5, FinalizeIsEventStep DEF ExpireDirectRequest, requestVars
<1>6. ASSUME NEW w \in Windows, RunTask(w) PROVE EventStep \/ CreateStep
  <2> DEFINE task == Head(queue[w])
             q == [queue EXCEPT ![w] = Tail(@)]
  <2>1. task.kind \in {"expire", "retry"} => task.req \in Request
    BY <1>6, HeadTask DEF RunTask, Ledger
  <2> HIDE DEF task, q
  <2>2. CASE TaskEnds(w, q)
    BY <1>2, <2>2
  <2>3. CASE FillTurn(w, q) /\ ~Skipped(w)
    BY <1>3, <2>3 DEF Skipped
  <2>4. CASE RetryTurn(w, task.req, q) /\ ~Skipped(w)
    BY <1>4, <2>4 DEF Skipped
  <2>5. CASE task.kind = "expire" /\ ExpireDirectRequest(task.req, q)
    BY <1>5, <2>1, <2>5
  <2> QED BY <1>6, <2>2, <2>3, <2>4, <2>5 DEF RunTask, task, q
<1>7. ASSUME NEW w \in Windows, FillContinues(w) PROVE EventStep \/ CreateStep
  BY <1>3, <1>7 DEF FillContinues
<1>8. ASSUME NEW S, CancelWindows(S), phase' = "disposed" <=> phase = "disposed" PROVE EventStep
  <2> DEFINE victims == {r \in outstanding : direct[r].window \in S}
  <2>1. /\ outstanding' = outstanding \ victims
        /\ tombstones' = tombstones \cup victims
        /\ UNCHANGED <<issued, direct, tx>>
        /\ terminals' = [r \in Request |->
             IF r \in victims THEN Append(terminals[r], "cancelled") ELSE terminals[r]]
    BY <1>8 DEF CancelWindows
  <2>2. victims \in SUBSET outstanding /\ "cancelled" \in Reason
    BY <1>0
  <2> HIDE DEF victims
  <2> QED BY <1>8, <2>1, <2>2 DEF EventStep
<1>9. ASSUME NEW w \in Windows, CancelDirectRequests(w) PROVE EventStep
  BY <1>8, <1>9 DEF CancelDirectRequests
<1>10. CASE DisposeStarts
  BY <1>8, <1>10 DEF DisposeStarts
<1>11. CASE FlushReports \/ DisposeRejects
  <2>1. EventStep
    BY <1>11, QuietIsEventStep DEF FlushReports, DisposeRejects, requestVars, settleVars
  <2> QED BY <2>1
<1>12. ASSUME NEW r \in Request, RequestNext(r) PROVE EventStep
  <2>1. \A v \in {"sending", "saving", "done"} :
          tx[r] # "none" /\ tx' = [tx EXCEPT ![r] = v]
            => \A o \in Request : tx[o] = "none" => tx'[o] = "none"
    BY DEF Ledger, TypeOK
  <2>2. CASE SendSucceeds(r) \/ RequestSaved(r)
    BY <2>1, <2>2, QuietIsEventStep DEF SendSucceeds, RequestSaved, requestVars, settleVars
  <2>3. CASE SendFails(r) \/ RequestSaveFails(r)
    <3>1. \A o \in Request : tx[o] = "none" => tx'[o] = "none"
      BY <2>1, <2>3 DEF SendFails, RequestSaveFails
    <3>2. UNCHANGED <<issued, direct, tombstones, phase>>
      BY <2>3 DEF SendFails, RequestSaveFails, requestVars
    <3> QED
      BY <1>0, <2>3, <3>1, <3>2, FinalizeIsEventStep DEF SendFails, RequestSaveFails
  <2>4. CASE TimerFires(r)
    BY <2>4, QuietIsEventStep DEF TimerFires, requestVars
  <2>5. CASE FlushExpires(r)
    BY <1>5, <2>5 DEF FlushExpires
  <2>6. CASE AnswerArrives(r) \/ VerifiedTooLate(r) \/ HashMatches(r) \/ PieceAcknowledged(r)
             \/ HashMismatches(r) \/ WriteLands(r) \/ MarkVerified(r) \/ DeleteLands(r)
    BY <2>6, QuietIsEventStep
    DEF AnswerArrives, VerifiedTooLate, HashMatches, PieceAcknowledged, HashMismatches,
        WriteLands, MarkVerified, DeleteLands, requestVars, settleVars
  <2>7. CASE ProviderRejects(r) \/ RejectIncomingChunk(r) \/ ReceiveFails(r)
             \/ RejectSaved(r) \/ RejectSaveFails(r)
    <3>1. UNCHANGED <<issued, direct, tombstones, phase, tx>>
      BY <2>7 DEF ProviderRejects, RejectIncomingChunk, AnswerRefused, ReceiveFails, RejectSaved,
                  RejectSaveFails, requestVars
    <3>2. PICK reason \in Reason : FinalizeDirectRequest(r, reason, queue)
      BY <1>0, <2>7 DEF ProviderRejects, RejectIncomingChunk, AnswerRefused, ReceiveFails,
                        RejectSaved, RejectSaveFails
    <3> QED BY <3>1, <3>2, FinalizeIsEventStep
  <2> QED
    BY <1>12, <2>2, <2>3, <2>4, <2>5, <2>6, <2>7
    DEF RequestNext, SendSettles, RequestSaveSettles, VerifySettles, ReceiveSettles
<1>13. CASE UNCHANGED vars
  <2>1. EventStep
    BY <1>13, QuietIsEventStep DEF vars, requestVars, settleVars
  <2> QED BY <2>1
<1> QED
  BY <1>1, <1>6, <1>7, <1>9, <1>10, <1>11, <1>12, <1>13
  DEF Next, WindowNext

(* receivePiece's success and the end of dispose settle requests too.        *)
LEMMA PieceSavedSettles ==
  ASSUME Ledger, NEW r \in Request, PieceSaved(r)
  PROVE  SettleStep
<1> DEFINE rivals == {o \in outstanding : o[1] = r[1]} \ {r}
<1>1. /\ outstanding' = outstanding \ ({r} \cup rivals)
      /\ tombstones' = tombstones \cup rivals
      /\ UNCHANGED <<issued, direct, tx, phase>>
  BY DEF PieceSaved
<1>2. terminals' = IF r \in outstanding THEN [terminals EXCEPT ![r] = Append(@, "verified")]
                   ELSE terminals
  BY DEF PieceSaved
<1>3. terminals \in [Request -> Seq(Reason)] /\ "verified" \in Reason
  BY DEF Ledger, TypeOK, Reason
<1>4. /\ \A o \in Request \ {r} : terminals'[o] = terminals[o]
      /\ r \in outstanding => terminals'[r] = Append(terminals[r], "verified")
      /\ r \notin outstanding => terminals'[r] = terminals[r]
  BY <1>2, <1>3
<1>5. Append(terminals[r], "verified") # <<>>
  <2>1. terminals[r] \in Seq(Reason)
    BY <1>3
  <2> QED BY <2>1, <1>3
<1> HIDE DEF rivals
<1> QED BY <1>1, <1>3, <1>4, <1>5 DEF SettleStep

LEMMA DisposeEndsSettles == DisposeEnds => SettleStep
BY DEF DisposeEnds, SettleStep, requestVars

LEMMA SettleOrCreate == Ledger /\ [Next]_vars => SettleStep \/ CreateStep
BY StepKinds, EventStepSettles, PieceSavedSettles, DisposeEndsSettles

LEMMA InitSettlement == Init => Settlement
BY DEF Init, Settlement, OneTerminal, NoSilentLoss, Fresh

LEMMA NextSettlement == Ledger /\ Ledger' /\ Settlement /\ [Next]_vars => Settlement'
BY SettleOrCreate, SettleStepKeepsSettlement, RequestNextPieceKeepsSettlement DEF CreateStep

LEMMA SettlementInvariant == Spec => [](Ledger /\ Settlement)
<1>1. Init => Ledger /\ Settlement
  BY InitLedger, InitSettlement
<1>2. (Ledger /\ Settlement) /\ [Next]_vars => (Ledger /\ Settlement)'
  BY NextLedger, NextSettlement
<1> QED BY <1>1, <1>2, PTL DEF Spec

(* requestTerminal is emitted at most once for a request, and not while it   *)
(* is outstanding, however its timeout, answer, cancellation and failed     *)
(* save race.                                                              *)
THEOREM TerminalOnce == Spec => []OneTerminal
<1>1. Settlement => OneTerminal
  BY DEF Settlement
<1> QED BY <1>1, SettlementInvariant, PTL

(* A request that left outstandingRequests has had its terminal event, or    *)
(* was tombstoned by a rival's success, or the engine was disposed.         *)
THEOREM NothingLost == Spec => []NoSilentLoss
<1>1. Settlement => NoSilentLoss
  BY DEF Settlement
<1> QED BY <1>1, SettlementInvariant, PTL

-----------------------------------------------------------------------------
(* The cap.                                                                 *)

LEMMA RequestFinite ==
  ASSUME NEW S, S \subseteq Request
  PROVE  IsFiniteSet(S) /\ Cardinality(S) \in Nat
<1>1. IsFiniteSet(Piece) /\ IsFiniteSet(1..MaxRetries + 1)
  BY ConstantsAssumption, FS_Interval DEF Piece
<1>2. IsFiniteSet(Request)
  BY <1>1, FS_Product DEF Request
<1> QED BY <1>2, FS_Subset, FS_CardinalityType

(* Steps that only take requests out of the table keep every window within   *)
(* its cap.                                                                *)
LEMMA SettlingKeepsCap ==
  ASSUME Ledger, WindowCap, outstanding' \subseteq outstanding, direct' = direct
  PROVE  WindowCap'
<1> SUFFICES ASSUME NEW w \in Windows
             PROVE  Cardinality({r \in outstanding' : direct'[r].window = w}) <= Cap
  BY DEF WindowCap
<1> DEFINE before == {r \in outstanding : direct[r].window = w}
           after == {r \in outstanding' : direct'[r].window = w}
<1>1. after \subseteq before /\ before \subseteq Request
  BY DEF Ledger, TypeOK
<1>2. Cardinality(before) <= Cap
  BY DEF WindowCap
<1> HIDE DEF before, after
<1>3. Cardinality(after) <= Cardinality(before)
  BY <1>1, RequestFinite, FS_Subset
<1>4. Cardinality(after) \in Nat /\ Cardinality(before) \in Nat /\ Cap \in Nat
  BY <1>1, RequestFinite, ConstantsAssumption
<1>5. Cardinality(after) <= Cap
  BY <1>2, <1>3, <1>4
<1> QED BY <1>5 DEF after

(* A request is created only in a window that has room.                      *)
LEMMA RequestNextPieceKeepsCap ==
  ASSUME Ledger, WindowCap, Fresh, NEW w \in Windows, NEW kind, NEW n, NEW st, NEW q,
         HasRoom(w), RequestNextPiece(w, kind, n, st, q), Ledger'
  PROVE  WindowCap'
<1>1. PICK p \in Piece :
        /\ outstanding' = outstanding \cup {<<p, issued[p] + 1>>}
        /\ direct' = [direct EXCEPT ![<<p, issued[p] + 1>>] =
                        [window |-> w, generation |-> generation[w], retryCount |-> n]]
  BY DEF RequestNextPiece, Schedulable
<1> DEFINE new == <<p, issued[p] + 1>>
<1>2. new \in Request
  BY <1>1 DEF Ledger, TypeOK
<1>3. new \notin outstanding
  BY <1>2, ConstantsAssumption, SMTT(20) DEF Fresh, Ledger, TypeOK
<1>4. direct'[new].window = w /\ \A r \in Request \ {new} : direct'[r] = direct[r]
  BY <1>1, <1>2 DEF Ledger, TypeOK
<1> HIDE DEF new
<1>5. outstanding' = outstanding \cup {new}
  BY <1>1 DEF new
<1> SUFFICES ASSUME NEW v \in Windows
             PROVE  Cardinality({r \in outstanding' : direct'[r].window = v}) <= Cap
  BY DEF WindowCap
<1> DEFINE before == {r \in outstanding : direct[r].window = v}
           after == {r \in outstanding' : direct'[r].window = v}
<1>6. before \subseteq Request /\ new \notin before /\ Cardinality(before) <= Cap
  BY <1>3 DEF WindowCap, Ledger, TypeOK
<1>7. v = w => after = before \cup {new} /\ Cardinality(before) < Cap
  BY <1>3, <1>4, <1>5, SMTT(20) DEF HasRoom, InWindow, Ledger, TypeOK
<1>8. v # w => after = before
  <2> SUFFICES ASSUME v # w, NEW r PROVE r \in after <=> r \in before
    OBVIOUS
  <2>1. CASE r = new
    BY <1>3, <1>4, <1>5, <2>1
  <2>2. CASE r # new
    <3>1. r \in outstanding => r \in Request
      BY DEF Ledger, TypeOK
    <3> QED BY <1>4, <1>5, <2>2, <3>1
  <2> QED BY <2>1, <2>2
<1> HIDE DEF before, after
<1>9. v = w => Cardinality(after) = Cardinality(before) + 1
  BY <1>6, <1>7, RequestFinite, FS_AddElement
<1>10. Cardinality(before) \in Nat /\ Cap \in Nat
  BY <1>6, RequestFinite, ConstantsAssumption
<1>11. Cardinality(after) <= Cap
  BY <1>6, <1>7, <1>8, <1>9, <1>10
<1> QED BY <1>11 DEF after

LEMMA InitCap == Init => WindowCap
<1> SUFFICES ASSUME Init, NEW w \in Windows
             PROVE  Cardinality({r \in outstanding : direct[r].window = w}) <= Cap
  BY DEF WindowCap
<1>1. {r \in outstanding : direct[r].window = w} = {}
  BY DEF Init
<1> QED BY <1>1, FS_EmptySet, ConstantsAssumption

LEMMA NextCap == Ledger /\ Ledger' /\ Settlement /\ WindowCap /\ [Next]_vars => WindowCap'
<1> SUFFICES ASSUME Ledger, Ledger', Settlement, WindowCap, [Next]_vars PROVE WindowCap'
  OBVIOUS
<1>1. CASE SettleStep
  BY <1>1, SettlingKeepsCap DEF SettleStep
<1>2. CASE CreateStep
  BY <1>2, RequestNextPieceKeepsCap DEF CreateStep, Settlement
<1> QED BY <1>1, <1>2, SettleOrCreate

(* No window ever has more requests in flight than its cap, however many     *)
(* top-ups, retries and settlements interleave.                             *)
THEOREM CapHolds == Spec => []WindowCap
<1>1. (Ledger /\ Settlement /\ WindowCap) /\ [Next]_vars => (Ledger /\ Settlement /\ WindowCap)'
  BY NextLedger, NextSettlement, NextCap
<1>2. Init => Ledger /\ Settlement /\ WindowCap
  BY InitLedger, InitSettlement, InitCap
<1> QED BY <1>1, <1>2, PTL DEF Spec

-----------------------------------------------------------------------------
(* Storage.                                                                 *)

(* Only a request that may still be answered starts a write.                 *)
LEMMA WritesStartActive ==
  ASSUME Ledger, [Next]_vars, NEW r \in Request, rx[r] # "writing", rx'[r] = "writing"
  PROVE  r \in outstanding
<1>1. \A w, kind, n, st, q : RequestNextPiece(w, kind, n, st, q) => rx'[r] # "writing"
  BY DEF RequestNextPiece, Ledger, TypeOK
<1>2. \A w, q : ~TaskEnds(w, q)
  BY DEF TaskEnds
<1>3. \A w, q : ~FillTurn(w, q)
  BY <1>1, <1>2 DEF FillTurn
<1>4. \A w, o, q : ~RetryTurn(w, o, q)
  BY <1>1, <1>2 DEF RetryTurn
<1>5. \A o, q : ~ExpireDirectRequest(o, q)
  BY DEF ExpireDirectRequest
<1>6. \A w : ~RunTask(w) /\ ~FillContinues(w)
  BY <1>2, <1>3, <1>4, <1>5 DEF RunTask, FillContinues
<1>7. \A w : ~RequestPieceWindow(w) /\ ~CancelDirectRequests(w)
  BY DEF RequestPieceWindow, CancelDirectRequests, CancelWindows
<1>8. ~FlushReports /\ ~DisposeStarts /\ ~DisposeRejects /\ ~DisposeEnds /\ ~UNCHANGED vars
  BY DEF FlushReports, DisposeStarts, CancelWindows, DisposeRejects, DisposeEnds, vars
<1>9. PICK o \in Request : RequestNext(o)
  BY <1>6, <1>7, <1>8 DEF Next, WindowNext
<1>10. \A v : v # "writing" => rx' # [rx EXCEPT ![o] = v]
  BY <1>9 DEF Ledger, TypeOK
<1>11. HashMatches(o) /\ r = o
  BY <1>5, <1>9, <1>10
  DEF RequestNext, SendSettles, SendSucceeds, SendFails, RequestSaveSettles, RequestSaved,
      RequestSaveFails, TimerFires, FlushExpires, AnswerArrives, ProviderRejects,
      RejectIncomingChunk, AnswerRefused, VerifySettles, VerifiedTooLate, HashMatches,
      HashMismatches, ReceiveSettles, WriteLands, MarkVerified, PieceSaved, PieceAcknowledged,
      ReceiveFails, DeleteLands, RejectSaved, RejectSaveFails, Ledger, TypeOK
<1> QED BY <1>11 DEF HashMatches, Active

(* A request that was settled while its answer was being hashed never        *)
(* reaches storage.                                                         *)
THEOREM NoWriteAfterSettlement == Spec => SettledNeverWrites
<1>1. Ledger /\ Settlement /\ [Next]_vars
        => [\A r \in Request : rx[r] # "writing" /\ rx'[r] = "writing" => terminals[r] = <<>>]_vars
  BY WritesStartActive DEF Settlement, OneTerminal
<1> QED BY <1>1, SettlementInvariant, PTL DEF Spec, SettledNeverWrites
-----------------------------------------------------------------------------
(* What the runs check, for every number of windows, pieces and retries.    *)

(* A window never has more requests outstanding than its cap, and no piece   *)
(* is requested more than MaxRetries + 1 times, whatever top-ups, retries    *)
(* and failing sends overlap.                                               *)
THEOREM BoundsHold == Spec => []WindowsAreBounded
<1>1. TypeOK /\ WindowCap => WindowsAreBounded
  BY DEF WindowsAreBounded
<1> QED BY <1>1, TypeCorrect, CapHolds, PTL

(* Requests are accounted for from their creation to their terminal event:   *)
(* each one but a piece's first was paid for by a failure, none ends twice   *)
(* and none disappears without a terminal, a tombstone or a disposal.       *)
THEOREM AccountingHolds == Spec => []RequestAccounting
<1>1. RequestsArePaidFor /\ OneTerminal /\ NoSilentLoss => RequestAccounting
  BY DEF RequestAccounting
<1> QED BY <1>1, PaidRequests, TerminalOnce, NothingLost, PTL
-----------------------------------------------------------------------------
(* Windows at rest.                                                         *)

(* A window runs tasks only between its first requestPieceWindow and the end *)
(* of dispose; the disposed engine runs none.                               *)
Rest ==
  /\ phase = "disposed" => \A w \in Windows : running[w] = "idle"
  /\ phase # "disposed" => \A w \in Windows \ open : running[w] = "idle" /\ queue[w] = <<>>

(* What a step may do to the tasks of the windows.                          *)
RestStep ==
  /\ phase' = "disposed" <=> phase = "disposed"
  /\ open \subseteq open'
  /\ \A w \in Windows :
       /\ running'[w] \in {running[w], "idle"} \/ (phase # "disposed" /\ w \in open)
       /\ queue'[w] = queue[w] \/ w \in open' \/ phase = "disposed"

LEMMA RestStepKeepsRest == Rest /\ RestStep => Rest'
BY DEF Rest, RestStep

(* enqueueWindow adds nothing to a window that is not open.                  *)
LEMMA FinalizeRestsQueues ==
  ASSUME TypeOK, NEW r \in Request, NEW reason, NEW q \in [Windows -> Seq(Task)],
         FinalizeDirectRequest(r, reason, q)
  PROVE  \A w \in Windows : queue'[w] = q[w] \/ w \in open
BY Zenon DEF FinalizeDirectRequest, Enqueued

LEMMA RequestNextPieceRests ==
  ASSUME TypeOK, NEW w \in Windows, NEW kind, NEW n, NEW st, NEW q \in [Windows -> Seq(Task)],
         \A v \in Windows : q[v] = queue[v] \/ v \in open,
         RequestNextPiece(w, kind, n, st, q), w \in open, phase # "disposed"
  PROVE  RestStep
<1>1. /\ running' = [running EXCEPT ![w] = kind]
      /\ queue' = q
      /\ UNCHANGED <<phase, open>>
  BY DEF RequestNextPiece, windowVars
<1>2. \A v \in Windows : running'[v] = running[v] \/ v = w
  BY <1>1 DEF TypeOK
<1> QED BY <1>1, <1>2 DEF RestStep

LEMMA TaskEndsRests ==
  ASSUME TypeOK, NEW w \in Windows, NEW q,
         \A v \in Windows : q[v] = queue[v] \/ v \in open \/ phase = "disposed", TaskEnds(w, q)
  PROVE  RestStep
<1>1. /\ running' = [running EXCEPT ![w] = "idle"]
      /\ queue' = q
      /\ UNCHANGED <<phase, open>>
  BY DEF TaskEnds, windowVars
<1>2. \A v \in Windows : running'[v] \in {running[v], "idle"}
  BY <1>1 DEF TypeOK
<1> QED BY <1>1, <1>2 DEF RestStep

LEMMA TurnRests ==
  ASSUME TypeOK, NEW w \in Windows, NEW r, NEW q \in [Windows -> Seq(Task)],
         \A v \in Windows : q[v] = queue[v] \/ v \in open, w \in open, phase # "disposed",
         FillTurn(w, q) \/ RetryTurn(w, r, q)
  PROVE  RestStep
<1>1. CASE TaskEnds(w, q)
  BY <1>1, TaskEndsRests
<1>2. ASSUME NEW kind, NEW n, NEW st, RequestNextPiece(w, kind, n, st, q) PROVE RestStep
  BY <1>2, RequestNextPieceRests
<1> QED BY <1>1, <1>2 DEF FillTurn, RetryTurn

LEMMA RunTaskRests ==
  ASSUME Ledger, Rest, NEW w \in Windows, RunTask(w)
  PROVE  RestStep
<1> DEFINE task == Head(queue[w])
           q == [queue EXCEPT ![w] = Tail(@)]
<1>1. TypeOK /\ q \in [Windows -> Seq(Task)] /\ (task.kind \in {"expire", "retry"} => task.req \in Request)
  BY HeadTask DEF RunTask, Ledger
<1>2. w \in open \/ phase = "disposed"
  BY DEF RunTask, Rest
<1>3. \A v \in Windows : q[v] = queue[v] \/ v = w
  BY DEF Ledger, TypeOK
<1>4. \/ Skipped(w) /\ TaskEnds(w, q)
      \/ ~Skipped(w) /\ (FillTurn(w, q) \/ RetryTurn(w, task.req, q))
      \/ ~Skipped(w) /\ task.kind = "expire" /\ ExpireDirectRequest(task.req, q)
  BY DEF RunTask
<1> HIDE DEF task, q
<1>5. CASE TaskEnds(w, q)
  BY <1>1, <1>2, <1>3, <1>5, TaskEndsRests
<1>6. CASE ~Skipped(w) /\ (FillTurn(w, q) \/ RetryTurn(w, task.req, q))
  BY <1>1, <1>2, <1>3, <1>6, TurnRests DEF Skipped
<1>7. CASE ~Skipped(w) /\ task.kind = "expire" /\ ExpireDirectRequest(task.req, q)
  <2>1. \A v \in Windows : queue'[v] = q[v] \/ v \in open
    BY <1>1, <1>7, FinalizeRestsQueues DEF ExpireDirectRequest
  <2>2. UNCHANGED <<running, open, phase>>
    BY <1>7 DEF ExpireDirectRequest, windowVars
  <2> QED BY <1>2, <1>3, <2>1, <2>2 DEF RestStep
<1> QED BY <1>4, <1>5, <1>6, <1>7

LEMMA RequestNextRests ==
  ASSUME Ledger, Rest, NEW r \in Request, RequestNext(r)
  PROVE  RestStep
<1>1. UNCHANGED <<phase, open>>
  BY DEF RequestNext, SendSettles, SendSucceeds, SendFails, RequestSaveSettles, RequestSaved,
         RequestSaveFails, TimerFires, FlushExpires, ExpireDirectRequest, AnswerArrives,
         ProviderRejects, RejectIncomingChunk, AnswerRefused, VerifySettles, VerifiedTooLate,
         HashMatches, HashMismatches, ReceiveSettles, WriteLands, MarkVerified, PieceSaved,
         PieceAcknowledged, ReceiveFails, DeleteLands, RejectSaved, RejectSaveFails,
         LifecycleError, windowVars
<1>2. \A w \in Windows : running'[w] \in {running[w], "idle"} \/ (phase # "disposed" /\ w \in open)
  <2>1. CASE RequestSaved(r)
    <3>1. running' = [running EXCEPT ![direct[r].window] = IF @ = "fill" THEN "looping" ELSE "idle"]
      BY <2>1 DEF RequestSaved
    <3> QED BY <3>1 DEF Rest, Ledger, TypeOK
  <2>2. CASE SendFails(r) \/ RequestSaveFails(r)
    <3>1. running' = [running EXCEPT ![direct[r].window] = "idle"]
      BY <2>2 DEF SendFails, RequestSaveFails
    <3> QED BY <3>1 DEF Ledger, TypeOK
  <2>3. CASE UNCHANGED running
    BY <2>3
  <2> QED
    BY <2>1, <2>2, <2>3
    DEF RequestNext, SendSettles, SendSucceeds, RequestSaveSettles, TimerFires, FlushExpires,
        ExpireDirectRequest, AnswerArrives, ProviderRejects, RejectIncomingChunk, AnswerRefused,
        VerifySettles, VerifiedTooLate, HashMatches, HashMismatches, ReceiveSettles, WriteLands,
        MarkVerified, PieceSaved, PieceAcknowledged, ReceiveFails, DeleteLands, RejectSaved,
        RejectSaveFails
<1>3. \A w \in Windows : queue'[w] = queue[w] \/ w \in open
  <2>0. TypeOK /\ queue \in [Windows -> Seq(Task)]
    BY DEF Ledger, TypeOK
  <2>1. ASSUME NEW reason, FinalizeDirectRequest(r, reason, queue)
        PROVE  \A w \in Windows : queue'[w] = queue[w] \/ w \in open
    BY <2>0, <2>1, FinalizeRestsQueues
  <2>2. CASE TimerFires(r)
    BY <2>0, <2>2, Zenon DEF TimerFires, Enqueued
  <2>3. CASE UNCHANGED queue
    BY <2>3
  <2> QED
    BY <2>1, <2>2, <2>3
    DEF RequestNext, SendSettles, SendSucceeds, SendFails, RequestSaveSettles, RequestSaved,
        RequestSaveFails, FlushExpires, ExpireDirectRequest, AnswerArrives, ProviderRejects,
        RejectIncomingChunk, AnswerRefused, VerifySettles, VerifiedTooLate, HashMatches,
        HashMismatches, ReceiveSettles, WriteLands, MarkVerified, PieceSaved, PieceAcknowledged,
        ReceiveFails, DeleteLands, RejectSaved, RejectSaveFails, settleVars
<1> QED BY <1>1, <1>2, <1>3 DEF RestStep

LEMMA NextRest == Ledger /\ Rest /\ [Next]_vars => Rest'
<1> SUFFICES ASSUME Ledger, Rest, [Next]_vars PROVE Rest'
  OBVIOUS
<1>1. ASSUME NEW w \in Windows, RunTask(w) PROVE Rest'
  BY <1>1, RunTaskRests, RestStepKeepsRest
<1>2. ASSUME NEW r \in Request, RequestNext(r) PROVE Rest'
  BY <1>2, RequestNextRests, RestStepKeepsRest
<1>3. ASSUME NEW w \in Windows, FillContinues(w) PROVE Rest'
  <2>1. w \in open /\ phase # "disposed"
    BY <1>3 DEF FillContinues, Rest
  <2>2. TypeOK /\ queue \in [Windows -> Seq(Task)] /\ FillTurn(w, queue)
    BY <1>3 DEF FillContinues, Ledger, TypeOK
  <2> QED BY <2>1, <2>2, TurnRests, RestStepKeepsRest
<1>4. ASSUME NEW w \in Windows, RequestPieceWindow(w) PROVE Rest'
  <2>1. /\ queue' = [queue EXCEPT ![w] = Append(@, FillTask)]
        /\ open' = open \cup {w} /\ UNCHANGED <<running, phase>>
    BY <1>4 DEF RequestPieceWindow
  <2>2. \A v \in Windows : queue'[v] = queue[v] \/ v = w
    BY <2>1 DEF Ledger, TypeOK
  <2> QED BY <2>1, <2>2, RestStepKeepsRest DEF RestStep
<1>5. ASSUME NEW w \in Windows, CancelDirectRequests(w) PROVE Rest'
  BY <1>5 DEF CancelDirectRequests, CancelWindows, Rest
<1>6. CASE FlushReports \/ DisposeStarts \/ DisposeRejects
  BY <1>6 DEF FlushReports, DisposeStarts, DisposeRejects, CancelWindows, settleVars, Rest
<1>7. CASE DisposeEnds
  BY <1>7 DEF DisposeEnds, Drained, Rest
<1>8. CASE UNCHANGED vars
  BY <1>8 DEF vars, settleVars, windowVars, Rest
<1> QED
  BY <1>1, <1>2, <1>3, <1>4, <1>5, <1>6, <1>7, <1>8 DEF Next, WindowNext

-----------------------------------------------------------------------------
(* The mapped steps.                                                        *)

(* A request not created yet belongs to no window.                           *)
Unowned == \A r \in Request : issued[r[1]] < r[2] => direct[r].window = "none"

LEMMA CreateFacts ==
  ASSUME Ledger, Ledger', NEW w, NEW kind, NEW n, NEW st, NEW q, RequestNextPiece(w, kind, n, st, q)
  PROVE  \E p \in Piece, new \in Request :
           /\ new = <<p, issued[p] + 1>>
           /\ issued[new[1]] < new[2]
           /\ issued' = [issued EXCEPT ![p] = @ + 1]
           /\ direct' = [direct EXCEPT ![new] =
                [window |-> w, generation |-> generation[w], retryCount |-> n]]
           /\ outstanding' = outstanding \cup {new}
           /\ timer' = [timer EXCEPT ![new] = "armed"]
           /\ tx' = [tx EXCEPT ![new] = "sending"]
           /\ UNCHANGED <<terminals, phase>>
<1>1. PICK p \in Piece :
        LET r == <<p, issued[p] + 1>> IN
        /\ issued' = [issued EXCEPT ![p] = @ + 1]
        /\ direct' = [direct EXCEPT ![r] =
             [window |-> w, generation |-> generation[w], retryCount |-> n]]
        /\ outstanding' = outstanding \cup {r}
        /\ timer' = [timer EXCEPT ![r] = "armed"]
        /\ tx' = [tx EXCEPT ![r] = "sending"]
        /\ UNCHANGED <<terminals, phase>>
  BY DEF RequestNextPiece, Schedulable
<1> DEFINE new == <<p, issued[p] + 1>>
<1>2. new \in Request
  BY <1>1 DEF Ledger, TypeOK
<1>3. issued[new[1]] < new[2]
  BY ConstantsAssumption DEF Ledger, TypeOK
<1> QED BY <1>1, <1>2, <1>3

LEMMA NextUnowned == Ledger /\ Ledger' /\ Unowned /\ [Next]_vars => Unowned'
<1> SUFFICES ASSUME Ledger, Ledger', Unowned, [Next]_vars PROVE Unowned'
  OBVIOUS
<1>1. CASE SettleStep
  BY <1>1 DEF SettleStep, Unowned
<1>2. CASE CreateStep
  <2>1. PICK w, kind, n, st, q : RequestNextPiece(w, kind, n, st, q)
    BY <1>2 DEF CreateStep
  <2>2. PICK p \in Piece, new \in Request :
          /\ new = <<p, issued[p] + 1>>
          /\ issued' = [issued EXCEPT ![p] = @ + 1]
          /\ direct' = [direct EXCEPT ![new] =
               [window |-> w, generation |-> generation[w], retryCount |-> n]]
    BY <2>1, CreateFacts
  <2> SUFFICES ASSUME NEW r \in Request, issued'[r[1]] < r[2] PROVE direct'[r].window = "none"
    BY DEF Unowned
  <2>3. r[1] \in Piece /\ r[2] \in Nat /\ issued[r[1]] \in Nat /\ issued[p] \in Nat
    BY ConstantsAssumption DEF Request, Ledger, TypeOK
  <2>4. issued'[r[1]] = IF r[1] = p THEN issued[r[1]] + 1 ELSE issued[r[1]]
    <3>1. issued \in [Piece -> 0..MaxRetries + 1]
      BY DEF Ledger, TypeOK
    <3> QED BY <2>2, <2>3, <3>1
  <2>5. issued[r[1]] < r[2]
    BY <2>3, <2>4
  <2>6. r # new
    BY <2>2, <2>3, <2>4
  <2> QED BY <2>2, <2>5, <2>6 DEF Unowned, Ledger, TypeOK
<1> QED BY <1>1, <1>2, SettleOrCreate

LEMMA CreateRefines ==
  ASSUME Ledger, Ledger', Rest, Unowned, CreateStep
  PROVE  Abstract!Next
<1>1. PICK w \in Windows :
        /\ HasRoom(w)
        /\ phase # "disposed" \/ running[w] = "looping"
        /\ \E kind, n, st, q : RequestNextPiece(w, kind, n, st, q)
  BY DEF CreateStep
<1>2. PICK kind, n, st, q : RequestNextPiece(w, kind, n, st, q)
  BY <1>1
<1>3. PICK p \in Piece, new \in Request :
        /\ issued[new[1]] < new[2]
        /\ direct' = [direct EXCEPT ![new] =
             [window |-> w, generation |-> generation[w], retryCount |-> n]]
        /\ outstanding' = outstanding \cup {new}
        /\ UNCHANGED <<terminals, phase>>
  BY <1>2, CreateFacts
<1> DEFINE windowOf == [r \in Request |-> direct[r].window]
<1>4. phase # "disposed"
  BY <1>1 DEF Rest
<1>5. windowOf[new] = "none"
  BY <1>3 DEF Unowned
<1>6. windowOf' = [windowOf EXCEPT ![new] = w]
  BY <1>3 DEF Ledger, TypeOK
<1>7. Cardinality({o \in outstanding : windowOf[o] = w}) < Cap
  <2>1. {o \in outstanding : windowOf[o] = w} = InWindow(w)
    BY DEF InWindow, Ledger, TypeOK
  <2> QED BY <1>1, <2>1 DEF HasRoom
<1>8. Abstract!Create(new, w)
  <2>1. UNCHANGED <<terminals, phase = "disposed">>
    BY <1>3
  <2>2. Abstract!Cardinality({o \in outstanding : windowOf[o] = w})
          = Cardinality({o \in outstanding : windowOf[o] = w})
    BY DEF Abstract!Cardinality, Cardinality
  <2> QED BY <1>3, <1>4, <1>5, <1>6, <1>7, <2>1, <2>2, Zenon DEF Abstract!Create
<1> QED BY <1>8 DEF Abstract!Next

LEMMA EventStepRefines ==
  ASSUME EventStep
  PROVE  Abstract!Next
<1>1. PICK S \in SUBSET outstanding, reason \in Reason :
       /\ outstanding' = outstanding \ S
       /\ terminals' = [r \in Request |-> IF r \in S THEN Append(terminals[r], reason) ELSE terminals[r]]
  BY DEF EventStep
<1>2. Abstract!Settle(S, reason)
  BY <1>1 DEF EventStep, Abstract!Settle
<1> QED BY <1>2 DEF Abstract!Next

LEMMA PieceSavedRefines ==
  ASSUME Ledger, NEW r \in Request, PieceSaved(r)
  PROVE  Abstract!Next
<1> DEFINE piece == [o \in Request |-> o[1]]
<1>1. outstanding' = {o \in outstanding : piece[o] # piece[r]}
  BY DEF PieceSaved, Ledger, TypeOK
<1>2. terminals' = [terminals EXCEPT ![r] = IF r \in outstanding THEN Append(@, "verified") ELSE @]
  BY DEF PieceSaved, Ledger, TypeOK
<1>3. Abstract!Obtain(r)
  BY <1>1, <1>2 DEF PieceSaved, Abstract!Obtain
<1> QED BY <1>3 DEF Abstract!Next

LEMMA DisposeEndsRefines == DisposeEnds => Abstract!Next
BY DEF DisposeEnds, requestVars, Abstract!Next, Abstract!Close

-----------------------------------------------------------------------------
(* The direct requests of the engine, with all their windows, queues,        *)
(* timers, pipelines and failures, behave as the ledger promises: they enter *)
(* a window with room, leave it once with one event unless their piece was   *)
(* obtained or the engine disposed, and none enters after the disposal.      *)
THEOREM RefinesLedger == Spec => ImplementsLedger
<1> DEFINE Inv == Ledger /\ Rest /\ Unowned
<1>1. Init => Inv /\ Abstract!Init
  <2>1. Init => Rest
    BY DEF Init, Rest
  <2>2. Init => Unowned
    BY DEF Init, Unowned, NoDirect
  <2>3. Init => Abstract!Init
    BY DEF Init, NoDirect, Abstract!Init
  <2> QED BY <2>1, <2>2, <2>3, InitLedger
<1>2. Inv /\ [Next]_vars => Inv'
  BY NextLedger, NextRest, NextUnowned
<1>3. Inv /\ Inv' /\ [Next]_vars => [Abstract!Next]_(Abstract!vars)
  BY StepKinds, CreateRefines, EventStepRefines, PieceSavedRefines, DisposeEndsRefines
<1> QED BY <1>1, <1>2, <1>3, PTL DEF Spec, ImplementsLedger, Abstract!Spec
-----------------------------------------------------------------------------
(* What the status of a piece rests on.                                     *)

(* A second request of the piece was answered with corrupt data, and that    *)
(* answer has been deleted from the storage.                                *)
Corrupted(p) == \E r \in Request : r[1] = p /\ rx[r] \in {"savingReject", "rejected"}

(* NoStrandedPiece is not inductive: some request of the piece would do, but *)
(* any one may leave the table.  It is always the newest one that carries a  *)
(* requested piece, and its pipeline has not come to the point from which it *)
(* could leave without failing or verifying the piece.                      *)
Newest(p) == <<p, issued[p]>>
Carrying == {"awaiting", "verifying", "writing", "written"}
InFlight ==
  \A p \in Piece :
    status[p] = "requested" /\ phase # "disposed" =>
      \/ Newest(p) \in tombstones
      \/ Newest(p) \in outstanding /\ rx[Newest(p)] \in Carrying

(* The bytes of a write that has landed are there when the piece is marked.  *)
Held ==
  \A r \in Request : rx[r] = "written" => r[1] \in stored \/ Corrupted(r[1])

(* The pipeline of a request that has not been created yet has not moved.    *)
Untouched == \A r \in Request : issued[r[1]] < r[2] => rx[r] = "none"

Pieces == InFlight /\ Held /\ VerifiedLostOnlyToCorruptAnswer /\ Untouched

(* What a step that creates no request may do to the status of the pieces,   *)
(* the storage and the pipelines.                                           *)
PieceStep ==
  /\ issued' = issued
  /\ tombstones \subseteq tombstones'
  /\ phase = "disposed" => phase' = "disposed"
  /\ \A r \in Request :
       /\ rx[r] = "none" => rx'[r] = "none"
       /\ rx[r] \in {"savingReject", "rejected"} => rx'[r] \in {"savingReject", "rejected"}
       /\ rx'[r] = "written" /\ rx[r] # "written" => r[1] \in stored'
       /\ r \in outstanding /\ rx[r] \in Carrying /\ status'[r[1]] = "requested" =>
            \/ phase' = "disposed"
            \/ r \in tombstones'
            \/ r \in outstanding' /\ rx'[r] \in Carrying
  /\ \A p \in Piece :
       /\ status'[p] = "requested" => status[p] = "requested"
       /\ status'[p] = "verified" /\ status[p] # "verified" =>
            \E r \in Request : r[1] = p /\ rx[r] = "written"
       /\ p \in stored \ stored' => Corrupted(p)'

LEMMA PieceStepKeepsPieces ==
  ASSUME Ledger, Pieces, PieceStep
  PROVE  Pieces'
<1>1. \A p \in Piece : Corrupted(p) => Corrupted(p)'
  BY DEF Corrupted, PieceStep
<1>2. \A r \in Request : r[1] \in Piece
  BY DEF Request
<1>3. InFlight'
  <2> SUFFICES ASSUME NEW p \in Piece, status'[p] = "requested", phase' # "disposed"
               PROVE  \/ Newest(p) \in tombstones'
                      \/ Newest(p) \in outstanding' /\ rx'[Newest(p)] \in Carrying
    BY DEF InFlight, Newest, PieceStep
  <2>1. \/ Newest(p) \in tombstones
        \/ Newest(p) \in outstanding /\ rx[Newest(p)] \in Carrying
    BY DEF Pieces, InFlight, PieceStep
  <2>2. Newest(p) \in outstanding => Newest(p) \in Request /\ Newest(p)[1] = p
    BY DEF Ledger, TypeOK, Newest
  <2> QED BY <2>1, <2>2 DEF PieceStep
<1>4. Held'
  <2> SUFFICES ASSUME NEW r \in Request, rx'[r] = "written", r[1] \notin stored'
               PROVE  Corrupted(r[1])'
    BY DEF Held
  <2> QED BY <1>1, <1>2 DEF Pieces, Held, PieceStep
<1>5. VerifiedLostOnlyToCorruptAnswer'
  <2> SUFFICES ASSUME NEW p \in Piece, status'[p] = "verified", p \notin stored'
               PROVE  Corrupted(p)'
    BY DEF VerifiedLostOnlyToCorruptAnswer, Corrupted
  <2>1. CASE p \in stored
    BY <2>1 DEF PieceStep
  <2>2. CASE p \notin stored /\ status[p] = "verified"
    <3>1. Corrupted(p)
      BY <2>2 DEF Pieces, VerifiedLostOnlyToCorruptAnswer, Corrupted
    <3> QED BY <1>1, <3>1
  <2>3. CASE p \notin stored /\ status[p] # "verified"
    BY <1>1, <2>3 DEF Pieces, Held, PieceStep
  <2> QED BY <2>1, <2>2, <2>3
<1>6. Untouched'
  BY DEF Pieces, Untouched, PieceStep
<1> QED BY <1>3, <1>4, <1>5, <1>6 DEF Pieces

(* The piece is failed and the request leaves the table, wherever its        *)
(* pipeline is.                                                             *)
LEMMA FailureIsPieceStep ==
  ASSUME Ledger, NEW r \in Request, MarkFailed(r[1]), outstanding' = outstanding \ {r},
         UNCHANGED <<issued, tombstones, phase, stored>>,
         \/ rx' = rx
         \/ rx[r] \notin {"none", "savingReject", "rejected"} /\ rx' = [rx EXCEPT ![r] = "dropped"]
  PROVE  PieceStep
<1>1. \A p \in Piece : status'[p] = IF p = r[1] THEN "failed" ELSE status[p]
  BY DEF MarkFailed, Ledger, TypeOK
<1>2. \A o \in Request \ {r} : rx'[o] = rx[o]
  BY DEF Ledger, TypeOK
<1>3. rx'[r] \in {rx[r], "dropped"} /\ (rx'[r] = rx[r] \/ rx[r] \notin {"none", "savingReject", "rejected"})
  BY DEF Ledger, TypeOK
<1>4. \A o \in Request : o[1] \in Piece
  BY DEF Request
<1> QED BY <1>1, <1>2, <1>3, <1>4 DEF PieceStep

(* Nothing fails, is verified or is stored; requests leave the table only    *)
(* with a tombstone.                                                        *)
LEMMA CalmIsPieceStep ==
  ASSUME Ledger, UNCHANGED <<issued, stored, rx>>,
         tombstones \subseteq tombstones', outstanding \subseteq outstanding' \cup tombstones',
         phase = "disposed" => phase' = "disposed",
         \A p \in Piece : status'[p] \in {status[p], "missing"}
  PROVE  PieceStep
BY DEF PieceStep, Ledger, TypeOK

LEMMA ExpireIsPieceStep ==
  ASSUME Ledger, NEW r \in Request, NEW q, ExpireDirectRequest(r, q)
  PROVE  PieceStep
<1>1. /\ UNCHANGED <<issued, stored, rx, phase, tombstones>>
      /\ outstanding' = outstanding \ {r}
  BY DEF ExpireDirectRequest, requestVars, FinalizeDirectRequest
<1>2. CASE r \in outstanding
  BY <1>1, <1>2, FailureIsPieceStep DEF ExpireDirectRequest
<1>3. CASE r \notin outstanding
  <2>1. UNCHANGED status /\ outstanding' = outstanding
    BY <1>1, <1>3 DEF ExpireDirectRequest
  <2> QED BY <1>1, <2>1, CalmIsPieceStep
<1> QED BY <1>2, <1>3

LEMMA TaskEndsIsPieceStep ==
  ASSUME Ledger, NEW w, NEW q, TaskEnds(w, q), \A p \in Piece : status'[p] \in {status[p], "missing"}
  PROVE  PieceStep
BY CalmIsPieceStep DEF TaskEnds, requestVars

LEMMA RequestNextIsPieceStep ==
  ASSUME Ledger, NEW r \in Request, RequestNext(r)
  PROVE  PieceStep
<1>0. r[1] \in Piece /\ rx \in [Request -> {"none", "awaiting", "verifying", "writing", "written", "saving",
        "announcing", "acked", "deleting", "savingReject", "rejected", "dropped"}]
  BY DEF Request, Ledger, TypeOK
<1>1. CASE SendSucceeds(r) \/ RequestSaved(r) \/ TimerFires(r)
  <2>1. UNCHANGED <<status, issued, stored, rx, outstanding, tombstones, phase>>
    BY <1>1 DEF SendSucceeds, RequestSaved, TimerFires, pieceVars, requestVars, settleVars
  <2> QED BY <2>1, CalmIsPieceStep
<1>2. CASE SendFails(r) \/ RequestSaveFails(r)
  <2>1. /\ MarkFailed(r[1]) /\ outstanding' = outstanding \ {r}
        /\ UNCHANGED <<issued, tombstones, phase, stored>>
    BY <1>2 DEF SendFails, RequestSaveFails, FinalizeDirectRequest, requestVars
  <2>2. rx' = rx \/ (rx[r] = "awaiting" /\ rx' = [rx EXCEPT ![r] = "dropped"])
    BY <1>0, <1>2 DEF SendFails, RequestSaveFails
  <2> QED BY <2>1, <2>2, FailureIsPieceStep
<1>3. CASE FlushExpires(r)
  BY <1>3, ExpireIsPieceStep DEF FlushExpires
<1>4. CASE ProviderRejects(r) \/ RejectIncomingChunk(r) \/ ReceiveFails(r)
  <2>1. /\ MarkFailed(r[1]) /\ outstanding' = outstanding \ {r}
        /\ UNCHANGED <<issued, tombstones, phase, stored>>
        /\ rx[r] \in {"awaiting", "writing", "saving", "announcing", "deleting"}
        /\ rx' = [rx EXCEPT ![r] = "dropped"]
    BY <1>4 DEF ProviderRejects, RejectIncomingChunk, AnswerRefused, ReceiveFails,
                FinalizeDirectRequest, requestVars
  <2> QED BY <2>1, FailureIsPieceStep
<1>5. CASE AnswerArrives(r) \/ VerifiedTooLate(r) \/ HashMatches(r) \/ PieceAcknowledged(r)
  <2>1. UNCHANGED <<status, issued, stored, outstanding, tombstones, phase>>
    BY <1>5 DEF AnswerArrives, VerifiedTooLate, HashMatches, PieceAcknowledged, pieceVars, requestVars, settleVars
  <2>2. \/ rx[r] = "awaiting" /\ rx' = [rx EXCEPT ![r] = "verifying"]
        \/ rx[r] = "verifying" /\ rx' = [rx EXCEPT ![r] = "writing"]
        \/ rx[r] = "announcing" /\ rx' = [rx EXCEPT ![r] = "acked"]
        \/ rx[r] = "verifying" /\ rx' = [rx EXCEPT ![r] = "dropped"] /\ (r \notin outstanding \/ r \in tombstones)
    BY <1>5 DEF AnswerArrives, VerifiedTooLate, HashMatches, PieceAcknowledged, Active
  <2> QED BY <1>0, <2>1, <2>2 DEF PieceStep, Carrying
<1>6. CASE HashMismatches(r)
  <2>1. /\ UNCHANGED <<issued, stored, outstanding, tombstones, phase>>
        /\ rx[r] = "verifying" /\ rx' = [rx EXCEPT ![r] = "deleting"]
        /\ status' = [status EXCEPT ![r[1]] = "failed"]
    BY <1>6 DEF HashMismatches, MarkFailed, requestVars, settleVars
  <2> QED BY <1>0, <2>1 DEF PieceStep, Carrying, Ledger, TypeOK
<1>7. CASE WriteLands(r)
  <2>1. /\ UNCHANGED <<status, issued, outstanding, tombstones, phase>>
        /\ rx[r] = "writing" /\ rx' = [rx EXCEPT ![r] = "written"]
        /\ stored' = stored \cup {r[1]}
    BY <1>7 DEF WriteLands, requestVars, settleVars
  <2> QED BY <1>0, <2>1 DEF PieceStep, Carrying
<1>8. CASE MarkVerified(r)
  <2>1. /\ UNCHANGED <<issued, outstanding, tombstones, phase, stored>>
        /\ rx[r] = "written" /\ rx' = [rx EXCEPT ![r] = "saving"]
        /\ status' = [status EXCEPT ![r[1]] = "verified"]
    BY <1>8 DEF MarkVerified, requestVars, settleVars
  <2> QED BY <1>0, <2>1 DEF PieceStep, Carrying, Ledger, TypeOK
<1>9. CASE PieceSaved(r)
  <2>1. /\ UNCHANGED <<status, issued, stored, phase>>
        /\ rx[r] = "saving" /\ rx' = [rx EXCEPT ![r] = "announcing"]
        /\ tombstones \subseteq tombstones'
        /\ \A o \in outstanding \ {r} : o \in outstanding' \/ o \in tombstones'
    BY <1>9 DEF PieceSaved, pieceVars
  <2> QED BY <1>0, <2>1 DEF PieceStep, Carrying
<1>10. CASE DeleteLands(r)
  <2>1. /\ UNCHANGED <<status, issued, outstanding, tombstones, phase>>
        /\ rx[r] = "deleting" /\ rx' = [rx EXCEPT ![r] = "savingReject"]
        /\ stored' = stored \ {r[1]}
    BY <1>10 DEF DeleteLands, requestVars, settleVars
  <2>2. Corrupted(r[1])'
    BY <1>0, <2>1 DEF Corrupted
  <2> QED BY <1>0, <2>1, <2>2 DEF PieceStep, Carrying
<1>11. CASE RejectSaved(r) \/ RejectSaveFails(r)
  <2>1. /\ UNCHANGED <<status, issued, stored, tombstones, phase>>
        /\ rx[r] = "savingReject" /\ rx' = [rx EXCEPT ![r] = "rejected"]
        /\ outstanding' = outstanding \ {r}
    BY <1>11 DEF RejectSaved, RejectSaveFails, FinalizeDirectRequest, pieceVars, requestVars
  <2> QED BY <1>0, <2>1 DEF PieceStep, Carrying
<1> QED
  BY <1>1, <1>2, <1>3, <1>4, <1>5, <1>6, <1>7, <1>8, <1>9, <1>10, <1>11
  DEF RequestNext, SendSettles, RequestSaveSettles, VerifySettles, ReceiveSettles

(* The creation of a request: it is the newest of its piece, and awaited.    *)
LEMMA CreateKeepsPieces ==
  ASSUME Ledger, Ledger', Pieces, NEW w, NEW kind, NEW n, NEW q,
         NEW st, \A p \in Piece : st[p] \in {status[p], "missing"},
         st \in [Piece -> {"missing", "requested", "failed", "verified"}],
         RequestNextPiece(w, kind, n, st, q)
  PROVE  Pieces'
<1>1. PICK p \in Piece :
        /\ issued' = [issued EXCEPT ![p] = @ + 1]
        /\ status' = [st EXCEPT ![p] = "requested"]
        /\ outstanding' = outstanding \cup {<<p, issued[p] + 1>>}
        /\ rx' = [rx EXCEPT ![<<p, issued[p] + 1>>] = "awaiting"]
        /\ UNCHANGED <<stored, tombstones, phase>>
  BY DEF RequestNextPiece, Schedulable
<1> DEFINE new == <<p, issued[p] + 1>>
<1>2. new \in Request /\ issued[p] \in Nat /\ issued[p] < issued[p] + 1 /\ new[1] = p
  BY <1>1, ConstantsAssumption DEF Ledger, TypeOK
<1>3. rx[new] = "none"
  BY <1>2 DEF Pieces, Untouched
<1>4. \A o \in Request \ {new} : rx'[o] = rx[o]
  BY <1>1 DEF Ledger, TypeOK
<1>5. rx'[new] = "awaiting"
  BY <1>1, <1>2 DEF Ledger, TypeOK
<1>6. /\ issued'[p] = issued[p] + 1
      /\ \A o \in Piece \ {p} : issued'[o] = issued[o] /\ status'[o] = st[o]
      /\ status'[p] = "requested"
  BY <1>1, ConstantsAssumption DEF Ledger, TypeOK
<1> HIDE DEF new
<1>7. InFlight'
  <2> SUFFICES ASSUME NEW o \in Piece, status'[o] = "requested", phase' # "disposed"
               PROVE  \/ <<o, issued'[o]>> \in tombstones'
                      \/ <<o, issued'[o]>> \in outstanding' /\ rx'[<<o, issued'[o]>>] \in Carrying
    BY DEF InFlight, Newest
  <2>1. CASE o = p
    BY <1>1, <1>5, <1>6, <2>1 DEF new, Carrying
  <2>2. CASE o # p
    <3>1. status[o] = "requested" /\ issued'[o] = issued[o] /\ phase # "disposed"
      BY <1>1, <1>6, <2>2
    <3>2. Newest(o) # new /\ (Newest(o) \in outstanding => Newest(o) \in Request)
      BY <2>2 DEF Newest, new, Ledger, TypeOK
    <3> QED BY <1>1, <1>4, <3>1, <3>2 DEF Pieces, InFlight, Newest
  <2> QED BY <2>1, <2>2
<1>8. \A o \in Piece : Corrupted(o) => Corrupted(o)'
  BY <1>3, <1>4 DEF Corrupted
<1>9. Held'
  <2>1. \A r \in Request : r[1] \in Piece
    BY DEF Request
  <2> QED BY <1>1, <1>4, <1>5, <1>8, <2>1 DEF Pieces, Held
<1>10. VerifiedLostOnlyToCorruptAnswer'
  <2> SUFFICES ASSUME NEW o \in Piece, status'[o] = "verified", o \notin stored'
               PROVE  Corrupted(o)'
    BY DEF VerifiedLostOnlyToCorruptAnswer, Corrupted
  <2>1. status[o] = "verified" /\ o \notin stored
    BY <1>1, <1>6
  <2> QED BY <1>8, <2>1 DEF Pieces, VerifiedLostOnlyToCorruptAnswer, Corrupted
<1>11. Untouched'
  <2> SUFFICES ASSUME NEW r \in Request, issued'[r[1]] < r[2] PROVE rx'[r] = "none"
    BY DEF Untouched
  <2>1. r[1] \in Piece /\ r[2] \in Nat /\ issued[r[1]] \in Nat
    BY ConstantsAssumption DEF Request, Ledger, TypeOK
  <2>2. issued[r[1]] < r[2] /\ r # new
    BY <1>2, <1>6, <2>1 DEF new
  <2> QED BY <1>4, <2>2 DEF Pieces, Untouched
<1> QED BY <1>7, <1>9, <1>10, <1>11 DEF Pieces

LEMMA TurnKeepsPieces ==
  ASSUME Ledger, Ledger', Pieces, NEW w \in Windows, NEW r \in Request, NEW q,
         FillTurn(w, q) \/ RetryTurn(w, r, q)
  PROVE  Pieces'
<1> DEFINE reset == [status EXCEPT ![r[1]] = IF @ = "failed" THEN "missing" ELSE @]
<1>1. /\ \A p \in Piece : reset[p] \in {status[p], "missing"} /\ status[p] \in {status[p], "missing"}
      /\ reset \in [Piece -> {"missing", "requested", "failed", "verified"}]
      /\ status \in [Piece -> {"missing", "requested", "failed", "verified"}]
  BY DEF Ledger, TypeOK, Request
<1>2. \/ \E kind, n : RequestNextPiece(w, kind, n, status, q)
      \/ \E kind, n : RequestNextPiece(w, kind, n, reset, q)
      \/ TaskEnds(w, q) /\ status' \in {status, reset}
  BY Zenon DEF FillTurn, RetryTurn
<1> HIDE DEF reset
<1>3. ASSUME TaskEnds(w, q), status' \in {status, reset} PROVE Pieces'
  BY <1>1, <1>3, TaskEndsIsPieceStep, PieceStepKeepsPieces
<1> QED BY <1>1, <1>2, <1>3, CreateKeepsPieces

LEMMA NextPieces == Ledger /\ Ledger' /\ Pieces /\ [Next]_vars => Pieces'
<1> SUFFICES ASSUME Ledger, Ledger', Pieces, [Next]_vars PROVE Pieces'
  OBVIOUS
<1>0. <<1, 1>> \in Request
  BY ConstantsAssumption DEF Request, Piece
<1>1. ASSUME NEW w \in Windows, RunTask(w) PROVE Pieces'
  <2> DEFINE task == Head(queue[w])
             q == [queue EXCEPT ![w] = Tail(@)]
  <2>1. task.kind \in {"expire", "retry"} => task.req \in Request
    BY <1>1, HeadTask DEF RunTask, Ledger
  <2>2. \/ TaskEnds(w, q) /\ UNCHANGED status
        \/ FillTurn(w, q)
        \/ task.kind = "retry" /\ RetryTurn(w, task.req, q)
        \/ task.kind = "expire" /\ ExpireDirectRequest(task.req, q)
    BY <1>1, Zenon DEF RunTask
  <2> HIDE DEF task, q
  <2>3. CASE TaskEnds(w, q) /\ UNCHANGED status
    BY <2>3, TaskEndsIsPieceStep, PieceStepKeepsPieces
  <2>4. CASE FillTurn(w, q)
    BY <1>0, <2>4, TurnKeepsPieces
  <2>5. CASE task.kind = "retry" /\ RetryTurn(w, task.req, q)
    BY <2>1, <2>5, TurnKeepsPieces
  <2>6. CASE task.kind = "expire" /\ ExpireDirectRequest(task.req, q)
    BY <2>1, <2>6, ExpireIsPieceStep, PieceStepKeepsPieces
  <2> QED BY <2>2, <2>3, <2>4, <2>5, <2>6
<1>2. ASSUME NEW w \in Windows, FillContinues(w) PROVE Pieces'
  BY <1>0, <1>2, TurnKeepsPieces DEF FillContinues
<1>3. ASSUME NEW r \in Request, RequestNext(r) PROVE Pieces'
  BY <1>3, RequestNextIsPieceStep, PieceStepKeepsPieces
<1>4. CASE \E w \in Windows : RequestPieceWindow(w)
  BY <1>4, CalmIsPieceStep, PieceStepKeepsPieces DEF RequestPieceWindow, pieceVars, requestVars
<1>5. ASSUME NEW S, CancelWindows(S), phase = "disposed" => phase' = "disposed" PROVE Pieces'
  <2>1. /\ UNCHANGED <<status, issued, stored, rx>>
        /\ tombstones \subseteq tombstones' /\ outstanding \subseteq outstanding' \cup tombstones'
    BY <1>5 DEF CancelWindows, pieceVars
  <2> QED BY <1>5, <2>1, CalmIsPieceStep, PieceStepKeepsPieces
<1>6. CASE (\E w \in Windows : CancelDirectRequests(w)) \/ DisposeStarts
  BY <1>5, <1>6 DEF CancelDirectRequests, DisposeStarts
<1>7. CASE FlushReports \/ DisposeRejects \/ UNCHANGED vars
  <2>1. /\ UNCHANGED <<status, issued, stored, rx, outstanding, tombstones>>
        /\ phase = "disposed" => phase' = "disposed"
    BY <1>7 DEF FlushReports, DisposeRejects, vars, pieceVars, requestVars, settleVars
  <2> QED BY <2>1, CalmIsPieceStep, PieceStepKeepsPieces
<1>8. CASE DisposeEnds
  <2>1. PieceStep
    BY <1>8 DEF DisposeEnds, PieceStep, pieceVars, requestVars
  <2> QED BY <2>1, PieceStepKeepsPieces
<1> QED
  BY <1>1, <1>2, <1>3, <1>4, <1>6, <1>7, <1>8 DEF Next, WindowNext

-----------------------------------------------------------------------------
(* What waits in the window queues.                                         *)

Has(s, task) == \E i \in 1..Len(s) : s[i] = task

(* Outstanding requests belong to open windows, and the disposed engine has  *)
(* none.                                                                    *)
Owned ==
  /\ phase = "disposed" => outstanding = {}
  /\ phase # "disposed" => \A r \in outstanding : direct[r].window \in open

(* A queued retry is of a request that has ended in that window.             *)
RetriesFollow ==
  \A w \in Windows, r \in Request :
    Has(queue[w], RetryTask(r)) => terminals[r] # <<>> /\ direct[r].window = w

Waiting == Owned /\ ExpiryIsComing /\ RetriesFollow

(* What a step may do to timers and queues.                                  *)
QueueStep ==
  /\ disabled \subseteq disabled'
  /\ phase' = "disposed" => outstanding' = {}
  /\ phase' # "disposed" => phase # "disposed" /\ open \subseteq open'
  /\ \A r \in Request :
       /\ r \in outstanding \/ terminals[r] # <<>> => direct'[r] = direct[r]
       /\ terminals[r] # <<>> => terminals'[r] # <<>>
  /\ \A r \in outstanding' \ outstanding : timer'[r] = "armed" /\ direct'[r].window \in open'
  /\ \A r \in outstanding \cap outstanding' :
       \/ direct[r].window \in disabled'
       \/ timer[r] = "armed" /\ timer'[r] = "armed"
       \/ Has(queue'[direct[r].window], ExpireTask(r))
       \/ timer[r] # "armed" /\ ~Has(queue[direct[r].window], ExpireTask(r))
  /\ \A w \in Windows, r \in Request :
       Has(queue'[w], RetryTask(r)) =>
         Has(queue[w], RetryTask(r)) \/ (terminals'[r] # <<>> /\ direct'[r].window = w)

LEMMA QueueStepKeepsWaiting ==
  ASSUME Ledger, Waiting, QueueStep, Ledger'
  PROVE  Waiting'
<1>1. Owned'
  <2> SUFFICES ASSUME phase' # "disposed", NEW r \in outstanding'
               PROVE  direct'[r].window \in open'
    BY DEF Owned, QueueStep
  <2>1. r \in outstanding => r \in Request
    BY DEF Ledger, TypeOK
  <2> QED BY <2>1 DEF Waiting, Owned, QueueStep
<1>2. ExpiryIsComing'
  <2> SUFFICES ASSUME NEW r \in outstanding', direct'[r].window \notin disabled'
               PROVE  timer'[r] = "armed" \/ Has(queue'[direct'[r].window], ExpireTask(r))
    BY DEF ExpiryIsComing, Has
  <2>1. CASE r \in outstanding
    <3>1. r \in Request /\ direct'[r] = direct[r]
      BY <2>1 DEF Ledger, TypeOK, QueueStep
    <3>2. timer[r] = "armed" \/ Has(queue[direct[r].window], ExpireTask(r))
      BY <2>1, <3>1 DEF Waiting, ExpiryIsComing, Has, QueueStep
    <3> QED BY <2>1, <3>1, <3>2 DEF QueueStep
  <2>2. CASE r \notin outstanding
    BY <2>2 DEF QueueStep
  <2> QED BY <2>1, <2>2
<1>3. RetriesFollow'
  <2> SUFFICES ASSUME NEW w \in Windows, NEW r \in Request, Has(queue'[w], RetryTask(r))
               PROVE  terminals'[r] # <<>> /\ direct'[r].window = w
    BY DEF RetriesFollow
  <2> QED BY DEF Waiting, RetriesFollow, QueueStep
<1> QED BY <1>1, <1>2, <1>3 DEF Waiting

LEMMA HasAppended ==
  ASSUME NEW s \in Seq(Task), NEW t \in Task, NEW u
  PROVE  Has(Append(s, t), u) <=> Has(s, u) \/ u = t
<1>1. /\ Len(Append(s, t)) = Len(s) + 1 /\ Len(s) \in Nat
      /\ \A i \in 1..Len(s) : Append(s, t)[i] = s[i]
      /\ Append(s, t)[Len(s) + 1] = t
  OBVIOUS
<1>2. \A i \in 1..Len(s) + 1 : i \in 1..Len(s) \/ i = Len(s) + 1
  BY <1>1
<1> QED BY <1>1, <1>2 DEF Has

LEMMA HasTail ==
  ASSUME NEW s \in Seq(Task), s # <<>>, NEW u
  PROVE  Has(s, u) <=> Has(Tail(s), u) \/ u = Head(s)
<1>1. /\ Len(s) \in Nat \ {0} /\ Len(Tail(s)) = Len(s) - 1
      /\ \A i \in 1..Len(s) - 1 : Tail(s)[i] = s[i + 1]
      /\ Head(s) = s[1]
  OBVIOUS
<1>2. ASSUME Has(s, u) PROVE Has(Tail(s), u) \/ u = Head(s)
  <2>1. PICK i \in 1..Len(s) : s[i] = u
    BY <1>2 DEF Has
  <2>2. CASE i = 1
    BY <1>1, <2>1, <2>2
  <2>3. CASE i # 1
    <3>1. i - 1 \in 1..Len(s) - 1 /\ (i - 1) + 1 = i
      BY <1>1, <2>1, <2>3
    <3>2. Tail(s)[i - 1] = u
      BY <1>1, <2>1, <3>1
    <3> QED BY <1>1, <3>1, <3>2 DEF Has
  <2> QED BY <2>2, <2>3
<1>3. ASSUME Has(Tail(s), u) PROVE Has(s, u)
  <2>1. PICK i \in 1..Len(s) - 1 : Tail(s)[i] = u
    BY <1>1, <1>3 DEF Has
  <2>2. i + 1 \in 1..Len(s) /\ s[i + 1] = u
    BY <1>1, <2>1
  <2> QED BY <2>2 DEF Has
<1>4. ASSUME u = Head(s) PROVE Has(s, u)
  BY <1>1, <1>4 DEF Has
<1> QED BY <1>2, <1>3, <1>4

(* The queues q are those of the state, with at most the task x gone.        *)
Without(q, x) ==
  \A w \in Windows : \A t : (Has(q[w], t) => Has(queue[w], t)) /\ (Has(queue[w], t) => Has(q[w], t) \/ t = x)

LEMMA TakenIsWithout ==
  ASSUME TypeOK, NEW w \in Windows, queue[w] # <<>>
  PROVE  Without([queue EXCEPT ![w] = Tail(@)], Head(queue[w]))
<1>1. queue[w] \in Seq(Task) /\ \A v \in Windows : [queue EXCEPT ![w] = Tail(@)][v] = IF v = w THEN Tail(queue[w]) ELSE queue[v]
  BY DEF TypeOK
<1> QED BY <1>1, HasTail DEF Without

LEMMA NothingIsWithout == ASSUME NEW x PROVE Without(queue, x)
BY DEF Without

LEMMA TasksDiffer ==
  \A r, o : ExpireTask(r) # FillTask /\ RetryTask(r) # FillTask /\ ExpireTask(r) # RetryTask(o)
    /\ (ExpireTask(r) = ExpireTask(o) => r = o) /\ (RetryTask(r) = RetryTask(o) => r = o)
<1>1. ASSUME NEW r, NEW o
      PROVE  /\ ExpireTask(r).kind = "expire" /\ ExpireTask(r).req = r
             /\ RetryTask(r).kind = "retry" /\ RetryTask(r).req = r
             /\ FillTask.kind = "fill"
  BY DEF ExpireTask, RetryTask, FillTask
<1> QED BY <1>1

(* The request leaves the table; its retry may be queued.                    *)
LEMMA FinalizeIsQueueStep ==
  ASSUME Ledger, Waiting, NEW r \in Request, NEW reason \in Reason, NEW q \in [Windows -> Seq(Task)],
         FinalizeDirectRequest(r, reason, q), Without(q, ExpireTask(r)),
         UNCHANGED <<direct, open, phase>>, disabled \subseteq disabled'
  PROVE  QueueStep
<1> DEFINE w == direct[r].window
<1>1. /\ outstanding' = outstanding \ {r}
      /\ timer' = IF r \in outstanding THEN [timer EXCEPT ![r] = "none"] ELSE timer
      /\ terminals' = IF r \in outstanding THEN [terminals EXCEPT ![r] = Append(@, reason)] ELSE terminals
      /\ \/ queue' = q
         \/ r \in outstanding /\ queue' = Enqueued(q, w, RetryTask(r))
  BY Zenon DEF FinalizeDirectRequest, Finalizable
<1>2. \A o \in outstanding' : timer'[o] = timer[o]
  BY <1>1 DEF Ledger, TypeOK
<1>3. /\ \A o \in Request : terminals[o] # <<>> => terminals'[o] # <<>>
      /\ r \in outstanding => terminals'[r] # <<>>
  <2>0. terminals[r] \in Seq(Reason)
    BY DEF Ledger, TypeOK
  <2>1. Append(terminals[r], reason) # <<>>
    BY <2>0
  <2> QED BY <1>1, <2>1 DEF Ledger, TypeOK
<1>4. RetryTask(r) \in Task /\ TypeOK /\ q \in [Windows -> Seq(Task)]
  BY DEF Task, Ledger
<1>5. \A v \in Windows : \A t :
        /\ Has(q[v], t) => Has(queue'[v], t)
        /\ Has(queue'[v], t) => Has(q[v], t) \/ (t = RetryTask(r) /\ v = w /\ r \in outstanding)
  <2>1. CASE queue' = q
    BY <2>1
  <2>2. CASE /\ r \in outstanding /\ w \in Windows
             /\ queue' = [q EXCEPT ![w] = Append(@, RetryTask(r))]
    <3> HIDE DEF w
    <3>1. \A v \in Windows : /\ queue'[v] = IF v = w THEN Append(q[v], RetryTask(r)) ELSE q[v]
                             /\ q[v] \in Seq(Task)
      BY <2>2
    <3> QED BY <1>4, <2>2, <3>1, HasAppended
  <2>3. queue' = q \/ (r \in outstanding /\ w \in Windows /\ queue' = [q EXCEPT ![w] = Append(@, RetryTask(r))])
    BY <1>1, <1>4 DEF Enqueued, TypeOK
  <2> QED BY <2>1, <2>2, <2>3
<1> HIDE DEF w
<1>6. \A o \in outstanding' : Has(queue[direct[o].window], ExpireTask(o)) /\ direct[o].window \in Windows
        => Has(queue'[direct[o].window], ExpireTask(o))
  BY <1>1, <1>5, TasksDiffer DEF Without
<1>7. \A o \in outstanding' : phase # "disposed" => direct[o].window \in Windows
  BY <1>1 DEF Waiting, Owned, Ledger, TypeOK
<1>8. \A v \in Windows, o \in Request :
        Has(queue'[v], RetryTask(o)) => Has(queue[v], RetryTask(o)) \/ (terminals'[o] # <<>> /\ direct[o].window = v)
  BY <1>3, <1>5, TasksDiffer DEF Without, w
<1>9. phase = "disposed" => outstanding' = {}
  BY <1>1 DEF Waiting, Owned
<1> QED BY <1>1, <1>2, <1>3, <1>6, <1>7, <1>8, <1>9 DEF QueueStep

(* A step that settles nothing, and takes at most one task that is not an    *)
(* expiry.                                                                  *)
LEMMA CalmIsQueueStep ==
  ASSUME Ledger, Waiting, UNCHANGED <<direct, outstanding, terminals, timer, phase>>,
         open \subseteq open', disabled \subseteq disabled',
         NEW x, \A w \in Windows : \A t : Has(queue[w], t) => Has(queue'[w], t) \/ t = x \/ w \in disabled,
         \A r : x # ExpireTask(r),
         \A w \in Windows, r \in Request : Has(queue'[w], RetryTask(r)) => Has(queue[w], RetryTask(r))
  PROVE  QueueStep
<1>1. \A o \in outstanding : phase # "disposed" => direct[o].window \in Windows
  BY DEF Waiting, Owned, Ledger, TypeOK
<1> QED BY <1>1 DEF QueueStep, Waiting, Owned

LEMMA TaskEndsIsQueueStep ==
  ASSUME Ledger, Waiting, NEW w \in Windows, NEW q, TaskEnds(w, q),
         NEW x, Without(q, x), \/ \A r : x # ExpireTask(r)
                               \/ w \in disabled /\ \A v \in Windows \ {w} : q[v] = queue[v]
                               \/ phase = "disposed"
  PROVE  QueueStep
<1>1. UNCHANGED <<direct, outstanding, terminals, timer, phase, open, disabled>> /\ queue' = q
  BY DEF TaskEnds, requestVars, windowVars
<1>2. CASE \A r : x # ExpireTask(r)
  BY <1>1, <1>2, CalmIsQueueStep DEF Without
<1>3. CASE w \in disabled /\ \A v \in Windows \ {w} : q[v] = queue[v]
  BY <1>1, <1>3, TasksDiffer, CalmIsQueueStep DEF Without
<1>4. CASE phase = "disposed"
  BY <1>1, <1>4 DEF QueueStep, Without, Waiting, Owned
<1> QED BY <1>2, <1>3, <1>4

LEMMA CreateIsQueueStep ==
  ASSUME Ledger, Ledger', Fresh, Waiting, NEW w \in Windows, NEW kind, NEW n, NEW st, NEW q,
         RequestNextPiece(w, kind, n, st, q), w \in open, phase # "disposed",
         NEW x, Without(q, x), \A r : x # ExpireTask(r)
  PROVE  QueueStep
<1>1. PICK p \in Piece, new \in Request :
           /\ new = <<p, issued[p] + 1>>
           /\ issued[new[1]] < new[2]
           /\ direct' = [direct EXCEPT ![new] =
                [window |-> w, generation |-> generation[w], retryCount |-> n]]
           /\ outstanding' = outstanding \cup {new}
           /\ timer' = [timer EXCEPT ![new] = "armed"]
  BY CreateFacts
<1>2. /\ queue' = q
      /\ UNCHANGED <<terminals, phase, open, disabled>>
  BY DEF RequestNextPiece, windowVars
<1>4. new \notin outstanding /\ terminals[new] = <<>>
  BY <1>1 DEF Fresh
<1>5. /\ direct'[new].window = w /\ timer'[new] = "armed"
      /\ \A r \in Request \ {new} : direct'[r] = direct[r] /\ timer'[r] = timer[r]
  BY <1>1 DEF Ledger, TypeOK
<1>6. \A r \in outstanding : r \in Request /\ direct[r].window \in Windows
  BY DEF Waiting, Owned, Ledger, TypeOK
<1>7. \A r \in outstanding' \ outstanding : timer'[r] = "armed" /\ direct'[r].window \in open'
  BY <1>1, <1>2, <1>5
<1>8. \A r \in outstanding : r # new
  BY <1>4
<1>9. \A r \in outstanding : timer[r] = "armed" => timer'[r] = "armed"
  BY <1>5, <1>6, <1>8
<1>10. \A r \in outstanding : Has(queue[direct[r].window], ExpireTask(r)) => Has(queue'[direct[r].window], ExpireTask(r))
  BY <1>2, <1>6 DEF Without
<1>11. \A v \in Windows, r \in Request : Has(queue'[v], RetryTask(r)) => Has(queue[v], RetryTask(r))
  BY <1>2 DEF Without
<1>12. \A r \in Request : r \in outstanding \/ terminals[r] # <<>> => direct'[r] = direct[r]
  BY <1>4, <1>5
<1> QED BY <1>2, <1>7, <1>9, <1>10, <1>11, <1>12 DEF QueueStep

LEMMA TurnIsQueueStep ==
  ASSUME Ledger, Ledger', Fresh, Waiting, NEW w \in Windows, NEW r, NEW q,
         FillTurn(w, q) \/ RetryTurn(w, r, q), w \in open, phase # "disposed",
         NEW x, Without(q, x), \A o : x # ExpireTask(o)
  PROVE  QueueStep
<1>1. TaskEnds(w, q) \/ \E kind, n, st : RequestNextPiece(w, kind, n, st, q)
  BY Zenon DEF FillTurn, RetryTurn
<1> QED BY <1>1, TaskEndsIsQueueStep, CreateIsQueueStep

LEMMA RequestNextIsQueueStep ==
  ASSUME Ledger, Settlement, Waiting, NEW r \in Request, RequestNext(r)
  PROVE  QueueStep
<1>0. /\ queue \in [Windows -> Seq(Task)] /\ TypeOK /\ \A x : Without(queue, x)
      /\ Reason = {"provider_reject", "send_failed", "request_timeout", "hash_mismatch",
                   "invalid_chunk", "verified", "cancelled"}
      /\ \A w : disabled \subseteq disabled \cup ({w} \cap open)
      /\ \A o : FillTask # ExpireTask(o)
  BY NothingIsWithout, TasksDiffer DEF Ledger, TypeOK, Reason, Retryable
<1>1. CASE SendFails(r) \/ RequestSaveFails(r) \/ FlushExpires(r) \/ ProviderRejects(r)
           \/ RejectIncomingChunk(r) \/ ReceiveFails(r) \/ RejectSaved(r) \/ RejectSaveFails(r)
  <2>1. PICK reason \in Reason : FinalizeDirectRequest(r, reason, queue)
    BY <1>0, <1>1 DEF SendFails, RequestSaveFails, FlushExpires, ExpireDirectRequest, ProviderRejects,
       RejectIncomingChunk, AnswerRefused, ReceiveFails, RejectSaved, RejectSaveFails
  <2>2. UNCHANGED <<direct, open, phase>> /\ disabled \subseteq disabled'
    BY <1>1 DEF SendFails, RequestSaveFails, FlushExpires, ExpireDirectRequest, ProviderRejects,
       RejectIncomingChunk, AnswerRefused, ReceiveFails, RejectSaved, RejectSaveFails,
       LifecycleError, requestVars, windowVars
  <2> QED BY <1>0, <2>1, <2>2, FinalizeIsQueueStep
<1>2. CASE TimerFires(r)
  <2>1. /\ timer[r] = "armed" /\ timer' = [timer EXCEPT ![r] = "fired"]
        /\ queue' = Enqueued(queue, direct[r].window, ExpireTask(r))
        /\ UNCHANGED <<direct, outstanding, terminals, phase, open, disabled>>
    BY <1>2 DEF TimerFires, requestVars, windowVars
  <2>2. ExpireTask(r) \in Task
    BY DEF Task
  <2>3. \A w \in Windows : \A t :
          /\ Has(queue[w], t) => Has(queue'[w], t)
          /\ Has(queue'[w], t) => Has(queue[w], t) \/ (t = ExpireTask(r) /\ w = direct[r].window)
          /\ direct[r].window \in open \ disabled /\ phase # "disposed" /\ w = direct[r].window
               => Has(queue'[w], ExpireTask(r))
    <3> DEFINE v == direct[r].window
               on == v \in open \ disabled /\ phase # "disposed"
    <3>1. queue' = IF on THEN [queue EXCEPT ![v] = Append(@, ExpireTask(r))] ELSE queue
      BY <2>1 DEF Enqueued
    <3>2. on => v \in Windows
      BY <1>0 DEF TypeOK
    <3> HIDE DEF v
    <3>3. \A w \in Windows : /\ queue'[w] = IF on /\ w = v THEN Append(queue[w], ExpireTask(r)) ELSE queue[w]
                             /\ queue[w] \in Seq(Task)
      BY <1>0, <3>1, <3>2
    <3>4. \A w \in Windows : \A t :
            /\ Has(queue[w], t) => Has(queue'[w], t)
            /\ Has(queue'[w], t) => Has(queue[w], t) \/ (t = ExpireTask(r) /\ w = v)
            /\ on /\ w = v => Has(queue'[w], ExpireTask(r))
      BY <2>2, <3>3, HasAppended
    <3> QED BY <3>4 DEF v
  <2>4. \A o \in outstanding : phase # "disposed" /\ direct[o].window \in open /\ direct[o].window \in Windows
    BY DEF Waiting, Owned, Ledger, TypeOK
  <2>5. \A o \in outstanding \ {r} : timer'[o] = timer[o]
    BY <2>1 DEF Ledger, TypeOK
  <2>6. \A w \in Windows, o \in Request : Has(queue'[w], RetryTask(o)) => Has(queue[w], RetryTask(o))
    BY <2>3, TasksDiffer
  <2>7. phase = "disposed" => outstanding = {}
    BY DEF Waiting, Owned
  <2> QED BY <2>1, <2>3, <2>4, <2>5, <2>6, <2>7 DEF QueueStep
<1>3. CASE PieceSaved(r)
  <2>1. /\ outstanding' \subseteq outstanding /\ r \notin outstanding'
        /\ timer' \in {timer, [timer EXCEPT ![r] = "none"]}
        /\ UNCHANGED <<direct, queue, phase, open, disabled>>
    BY <1>3 DEF PieceSaved, windowVars
  <2>2. \A o \in Request : terminals[o] # <<>> => terminals'[o] # <<>>
    <3>1. terminals' \in {terminals, [terminals EXCEPT ![r] = Append(@, "verified")]}
      BY <1>3 DEF PieceSaved
    <3>2. terminals \in [Request -> Seq(Reason)] /\ terminals[r] \in Seq(Reason)
      BY <1>0 DEF TypeOK
    <3>3. Append(terminals[r], "verified") # <<>>
      BY <3>2
    <3> QED BY <3>1, <3>2, <3>3
  <2>3. \A o \in outstanding' : timer'[o] = timer[o]
    BY <2>1 DEF Ledger, TypeOK
  <2>4. phase = "disposed" => outstanding = {}
    BY DEF Waiting, Owned
  <2> QED BY <2>1, <2>2, <2>3, <2>4 DEF QueueStep
<1>4. CASE SendSucceeds(r) \/ RequestSaved(r) \/ AnswerArrives(r) \/ VerifiedTooLate(r) \/ HashMatches(r)
           \/ HashMismatches(r) \/ WriteLands(r) \/ MarkVerified(r) \/ PieceAcknowledged(r) \/ DeleteLands(r)
  <2>1. UNCHANGED <<direct, outstanding, terminals, timer, phase, open, disabled, queue>>
    BY <1>4 DEF SendSucceeds, RequestSaved, AnswerArrives, VerifiedTooLate, HashMatches, HashMismatches,
       WriteLands, MarkVerified, PieceAcknowledged, DeleteLands, requestVars, settleVars, windowVars
  <2> QED BY <1>0, <2>1, CalmIsQueueStep
<1> QED
  BY <1>1, <1>2, <1>3, <1>4
  DEF RequestNext, SendSettles, RequestSaveSettles, VerifySettles, ReceiveSettles

LEMMA NextWaiting == Ledger /\ Ledger' /\ Settlement /\ Rest /\ Waiting /\ [Next]_vars => Waiting'
<1> SUFFICES ASSUME Ledger, Ledger', Settlement, Rest, Waiting, [Next]_vars PROVE QueueStep
  BY QueueStepKeepsWaiting
<1>0. Fresh /\ TypeOK /\ \A o : FillTask # ExpireTask(o)
  BY TasksDiffer DEF Settlement, Ledger
<1>1. ASSUME NEW w \in Windows, RunTask(w) PROVE QueueStep
  <2> DEFINE task == Head(queue[w])
             q == [queue EXCEPT ![w] = Tail(@)]
  <2>1. /\ q \in [Windows -> Seq(Task)] /\ task \in Task
        /\ task.kind \in {"expire", "retry"} => task.req \in Request
    BY <1>1, HeadTask DEF RunTask, Ledger
  <2>2. Without(q, task) /\ \A v \in Windows \ {w} : q[v] = queue[v]
    BY <1>0, <1>1, TakenIsWithout DEF RunTask, TypeOK
  <2>3. \/ Skipped(w) /\ TaskEnds(w, q)
        \/ ~Skipped(w) /\ task.kind = "fill" /\ FillTurn(w, q)
        \/ ~Skipped(w) /\ task.kind = "retry" /\ RetryTurn(w, task.req, q)
        \/ task.kind = "expire" /\ ExpireDirectRequest(task.req, q)
    BY <1>1, Zenon DEF RunTask
  <2>4. \A o : ExpireTask(o).kind = "expire" /\ ExpireTask(o).req = o
    BY DEF ExpireTask
  <2>5. task.kind = "expire" => task = ExpireTask(task.req)
    BY <2>1 DEF Task, ExpireTask, RetryTask, FillTask
  <2>6. w \in open \/ phase = "disposed"
    BY <1>1 DEF RunTask, Rest
  <2> HIDE DEF task, q
  <2>7. CASE Skipped(w) /\ TaskEnds(w, q)
    BY <2>2, <2>7, TaskEndsIsQueueStep DEF Skipped
  <2>8. CASE ~Skipped(w) /\ task.kind \in {"fill", "retry"} /\ (FillTurn(w, q) \/ RetryTurn(w, task.req, q))
    BY <1>0, <2>2, <2>4, <2>6, <2>8, TurnIsQueueStep DEF Skipped
  <2>9. CASE task.kind = "expire" /\ ExpireDirectRequest(task.req, q)
    <3>1. "request_timeout" \in Reason
      BY DEF Reason, Retryable
    <3> QED BY <2>1, <2>2, <2>5, <2>9, <3>1, FinalizeIsQueueStep DEF ExpireDirectRequest, requestVars, windowVars
  <2> QED BY <2>3, <2>7, <2>8, <2>9
<1>2. ASSUME NEW w \in Windows, FillContinues(w) PROVE QueueStep
  <2>1. w \in open /\ phase # "disposed"
    BY <1>2 DEF FillContinues, Rest
  <2> QED BY <1>0, <1>2, <2>1, NothingIsWithout, TurnIsQueueStep DEF FillContinues
<1>3. ASSUME NEW r \in Request, RequestNext(r) PROVE QueueStep
  BY <1>3, RequestNextIsQueueStep
<1>4. ASSUME NEW w \in Windows, RequestPieceWindow(w) PROVE QueueStep
  <2>1. /\ UNCHANGED <<direct, outstanding, terminals, timer, phase, disabled>> /\ open \subseteq open'
        /\ queue' = [queue EXCEPT ![w] = Append(@, FillTask)]
    BY <1>4 DEF RequestPieceWindow, requestVars
  <2>2. FillTask \in Task /\ queue[w] \in Seq(Task)
    BY <1>0 DEF Task, TypeOK
  <2>3. \A v \in Windows : queue'[v] = IF v = w THEN Append(queue[w], FillTask) ELSE queue[v]
    BY <1>0, <2>1 DEF TypeOK
  <2>4. \A v \in Windows : \A t :
          /\ Has(queue[v], t) => Has(queue'[v], t)
          /\ Has(queue'[v], t) => Has(queue[v], t) \/ t = FillTask
    BY <2>2, <2>3, HasAppended
  <2> QED BY <1>0, <2>1, <2>4, TasksDiffer, CalmIsQueueStep
<1>5. ASSUME NEW S, CancelWindows(S), phase' # "disposed", phase # "disposed" PROVE QueueStep
  <2>1. /\ outstanding' \subseteq outstanding /\ disabled \subseteq disabled'
        /\ UNCHANGED <<direct, queue, open>>
        /\ \A r \in outstanding' : r \in Request => timer'[r] = timer[r]
    BY <1>5 DEF CancelWindows
  <2>2. \A r \in Request : terminals[r] # <<>> => terminals'[r] # <<>>
    <3>2. ASSUME NEW r \in Request PROVE Append(terminals[r], "cancelled") # <<>>
      <4>1. terminals[r] \in Seq(Reason)
        BY <1>0 DEF TypeOK
      <4> QED BY <4>1
    <3> QED BY <1>5, <3>2 DEF CancelWindows
  <2>3. outstanding \subseteq Request
    BY <1>0 DEF TypeOK
  <2> QED BY <1>5, <2>1, <2>2, <2>3 DEF QueueStep
<1>6. ASSUME NEW w \in Windows, CancelDirectRequests(w) PROVE QueueStep
  <2>1. CASE phase # "disposed"
    BY <1>5, <1>6, <2>1 DEF CancelDirectRequests
  <2>2. CASE phase = "disposed"
    <3>1. outstanding = {}
      BY <2>2 DEF Waiting, Owned
    <3>2. /\ outstanding' = {} /\ disabled \subseteq disabled' /\ UNCHANGED <<direct, queue, open, phase>>
          /\ \A r \in Request : terminals'[r] = terminals[r]
      BY <1>6, <3>1 DEF CancelDirectRequests, CancelWindows
    <3> QED BY <2>2, <3>1, <3>2 DEF QueueStep
  <2> QED BY <2>1, <2>2
<1>7. CASE DisposeStarts
  BY <1>5, <1>7 DEF DisposeStarts
<1>8. CASE FlushReports \/ DisposeRejects \/ UNCHANGED vars
  <2>1. /\ UNCHANGED <<direct, outstanding, terminals, timer, open, disabled, queue>>
        /\ phase' = phase \/ (phase # "disposed" /\ phase' # "disposed")
    BY <1>8 DEF FlushReports, DisposeRejects, vars, requestVars, settleVars, windowVars
  <2>2. phase = "disposed" => outstanding = {}
    BY DEF Waiting, Owned
  <2> QED BY <2>1, <2>2 DEF QueueStep
<1>9. CASE DisposeEnds
  BY <1>9 DEF DisposeEnds, QueueStep, requestVars
<1> QED
  BY <1>1, <1>2, <1>3, <1>4, <1>6, <1>7, <1>8, <1>9 DEF Next, WindowNext

-----------------------------------------------------------------------------
Base == Ledger /\ Settlement /\ Rest /\ Pieces /\ Waiting

LEMMA BaseInvariant == Spec => []Base
<1>1. Init => Base
  <2>1. Init => Rest
    BY DEF Init, Rest
  <2>2. Init => Pieces
    BY ConstantsAssumption DEF Init, Pieces, InFlight, Held, VerifiedLostOnlyToCorruptAnswer, Untouched, Request
  <2>3. Init => Waiting
    <3> SUFFICES ASSUME Init PROVE Waiting
      OBVIOUS
    <3>1. \A w \in Windows : \A t : ~Has(queue[w], t)
      BY DEF Init, Has
    <3> QED BY <3>1 DEF Init, Waiting, Owned, ExpiryIsComing, RetriesFollow
  <2> QED BY <2>1, <2>2, <2>3, InitLedger, InitSettlement DEF Base
<1>2. Base /\ [Next]_vars => Base'
  BY NextLedger, NextSettlement, NextRest, NextPieces, NextWaiting DEF Base
<1> QED BY <1>1, <1>2, PTL DEF Spec

(* What the table says of a piece is backed: verified by the storage unless  *)
(* a corrupt answer to a second request deleted it, requested by a request   *)
(* in flight or tombstoned, and a request in an enabled window by its timer  *)
(* or its queued expiry, however windows, answers and failures interleave.   *)
THEOREM BackedStatus == Spec => []StatusIsBacked
<1>1. Base => StatusIsBacked
  <2>1. \A p \in Piece : Newest(p)[1] = p
    BY DEF Newest
  <2>2. InFlight => NoStrandedPiece
    BY <2>1 DEF InFlight, NoStrandedPiece
  <2> QED BY <2>2 DEF Base, Pieces, Waiting, StatusIsBacked
<1> QED BY <1>1, BaseInvariant, PTL

(* A retry is issued only in a window that is still enabled, and continues   *)
(* the chain of a request that ended in that same window generation: a      *)
(* cancellation between the failure and the retry's turn stops the chain.    *)
THEOREM RetriesStayLive == Spec => RetryOnlyInLiveGeneration
<1>1. ASSUME Base, Base', [Next]_vars, NEW r \in Request,
             tx[r] = "none", tx'[r] = "sending", direct'[r].retryCount > 0
      PROVE  /\ direct'[r].window \notin disabled
             /\ \E o \in Request :
                  /\ terminals[o] # <<>>
                  /\ direct[o].window = direct'[r].window
                  /\ direct[o].generation = generation[direct'[r].window]
                  /\ direct[o].retryCount + 1 = direct'[r].retryCount
  <2>1. ASSUME NEW w, NEW kind, NEW n, NEW st, NEW q, RequestNextPiece(w, kind, n, st, q)
        PROVE  /\ direct'[r].window = w
               /\ direct'[r].generation = generation[w]
               /\ direct'[r].retryCount = n
    <3>1. PICK p \in Piece, new \in Request :
            /\ direct' = [direct EXCEPT ![new] =
                            [window |-> w, generation |-> generation[w], retryCount |-> n]]
            /\ tx' = [tx EXCEPT ![new] = "sending"]
      BY <1>1, <2>1, CreateFacts DEF Base
    <3>2. r = new
      BY <1>1, <3>1 DEF Base, Ledger, TypeOK
    <3> QED BY <1>1, <3>1, <3>2 DEF Base, Ledger, TypeOK
  <2>2. \A w, q : ~TaskEnds(w, q)
    BY <1>1 DEF TaskEnds
  <2>3. \A w, q : ~FillTurn(w, q)
    BY <1>1, <2>1, <2>2 DEF FillTurn
  <2>4. ~SettleStep
    BY <1>1 DEF SettleStep
  <2>5. \A o, q : ~ExpireDirectRequest(o, q)
    BY <1>1 DEF ExpireDirectRequest
  <2>6. \A o \in Request : ~RequestNext(o)
    <3>1. SUFFICES ASSUME NEW o \in Request, RequestNext(o), tx' # tx PROVE FALSE
      BY <1>1
    <3>2. /\ tx[o] \in {"sending", "saving"}
          /\ \E v \in {"saving", "done"} : tx' = [tx EXCEPT ![o] = v]
      BY <2>5, <3>1
      DEF RequestNext, SendSettles, SendSucceeds, SendFails, RequestSaveSettles, RequestSaved,
          RequestSaveFails, TimerFires, FlushExpires, AnswerArrives, ProviderRejects, ExpireDirectRequest,
          RejectIncomingChunk, AnswerRefused, VerifySettles, VerifiedTooLate, HashMatches,
          HashMismatches, ReceiveSettles, WriteLands, MarkVerified, PieceSaved, PieceAcknowledged,
          ReceiveFails, DeleteLands, RejectSaved, RejectSaveFails
    <3> QED BY <1>1, <3>2 DEF Base, Ledger, TypeOK
  <2>7. PICK w \in Windows : RunTask(w)
    <3>1. \A w \in Windows : ~FillContinues(w) /\ ~RequestPieceWindow(w) /\ ~CancelDirectRequests(w)
      BY <1>1, <2>3 DEF FillContinues, RequestPieceWindow, CancelDirectRequests, CancelWindows
    <3>2. ~FlushReports /\ ~DisposeStarts /\ ~DisposeRejects /\ ~DisposeEnds /\ ~UNCHANGED vars
      BY <1>1 DEF FlushReports, DisposeStarts, CancelWindows, DisposeRejects, DisposeEnds, vars
    <3> QED BY <1>1, <2>6, <3>1, <3>2 DEF Next, WindowNext
  <2> DEFINE o == Head(queue[w]).req
             q == [queue EXCEPT ![w] = Tail(@)]
  <2>8. /\ ~Skipped(w) /\ Head(queue[w]).kind = "retry" /\ RetryTurn(w, o, q)
        /\ queue[w] # <<>>
    BY <2>2, <2>3, <2>5, <2>7 DEF RunTask
  <2>9. o \in Request /\ Has(queue[w], RetryTask(o))
    <3>1. queue[w] \in Seq(Task) /\ Head(queue[w]) \in Task
      BY <1>1, <2>8, HeadTask DEF Base, Ledger, TypeOK
    <3>2. Head(queue[w]) = RetryTask(o) /\ o \in Request
      BY <2>8, <3>1 DEF Task, ExpireTask, RetryTask, FillTask
    <3> QED BY <2>8, <3>1, <3>2, HasTail
  <2> HIDE DEF o, q
  <2>10. terminals[o] # <<>> /\ direct[o].window = w
    BY <1>1, <2>9 DEF Base, Waiting, RetriesFollow
  <2>11. /\ generation[w] = direct[o].generation
         /\ \E st : RequestNextPiece(w, "retry", NextRetry(o), st, q)
    BY <2>2, <2>8 DEF RetryTurn
  <2> QED BY <2>1, <2>8, <2>9, <2>10, <2>11 DEF NextRetry, Skipped
<1>2. Base /\ Base' /\ [Next]_vars =>
        [\A r \in Request :
           LET d == direct'[r] IN
           tx[r] = "none" /\ tx'[r] = "sending" /\ d.retryCount > 0 =>
             /\ d.window \notin disabled
             /\ \E o \in Request :
                  /\ terminals[o] # <<>>
                  /\ direct[o].window = d.window
                  /\ direct[o].generation = generation[d.window]
                  /\ direct[o].retryCount + 1 = d.retryCount]_vars
  BY <1>1
<1> QED BY <1>2, BaseInvariant, PTL DEF Spec, RetryOnlyInLiveGeneration
=============================================================================
