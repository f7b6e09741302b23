--------------------------- MODULE DirectRefinement ---------------------------
(* DirectLifecycle, with its windows, queues and pipelines hidden, is a      *)
(* RequestLedger.                                                           *)
EXTENDS DirectLifecycle

Abstract == INSTANCE RequestLedger WITH
  Requests <- Request,
  PieceOf <- [r \in Request |-> r[1]],
  Keys <- Windows,
  Limit <- Cap,
  Reasons <- Reason,
  owner <- [r \in Request |-> direct[r].window],
  pending <- outstanding,
  events <- terminals,
  closed <- (phase = "disposed")

(* Every behaviour of the engine's direct requests, under any interleaving  *)
(* of timers, answers, retries, cancellations and failures, is one of the   *)
(* ledger: a request enters a window with room, leaves it once, with one    *)
(* event unless its piece was obtained or the engine disposed, and nothing  *)
(* enters after the disposal.                                               *)
ImplementsLedger == Abstract!Spec
=============================================================================
