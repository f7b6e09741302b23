---------------------------- MODULE RequestLedger ----------------------------
(* What the requests of one file promise to an observer of the engine's      *)
(* events, whatever windows, queues, timers and adapters do: a request is    *)
(* created in a window that has room, and leaves the table of outstanding    *)
(* requests exactly once, with one event, unless another request obtained    *)
(* its piece or the engine was disposed.  DirectLifecycle implements it.     *)
EXTENDS Naturals, Sequences, FiniteSets

CONSTANTS
  Requests,  \* request names
  PieceOf,   \* request -> the piece it is for
  Keys,      \* window keys
  Limit,     \* requests a window may have outstanding
  Reasons    \* reasons of a requestTerminal event

VARIABLES
  owner,     \* request -> its window, or "none" before it is created
  pending,   \* requests outstanding
  events,    \* request -> reasons of its requestTerminal events
  closed     \* the engine is disposed

vars == <<owner, pending, events, closed>>

Init ==
  /\ owner = [r \in Requests |-> "none"]
  /\ pending = {}
  /\ events = [r \in Requests |-> <<>>]
  /\ closed = FALSE

(* A request enters the table of a window that has room.                     *)
Create(r, w) ==
  /\ ~closed
  /\ owner[r] = "none"
  /\ Cardinality({o \in pending : owner[o] = w}) < Limit
  /\ owner' = [owner EXCEPT ![r] = w]
  /\ pending' = pending \cup {r}
  /\ UNCHANGED <<events, closed>>

(* The requests in S leave the table, each with its event: one request on    *)
(* its timeout, its refusal or a failure, many on a cancellation.           *)
Settle(S, reason) ==
  /\ S \subseteq pending
  /\ pending' = pending \ S
  /\ events' = [r \in Requests |-> IF r \in S THEN Append(events[r], reason) ELSE events[r]]
  /\ UNCHANGED <<owner, closed>>

(* The answer of r verified its piece: every request of that piece leaves    *)
(* the table, and only r, if it was still in it, has an event.              *)
Obtain(r) ==
  /\ pending' = {o \in pending : PieceOf[o] # PieceOf[r]}
  /\ events' = [events EXCEPT ![r] = IF r \in pending THEN Append(@, "verified") ELSE @]
  /\ UNCHANGED <<owner, closed>>

(* dispose: what is still outstanding is forgotten.                          *)
Close ==
  /\ ~closed
  /\ closed' = TRUE
  /\ pending' = {}
  /\ UNCHANGED <<owner, events>>

Next ==
  \/ \E r \in Requests, w \in Keys : Create(r, w)
  \/ \E S \in SUBSET pending, reason \in Reasons : Settle(S, reason)
  \/ \E r \in Requests : Obtain(r)
  \/ Close

Spec == Init /\ [][Next]_vars
=============================================================================
