---------------------------- MODULE GridScheduler ----------------------------
(***************************************************************************)
(* The multi-provider ("grid") half of PonsWarpEngine                      *)
(* (packages/core/src/index.ts) driven by the join loop of the CLI         *)
(* (packages/cli/src/cli-runtime.ts): rarest-first scheduling under a cap  *)
(* per peer, leases, endgame requests, the receive pipeline of a grid      *)
(* answer with its re-requests, and the loop that waits for progress.      *)
(*                                                                         *)
(* What the code does without an `await` is one step, so the scheduler is  *)
(* a set of pure operators on the record `eng`; the awaits are the phases  *)
(* of `rx` (one receive pipeline per request) and `driver` (the loop), and *)
(* the members of `asides` (sends outside the pipelines).  Providers send   *)
(* every chunk of an answer at most once; chunks may be lost or late.       *)
(* Health scores only order the providers: any eligible one is chosen.     *)
(***************************************************************************)
EXTENDS Naturals, FiniteSets

CONSTANTS
  PieceCount,      \* pieces of the file
  Peers, Owner,    \* providers, the owner among them
  PerPeer, Total,  \* maxInFlightPerPeer and maxInFlightTotal of the window
  MaxRetries,      \* the engine's maxRetries
  Maps,            \* bound: the piece maps that providers announce
  EndgamePieces, EndgameProviders,  \* endgameMaxPieces, endgameMaxProviders
  MaxTrouble,      \* bound: corrupt answers, refused requests and chunks, late leases, new
                   \* maps, faults of the pipelines and of the loop, all together
  MaxFaults        \* bound: failed sends and storage operations

Piece == 1..PieceCount

ASSUME GridAssumption ==
  /\ PieceCount \in Nat \ {0} /\ Owner \in Peers /\ IsFiniteSet(Peers)
  /\ {PerPeer, Total} \subseteq Nat \ {0}
  /\ {{}, Piece} \subseteq Maps /\ Maps \subseteq SUBSET Piece
  /\ {MaxRetries, EndgamePieces, EndgameProviders, MaxTrouble, MaxFaults} \subseteq Nat

\* A request is named by its piece and its number among that piece's requests.
Request == Piece \X (1..MaxTrouble + MaxFaults + 1)
NoLease == <<0, 0>>

VARIABLES
  eng,      \* PieceManager, availability leases and outstandingRequests
  advert,   \* provider -> pieces of its latest PIECE_MAP
  due,      \* requests whose lease time is over
  stored,   \* pieces whose bytes are in the storage adapter
  rx,       \* request -> await at which the receive pipeline of its answer is
  pendingChunks,  \* provider -> request whose chunk header waits for its frame
  asides,   \* <<request, await>>: refusals of a chunk and re-requests being sent
  driver,   \* where the join loop is
  seen,     \* progress.verifiedPieces as the join loop knows it
  any,      \* whether the current window call has scheduled something
  trouble, faults

loopVars == <<driver, seen, any>>
chunkVars == <<pendingChunks, asides>>
vars == <<eng, advert, due, stored, rx, chunkVars, loopVars, trouble, faults>>

Init ==
  /\ eng = [status |-> [p \in Piece |-> "missing"], retries |-> [p \in Piece |-> 0],
            lease |-> [p \in Piece |-> NoLease], open |-> {}, tomb |-> {}, plain |-> {},
            issued |-> [p \in Piece |-> 0], peer |-> [r \in Request |-> Owner]]
  \* The owner is entered as a provider of all pieces if no other map is known.
  /\ advert \in [Peers -> Maps]
  /\ advert[Owner] \in IF \A q \in Peers \ {Owner} : advert[q] = {} THEN {{}, Piece} ELSE {{}}
  /\ due = {} /\ stored = {} /\ trouble = 0 /\ faults = 0
  /\ rx = [r \in Request |-> "none"]
  /\ pendingChunks = [q \in Peers |-> NoLease] /\ asides = {}
  /\ driver = "window" /\ seen = 0 /\ any = FALSE

-----------------------------------------------------------------------------
(* The piece table, the leases and the outstanding requests.               *)

Missing(e) == {p \in Piece : e.status[p] \in {"missing", "failed"}}
Verified(e) == {p \in Piece : e.status[p] = "verified"}
OpenFor(e, p) == {r \in e.open : r[1] = p}
Active(e, r) == r \in e.open \ e.tomb

MarkFailed(e, p) == [e EXCEPT !.status[p] = "failed", !.retries[p] = @ + 1]
ResetFailedToMissing(e, p) ==
  IF e.status[p] = "failed" THEN [e EXCEPT !.status[p] = "missing"] ELSE e
ReleaseNothing(e, r) == e
Release(e, r) == IF e.lease[r[1]] = r THEN [e EXCEPT !.lease[r[1]] = NoLease] ELSE e

\* expireRequestLeases: only the lease knows the time; a piece is returned when
\* the request of the lease is still outstanding.
ExpireRequestLeases(e) ==
  LET timedOut == {p \in Piece : e.lease[p] \in due \cap e.open}
  IN  [e EXCEPT !.lease = [p \in Piece |-> IF @[p] \in due THEN NoLease ELSE @[p]],
                !.open = @ \ {e.lease[p] : p \in timedOut},
                !.status = [p \in Piece |-> IF p \in timedOut THEN "missing" ELSE @[p]],
                !.retries = [p \in Piece |-> IF p \in timedOut THEN @[p] + 1 ELSE @[p]]]

\* markRequested and the outstanding entry; the endgame takes no lease.
Issue(e, p, q, leased) ==
  LET r == <<p, e.issued[p] + 1>>
  IN  [e EXCEPT !.status[p] = "requested", !.open = @ \cup {r}, !.issued[p] = @ + 1,
                !.peer[r] = q, !.lease[p] = IF leased THEN r ELSE @]

-----------------------------------------------------------------------------
(* Ranking of pieces and providers.                                        *)

HasRoomOffByOne(e, q) == Cardinality({r \in e.open : e.peer[r] = q}) <= PerPeer
HasRoom(e, q) == Cardinality({r \in e.open : e.peer[r] = q}) < PerPeer
Providers(e, p) == {q \in Peers : HasRoom(e, q) /\ (p \in advert[q] \/ q = Owner)}
Rarity(p) == LET all == {q \in Peers : p \in advert[q]}
             IN  Cardinality(IF all \ {Owner} # {} THEN all \ {Owner} ELSE all)
FromReceiver(e, p) == Providers(e, p) \ {Owner} # {}

\* The comparison function of requestNextGridPiece.
RanksBefore(e, a, b) ==
  IF FromReceiver(e, a) # FromReceiver(e, b) THEN FromReceiver(e, a)
  ELSE \/ Rarity(a) < Rarity(b)
       \/ Rarity(a) = Rarity(b) /\ (\/ e.retries[a] < e.retries[b]
                                    \/ e.retries[a] = e.retries[b] /\ a < b)

\* The providers that rankProviders may put first: any, for it sorts them by the
\* PeerHealthTable's scores, which follow response times and past failures.
Best(candidates) == candidates

Outcome(e, kind) == {[eng |-> e, kind |-> kind]}

\* requestNextGridPiece up to its first await: the possible outcomes.  The list
\* of missing pieces is taken before the leases are expired.
RequestNextGridPiece(e0) ==
  LET e == ExpireRequestLeases(e0)
      ready == {p \in Missing(e0) : /\ e.lease[p] = NoLease
                                    /\ e.retries[p] > MaxRetries \/ Providers(e, p) # {}}
      first == CHOOSE p \in ready : \A o \in ready \ {p} : RanksBefore(e, p, o)
  IN  CASE Missing(e0) = {} -> Outcome(e0, "complete")
        [] Missing(e0) # {} /\ ready = {} -> Outcome(e, "no_available_peer")
        [] ready # {} /\ e.retries[first] > MaxRetries -> Outcome(e, "exhausted")
        [] OTHER -> UNION {Outcome(Issue(e, first, q, TRUE), "scheduled") : q \in Best(Providers(e, first))}

\* maybeScheduleEndgamePiece up to its await.
MaybeScheduleEndgamePiece(e0) ==
  LET e == ExpireRequestLeases(e0)
      Fresh(p) == Providers(e, p) \ {e.peer[r] : r \in OpenFor(e, p)}
      ready == {p \in Missing(e0) : /\ Cardinality(OpenFor(e, p)) \in 1..EndgameProviders - 1
                                    /\ Fresh(p) # {}}
      first == CHOOSE p \in ready : \A o \in ready : p <= o
  IN  CASE Cardinality(Missing(e0)) \notin 1..EndgamePieces -> Outcome(e0, "null")
        [] Cardinality(Missing(e0)) \in 1..EndgamePieces /\ ready = {} -> Outcome(e, "null")
        [] OTHER -> UNION {Outcome(Issue(e, first, q, FALSE), "scheduled") : q \in Best(Fresh(first))}

\* requestNextPiece without direct options up to its first await: the first
\* missing piece, from this provider, without grid options, lease or cap.
RequestNextPiece(e, q) ==
  LET ready == {p \in Missing(e) : e.retries[p] <= MaxRetries}
      first == CHOOSE p \in ready : \A o \in ready : p <= o
  IN  IF ready = {} THEN e
      ELSE [Issue(e, first, q, FALSE) EXCEPT !.plain = @ \cup {<<first, e.issued[first] + 1>>}]

\* The re-request of a handler whose request failed.  The send and the save of a
\* grid request have no effect on anything modelled here.
RetryGrid(e, p) ==
  IF e.retries[p] <= MaxRetries
  THEN {o.eng : o \in RequestNextGridPiece(ResetFailedToMissing(e, p))} ELSE {e}
RetryPlain(e, p, q) ==
  IF e.retries[p] <= MaxRetries THEN {RequestNextPiece(ResetFailedToMissing(e, p), q)} ELSE {e}

\* finalizeDirectRequest refuses a grid request: receivePiece deletes it itself.
LeftOutstanding(e, r) == e
Deleted(e, r) == [e EXCEPT !.open = @ \ {r}]
\* The request whose chunk or answer is refused fails and leaves the table.
Refused(e, r) == Deleted(MarkFailed(Release(e, r), r[1]), r)

\* cancelCompetingGridRequests: the other requests of the piece, and the chunk
\* headers of theirs that wait for a frame.
Rivals(e, r) == OpenFor(e, r[1]) \ {r}
CancelCompetingGridRequests(e, r) ==
  [e EXCEPT !.open = @ \ Rivals(e, r), !.tomb = @ \cup Rivals(e, r)]
ForgetChunksOf(R) ==
  pendingChunks' = [q \in Peers |-> IF pendingChunks[q] \in R THEN NoLease ELSE pendingChunks[q]]

-----------------------------------------------------------------------------
(* The world: providers, lease clocks, faults.                              *)

MayGoWrong == trouble + faults < MaxTrouble
Troubled == MayGoWrong /\ trouble' = trouble + 1 /\ UNCHANGED faults
\* A failed send of an aside comes on top of MaxTrouble.
LateFault == faults < MaxFaults /\ faults' = faults + 1 /\ UNCHANGED trouble
Fault == MayGoWrong /\ LateFault
Smooth == UNCHANGED <<trouble, faults>>

\* A provider's PIECE_MAP with a newer generation, or the expiry of its adverts.
UpdatePeerPieceMap(q) ==
  /\ q # Owner
  /\ \E S \in Maps : advert[q] # S /\ advert' = [advert EXCEPT ![q] = S]
  /\ Troubled
  /\ UNCHANGED <<eng, due, stored, rx, chunkVars, loopVars>>

LeaseFallsDue(r) ==
  /\ r \in {eng.lease[p] : p \in Piece} \ due
  /\ Troubled
  /\ due' = due \cup {r}
  /\ UNCHANGED <<eng, advert, stored, rx, chunkVars, loopVars>>

\* The join loop learns of the progress made, and calls the window or ends.
LoopTurns(e) ==
  /\ seen' = Cardinality(Verified(e)) /\ any' = FALSE
  /\ driver' = IF Verified(e) = Piece THEN "complete" ELSE "window"

\* The `progress` event wakes waitForProgress when more pieces are verified.
WakesDriver(e) ==
  IF driver = "waiting" /\ Cardinality(Verified(e)) > seen
  THEN LoopTurns(e)
  ELSE UNCHANGED loopVars

-----------------------------------------------------------------------------
(* The chunks of an answer.                                                 *)

\* The refusal of a chunk, and a request without grid options, are sent.
Asked(e, f) == (f.plain \ e.plain) \X {"asking"}
Retry(e, r, gridOptions) ==
  IF gridOptions THEN RetryGrid(e, r[1]) ELSE RetryPlain(e, r[1], e.peer[r])

Answer(r) ==  \* header and frame of the last chunk, or the frame of a header that waits
  LET q == eng.peer[r]
  IN  /\ Active(eng, r) /\ rx[r] = "none" /\ pendingChunks[q] \in {NoLease, r}
      /\ rx' = [rx EXCEPT ![r] = "verifying"]
      /\ pendingChunks' = [pendingChunks EXCEPT ![q] = NoLease]
      /\ Smooth /\ UNCHANGED <<eng, advert, due, stored, asides, loopVars>>

\* A header whose frame does not follow at once.  It matters only if something
\* can still go wrong.
ChunkHeader(r) ==
  /\ Active(eng, r) /\ rx[r] = "none" /\ pendingChunks[eng.peer[r]] = NoLease /\ MayGoWrong
  /\ pendingChunks' = [pendingChunks EXCEPT ![eng.peer[r]] = r]
  /\ Smooth /\ UNCHANGED <<eng, advert, due, stored, rx, asides, loopVars>>

LateFrame(q) ==  \* well formed, but its request is no longer outstanding
  /\ pendingChunks[q] \in Request /\ ~Active(eng, pendingChunks[q])
  /\ pendingChunks' = [pendingChunks EXCEPT ![q] = NoLease]
  /\ Smooth /\ UNCHANGED <<eng, advert, due, stored, rx, asides, loopVars>>

\* rejectIncomingChunk up to its send: it does not ask whether the request is
\* outstanding, but takes the grid options from there.
RejectIncomingChunk(r) ==
  /\ Troubled
  /\ eng' = Refused(eng, r)
  /\ asides' = asides \cup {<<r, IF r \in eng.open THEN "refusing" ELSE "refusingLate">>}
  /\ UNCHANGED <<advert, due, stored, rx, loopVars>>

StrayHeader(r) ==  \* a header while another one waits for its frame
  /\ Active(eng, r) /\ rx[r] = "none" /\ pendingChunks[eng.peer[r]] # NoLease
  /\ RejectIncomingChunk(r) /\ UNCHANGED pendingChunks

MalformedFrame(q) ==  \* its size, or the place of its chunk, is wrong
  /\ pendingChunks[q] \in Request
  /\ pendingChunks' = [pendingChunks EXCEPT ![q] = NoLease]
  /\ RejectIncomingChunk(pendingChunks[q])

\* The PIECE_REJECT of rejectIncomingChunk is sent: `progress`, and a re-request.
RefusalSettles(r, await) ==
  /\ <<r, await>> \in asides /\ await \in {"refusing", "refusingLate"}
  /\ \/ /\ Smooth /\ WakesDriver(eng)
        /\ eng' \in Retry(eng, r, await = "refusing" /\ r \notin eng.plain)
        /\ asides' = (asides \ {<<r, await>>}) \cup Asked(eng, eng')
     \/ LateFault /\ asides' = asides \ {<<r, await>>} /\ UNCHANGED <<eng, loopVars>>
  /\ UNCHANGED <<advert, due, stored, rx, pendingChunks>>

\* The send and the save of requestNextPiece: a failure of either fails the piece.
AskSettles(r) ==
  /\ <<r, "asking">> \in asides
  /\ asides' = asides \ {<<r, "asking">>}
  /\ \/ Smooth /\ UNCHANGED eng
     \/ LateFault /\ eng' = MarkFailed(eng, r[1])
  /\ UNCHANGED <<advert, due, stored, rx, pendingChunks, loopVars>>

\* PIECE_REJECT of the provider.
ProviderRejects(r) ==
  /\ r \in eng.open /\ rx[r] = "none"
  /\ Troubled
  /\ eng' \in Retry(Refused(eng, r), r, r \notin eng.plain)
  /\ asides' = asides \cup Asked(eng, eng')
  /\ UNCHANGED <<advert, due, stored, rx, pendingChunks, loopVars>>

Chunks ==
  \/ \E q \in Peers : LateFrame(q) \/ MalformedFrame(q)
  \/ \E r \in Request : ChunkHeader(r) \/ StrayHeader(r) \/ AskSettles(r)
  \/ \E r \in Request, await \in {"refusing", "refusingLate"} : RefusalSettles(r, await)

-----------------------------------------------------------------------------
(* The receive pipeline of an answer.                                       *)

VerifyPasses(r) ==
  /\ rx[r] = "verifying"
  /\ rx' = [rx EXCEPT ![r] = IF Active(eng, r) THEN "writing" ELSE "rejecting"]
  /\ Smooth /\ UNCHANGED <<eng, advert, due, stored, chunkVars, loopVars>>

VerifyFails(r) ==
  /\ rx[r] = "verifying" /\ Troubled
  /\ IF Active(eng, r)
     THEN /\ eng' = MarkFailed(Release(eng, r), r[1])
          /\ rx' = [rx EXCEPT ![r] = "deleting"]
     ELSE rx' = [rx EXCEPT ![r] = "rejecting"] /\ UNCHANGED eng
  /\ UNCHANGED <<advert, due, stored, chunkVars, loopVars>>

DeletePieceSettles(r) ==  \* a failing deletePiece ends in the catch of handleTransportBinary
  /\ rx[r] = "deleting"
  /\ \/ /\ Smooth /\ stored' = stored \ {r[1]}
        /\ rx' = [rx EXCEPT ![r] = "rejectSaving"] /\ UNCHANGED eng
     \/ /\ Fault /\ eng' = MarkFailed(eng, r[1])
        /\ rx' = [rx EXCEPT ![r] = "done"] /\ UNCHANGED stored
  /\ UNCHANGED <<advert, due, chunkVars, loopVars>>

RejectSaved(r) ==  \* a failing save changes nothing for a grid request
  /\ rx[r] = "rejectSaving"
  /\ eng' = Deleted(eng, r)
  /\ rx' = [rx EXCEPT ![r] = "rejecting"]
  /\ WakesDriver(eng')
  /\ Smooth /\ UNCHANGED <<advert, due, stored, chunkVars>>

\* The await of writePiece ends; nothing looks at the request again.
WritePieceSettles(r) ==
  /\ rx[r] = "writing"
  /\ \/ /\ Smooth /\ stored' = stored \cup {r[1]}
        /\ eng' = Release([eng EXCEPT !.status[r[1]] = "verified"], r)
        /\ rx' = [rx EXCEPT ![r] = "saving"]
     \/ /\ Fault /\ eng' = MarkFailed(eng, r[1])
        /\ rx' = [rx EXCEPT ![r] = "rejecting"] /\ UNCHANGED stored
  /\ UNCHANGED <<advert, due, chunkVars, loopVars>>

SaveSettles(r) ==
  /\ rx[r] = "saving"
  /\ \/ /\ Smooth /\ eng' = CancelCompetingGridRequests(Deleted(eng, r), r)
        /\ ForgetChunksOf(Rivals(eng, r))
        /\ rx' = [rx EXCEPT ![r] = "announcing"]
     \/ /\ Fault /\ eng' = MarkFailed(eng, r[1])
        /\ rx' = [rx EXCEPT ![r] = "rejecting"] /\ UNCHANGED pendingChunks
  /\ UNCHANGED <<advert, due, stored, asides, loopVars>>

BroadcastSettles(r) ==  \* broadcastPieceMap, then pieceVerified and progress
  /\ rx[r] = "announcing"
  /\ rx' = [rx EXCEPT ![r] = "done"]
  /\ \/ Smooth /\ WakesDriver(eng) /\ UNCHANGED eng
     \/ Fault /\ eng' = MarkFailed(eng, r[1]) /\ UNCHANGED loopVars
  /\ UNCHANGED <<advert, due, stored, chunkVars>>

\* The PIECE_REJECT to the provider is sent, then the piece of a grid request is
\* requested again.
ResponseSettles(r) ==
  /\ rx[r] = "rejecting"
  /\ rx' = [rx EXCEPT ![r] = "done"]
  /\ \/ Smooth /\ eng' \in IF r \in eng.plain THEN {eng} ELSE RetryGrid(eng, r[1])
     \/ Fault /\ UNCHANGED eng
  /\ UNCHANGED <<advert, due, stored, chunkVars, loopVars>>

Pipeline(r) ==
  \/ VerifyPasses(r) \/ DeletePieceSettles(r) \/ RejectSaved(r)
  \/ WritePieceSettles(r) \/ SaveSettles(r) \/ BroadcastSettles(r) \/ ResponseSettles(r)

-----------------------------------------------------------------------------
(* The join loop and requestGridPieceWindow.                                *)

WaitsForAnEvent(e) == driver' = "waiting" /\ UNCHANGED <<seen, any>>
\* waitForProgress looks at the current progress before it waits.
Waits(e) ==
  IF Cardinality(Verified(e)) > seen
  THEN LoopTurns(e)
  ELSE driver' = "waiting" /\ UNCHANGED <<seen, any>>

BelowTotal(e) == Cardinality(e.open) < Total

WindowTurns ==
  /\ driver = "window"
  /\ IF BelowTotal(eng)
     THEN \E o \in MaybeScheduleEndgamePiece(eng) :
            /\ eng' = o.eng
            /\ driver' = IF o.kind = "scheduled" THEN "sending" ELSE "next"
            /\ UNCHANGED <<seen, any>>
     ELSE Waits(eng) /\ UNCHANGED eng
  /\ Smooth /\ UNCHANGED <<advert, due, stored, rx, chunkVars>>

WindowRequests ==
  /\ driver = "next"
  /\ \E o \in RequestNextGridPiece(eng) :
       /\ eng' = o.eng
       /\ CASE o.kind = "scheduled" -> driver' = "sending" /\ UNCHANGED <<seen, any>>
            [] o.kind # "scheduled" /\ ~any /\ o.eng.open = {} -> driver' = "threw" /\ UNCHANGED <<seen, any>>
            [] OTHER -> Waits(o.eng)
  /\ Smooth /\ UNCHANGED <<advert, due, stored, rx, chunkVars>>

\* The awaits of a request: its send and, outside the endgame, its save.
WindowSettles ==
  /\ driver = "sending"
  /\ \/ Smooth /\ driver' = "window" /\ any' = TRUE
     \/ Fault /\ driver' = "threw" /\ UNCHANGED any
  /\ UNCHANGED <<eng, advert, due, stored, rx, chunkVars, seen>>

ProgressTimeout ==
  /\ driver = "waiting"
  /\ driver' = "threw"
  /\ Smooth /\ UNCHANGED <<eng, advert, due, stored, rx, chunkVars, seen, any>>

Driver == WindowTurns \/ WindowRequests \/ WindowSettles

\* A loop that threw takes the engine down with it (rethrowWithCleanup).
Next ==
  /\ driver # "threw"
  /\ \/ Driver \/ ProgressTimeout \/ Chunks
     \/ \E q \in Peers : UpdatePeerPieceMap(q)
     \/ \E r \in Request : LeaseFallsDue(r) \/ Answer(r) \/ ProviderRejects(r) \/ VerifyFails(r) \/ Pipeline(r)

Spec == Init /\ [][Next]_vars

-----------------------------------------------------------------------------
(* Properties.                                                             *)

(* The scheduler's record, the pipelines and the join loop keep their shape, *)
(* and a request beyond the first was paid for by a counted failure of its  *)
(* piece (markRequested and markFailed never drift).                        *)
TypeOK ==
  /\ eng \in [status : [Piece -> {"missing", "requested", "failed", "verified"}],
              retries : [Piece -> Nat], lease : [Piece -> Request \cup {NoLease}],
              open : SUBSET Request, tomb : SUBSET Request, plain : SUBSET Request,
              issued : [Piece -> Nat], peer : [Request -> Peers]]
  /\ advert \in [Peers -> SUBSET Piece] /\ due \subseteq Request /\ stored \subseteq Piece
  /\ rx \in [Request -> {"none", "verifying", "deleting", "rejectSaving", "writing", "saving",
                         "announcing", "rejecting", "done"}]
  /\ pendingChunks \in [Peers -> Request \cup {NoLease}]
  /\ asides \subseteq Request \X {"refusing", "refusingLate", "asking"}
  /\ driver \in {"window", "next", "sending", "waiting", "complete", "threw"}
  /\ seen \in 0..PieceCount /\ any \in BOOLEAN
  /\ \A p \in Piece : eng.issued[p] <= eng.retries[p] + 1

(* However window calls, endgame requests and the re-requests of several    *)
(* failing answers interleave, no provider ever has more than                *)
(* maxInFlightPerPeer requests that carry grid options: activePerPeer is     *)
(* recounted in each call.  The requests without them come on top: the       *)
(* re-request of a chunk whose request was no longer outstanding is made by  *)
(* requestNextPiece, which knows no cap.                                    *)
PerPeerCap ==
  \A q \in Peers : Cardinality({r \in eng.open \ eng.plain : eng.peer[r] = q}) <= PerPeer

(* receivePiece releases the lease before it waits for its save, so expiry    *)
(* cannot fail the piece it has just verified: without a failing send or     *)
(* adapter, "verified" is only taken away by another request of the piece:   *)
(* one that is still outstanding besides the one whose pipeline is saving   *)
(* it, or one whose chunk header still waited for a frame (rejectIncoming-   *)
(* Chunk does not ask whether its request is outstanding).                  *)
VerifiedLostOnlyToRival ==
  [][\A p \in Verified(eng) \ Verified(eng') :
       \/ faults' > faults
       \/ \E r \in OpenFor(eng, p) : rx[r] # "saving"
       \/ \E q \in Peers : pendingChunks[q][1] = p /\ pendingChunks'[q] = NoLease]_vars

(* A lease keeps its piece from being scheduled, so it must not outlive its  *)
(* request: answered, rejected or expired, the request takes it along.  Only *)
(* one that a rival's verified answer cancelled leaves its lease to expire.  *)
LeaseGuardsLiveRequest ==
  \A p \in Piece : eng.lease[p] # NoLease => eng.lease[p] \in eng.open \cup eng.tomb

(* A slot of the window is given back when the pipeline of its answer ends:   *)
(* without adapter failures no entry of outstandingRequests survives the     *)
(* answer it waited for.  (A failing delete, or a failing save of a verified *)
(* piece, does leave the entry for ever: finalizeDirectRequest ignores grid  *)
(* requests.)                                                               *)
SlotsAreFreed == faults = 0 => \A r \in eng.open : rx[r] # "done"

(* No lost wake-up: when the join loop sleeps although more pieces are       *)
(* verified than it knows, a pipeline is still going to emit `progress`.     *)
ProgressIsAnnounced ==
  driver = "waiting" /\ Cardinality(Verified(eng)) > seen =>
    \E r \in Request : rx[r] \in {"saving", "announcing"}

(* The two bounds of the scheduler together: no piece is requested beyond its *)
(* recorded failures, no provider beyond its share of the window.           *)
RequestsAreBounded == TypeOK /\ PerPeerCap

(* Neither of the two claims a request makes, on its piece and on a slot of  *)
(* the window, outlives it.                                                 *)
ClaimsAreLive == LeaseGuardsLiveRequest /\ SlotsAreFreed

(* The join loop asks for more pieces until the file is complete, so while it *)
(* waits for progress something must be able to make some.  But a piece is    *)
(* verified at once and its slot given back only after the awaited save: a    *)
(* loop that reads getProgress in between (waitForProgress does, before it    *)
(* sleeps) counts the piece, finds its window still full and sleeps; the      *)
(* `progress` event of that piece, once the slot is free, tells it nothing    *)
(* new.                                                                      *)
WaitingHasWork ==
  driver = "waiting" /\ trouble = 0 /\ faults = 0 =>
    eng.open # {} \/ \E r \in Request : rx[r] \notin {"none", "done"}
=============================================================================
