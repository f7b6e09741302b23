----------------------------- MODULE ChunkStream -----------------------------
(***************************************************************************)
(* A piece on its way: the provider's send queue and chunk loop             *)
(* (queueRequestedPiece, sendRequestedPiece), the data channel below it,    *)
(* and the receiver's pairing of chunk headers with binary frames           *)
(* (handleTransportMessage, handleTransportBinary, appendIncomingChunk) in  *)
(* packages/core/src/index.ts.  One provider, one receiver; a request asks  *)
(* once for a piece of its own (its retry is another request).  Bytes are   *)
(* named by the frame they come from.                                       *)
(***************************************************************************)
EXTENDS DataChannelQueue

CONSTANTS
  RequestCount, \* bound: requests of the receiver, numbered in the order it makes them
  Grid,      \* those of them made by the grid scheduler
  Chunks,    \* chunks per piece
  Notes,     \* other messages of the provider (piece maps, its own requests)
  MaxTrouble \* bound: failed reads, refusals and requests that end before their answer

Requests == 1..RequestCount

ASSUME StreamAssumption ==
  Grid \subseteq Nat /\ {RequestCount, Chunks, MaxTrouble} \subseteq Nat /\ Chunks > 0

NoHeader == [kind |-> "none"]
HeaderOf(r, k) == [kind |-> "header", req |-> r, chunk |-> k, size |-> 1]
FrameOf(r, k) == [kind |-> "frame", req |-> r, chunk |-> k, size |-> 2]
RefusalOf(r) == [kind |-> "refusal", req |-> r, chunk |-> 0, size |-> 1]
Note(n) == [kind |-> "note", req |-> n, chunk |-> 0, size |-> 2]
Nothing == [k \in 1..Chunks |-> {}]

VARIABLES
  chain,    \* pieceSendQueues: the requests of the peer not served yet, in order
  job,      \* request -> the send its sendRequestedPiece waits for, in a sequence
  noted,    \* notes sent
  unread,   \* requests whose source could not be read: the provider emits pieceRejected
  active,   \* outstandingRequests of the receiver
  header,   \* pendingChunks: the header whose frame is awaited
  chunks,   \* incomingChunks: request -> the frame taken for each chunk
  result,   \* request -> how it ended for the receiver
  trouble

streamVars == <<chain, job, noted, unread, active, header, chunks, result, trouble>>
vars == <<queueVars, streamVars>>
provider == <<chain, job, noted, unread>>
receiver == <<active, header, chunks, result>>

Init ==
  /\ QueueInit
  /\ chain = <<>> /\ job = [r \in Requests |-> <<>>] /\ noted = {} /\ unread = {}
  /\ active = {} /\ header = NoHeader /\ chunks = [r \in Requests |-> Nothing]
  /\ result = [r \in Requests |-> "none"] /\ trouble = 0

Troubled == trouble < MaxTrouble /\ trouble' = trouble + 1

-----------------------------------------------------------------------------
(* The provider.                                                            *)

RequestPiece(r) ==
  /\ channel = "open" /\ result[r] = "none" /\ \A o \in 1..r - 1 : result[o] # "none"
  /\ active' = active \cup {r} /\ result' = [result EXCEPT ![r] = "asked"]
  /\ chain' = Append(chain, r)
  /\ UNCHANGED <<queueVars, job, noted, unread, header, chunks, trouble>>

MayStart(r) == Head(chain) = r /\ job[r] = <<>>

\* What sendRequestedPiece sends first: a chunk, or a refusal of a piece it has
\* not got.
First(r) == {HeaderOf(r, 1)} \cup IF trouble < MaxTrouble THEN {RefusalOf(r)} ELSE {}

ServeStarts(r) ==
  /\ r \in ToSet(chain) /\ MayStart(r)
  /\ \E item \in First(r) :
       /\ job' = [job EXCEPT ![r] = <<item>>]
       /\ trouble' = IF item.kind = "refusal" THEN trouble + 1 ELSE trouble
       /\ Enqueue(item)
  /\ UNCHANGED <<chain, noted, unread, receiver>>

\* The promise of the request that is served settles, and the one behind it starts.
Rest == Tail(chain)

\* The promise rejects: the catch lets the request behind it start.  Without it
\* the rejection would run through all that are queued.
AfterFailureWithoutCatch == <<>>
AfterFailure == Rest

\* The source cannot be read: the request is dropped without an answer.
SourceFails(r) ==
  /\ r \in ToSet(chain) /\ MayStart(r) /\ Troubled
  /\ chain' = AfterFailure /\ unread' = unread \cup {r}
  /\ UNCHANGED <<queueVars, job, noted, receiver>>

Waits(item) == item \in ToSet(pending) \cup ToSet(current)

\* The promise of the send settled: the chunk loop goes on, ends, or throws.
Follows(item) ==
  CASE item.kind = "header" -> <<FrameOf(item.req, item.chunk)>>
    [] item.kind = "frame" /\ item.chunk < Chunks -> <<HeaderOf(item.req, item.chunk + 1)>>
    [] OTHER -> <<>>

ChunkSent(r) ==
  /\ job[r] # <<>> /\ ~Waits(job[r][1]) /\ job[r][1] \notin rejected
  /\ job' = [job EXCEPT ![r] = Follows(@[1])]
  /\ IF job'[r] = <<>>
     THEN chain' = Rest /\ UNCHANGED queueVars
     ELSE Enqueue(job'[r][1]) /\ UNCHANGED chain
  /\ UNCHANGED <<noted, unread, receiver, trouble>>

ChunkFails(r) ==
  /\ job[r] # <<>> /\ job[r][1] \in rejected
  /\ job' = [job EXCEPT ![r] = <<>>] /\ chain' = AfterFailure
  /\ UNCHANGED <<queueVars, noted, unread, receiver, trouble>>

SendNote(n) ==
  /\ n \notin noted /\ noted' = noted \cup {n}
  /\ Enqueue(Note(n))
  /\ UNCHANGED <<chain, job, unread, receiver, trouble>>

-----------------------------------------------------------------------------
(* The receiver.                                                            *)

Ends(r, how) ==
  /\ active' = active \ {r} /\ result' = [result EXCEPT ![r] = how]
  /\ chunks' = [chunks EXCEPT ![r] = Nothing]

\* finalizeDirectRequest forgets a pending header of the request; the grid's
\* own clean-up (expireRequestLeases, rejectIncomingChunk) does not.
HeaderAfter(r) == IF header # NoHeader /\ header.req = r /\ r \notin Grid THEN NoHeader ELSE header

EndsEarly(r) ==  \* a timeout, a cancellation, an expired lease
  /\ r \in active /\ Troubled
  /\ Ends(r, "ended") /\ header' = HeaderAfter(r)
  /\ UNCHANGED <<queueVars, provider>>

OnHeader(item) ==
  IF item.req \notin active THEN UNCHANGED receiver
  ELSE IF header = NoHeader THEN header' = item /\ UNCHANGED <<active, chunks, result>>
  ELSE Ends(item.req, "invalid") /\ UNCHANGED header  \* rejectIncomingChunk

HeaderStays == header
HeaderAfterFrame == NoHeader

\* A frame of another chunk than the header's may have the announced size or not.
OnFrame(item) ==
  LET r == header.req
      taken == [chunks[r] EXCEPT ![header.chunk] = {item}]
      right == \A k \in 1..Chunks : taken[k] = {FrameOf(r, k)}
  IN  /\ header # NoHeader
      /\ header' = HeaderAfterFrame
      /\ \/ /\ (item # FrameOf(r, header.chunk) \/ chunks[r][header.chunk] # {})
            /\ Ends(r, "invalid")
         \/ /\ chunks[r][header.chunk] = {}
            /\ IF \A k \in 1..Chunks : taken[k] # {}
               THEN IF r \in active THEN Ends(r, IF right THEN "good" ELSE "corrupt")
                    ELSE chunks' = [chunks EXCEPT ![r] = Nothing] /\ UNCHANGED <<active, result>>
               ELSE chunks' = [chunks EXCEPT ![r] = taken] /\ UNCHANGED <<active, result>>

OnRefusal(item) ==
  IF item.req \in active
  THEN Ends(item.req, "refused") /\ header' = HeaderAfter(item.req)
  ELSE UNCHANGED receiver

Deliver ==
  /\ wire # <<>> /\ wire' = Tail(wire)
  /\ LET item == Head(wire)
     IN  \/ item.kind = "header" /\ OnHeader(item)
         \/ item.kind = "frame" /\ OnFrame(item)
         \/ item.kind = "frame" /\ header = NoHeader /\ UNCHANGED receiver
         \/ item.kind = "refusal" /\ OnRefusal(item)
         \/ item.kind = "note" /\ UNCHANGED receiver
  /\ UNCHANGED <<pending, bytes, pump, current, channel, buffer, lowEvent, rejected, failures,
                 provider, trouble>>

-----------------------------------------------------------------------------
Serving(r) == ServeStarts(r) \/ SourceFails(r) \/ ChunkSent(r) \/ ChunkFails(r)
Queueing == QueueStep /\ UNCHANGED streamVars

Next ==
  \/ Queueing \/ Deliver \/ (ChannelFails /\ UNCHANGED streamVars)
  \/ \E r \in Requests : RequestPiece(r) \/ Serving(r) \/ EndsEarly(r)
  \/ \E n \in Notes : SendNote(n)

Spec == Init /\ [][Next]_vars

(* Microtasks and events are delivered, and an open channel drains its buffer. *)
Fairness ==
  /\ WF_vars(PumpTakes /\ UNCHANGED streamVars) /\ WF_vars(PumpSends /\ UNCHANGED streamVars)
  /\ WF_vars(BufferDrains /\ UNCHANGED streamVars) /\ WF_vars(HandleDrain /\ UNCHANGED streamVars)
  /\ WF_vars(Deliver) /\ \A r \in Requests : WF_vars(Serving(r))

FairSpec == Spec /\ Fairness

-----------------------------------------------------------------------------
(* Properties.                                                             *)

(* The stream keeps its shape, and the provider serves the requests of a     *)
(* peer one after another: pieceSendQueues never has two chunk loops awake.  *)
TypeOK ==
  /\ ToSet(chain) \subseteq Requests /\ noted \subseteq Notes
  /\ {unread, active} \subseteq SUBSET Requests
  /\ result \in [Requests -> {"none", "asked", "ended", "invalid", "good", "corrupt", "refused"}]
  /\ header = NoHeader \/ header \in {HeaderOf(r, k) : r \in Requests, k \in 1..Chunks}
  /\ Cardinality({r \in Requests : job[r] # <<>>}) <= 1

Mixed == {r \in Requests : result[r] \in {"invalid", "corrupt"}}
Cut == {item \in rejected : item.kind = "frame"}

(* Headers and frames travel as separate messages and are handled by         *)
(* separate handlers, with one header per peer waiting for its frame.  Frames *)
(* are mixed up only after the send of a frame failed behind its header, and *)
(* each such failure costs at most two requests: the one whose header was    *)
(* orphaned, and the next one, refused or answered in its place.            *)
MixedOnlyAfterCut == Cardinality(Mixed) <= 2 * Cardinality(Cut)

(* Bytes kept for reassembly belong to a live request: a direct request that *)
(* ends between a header and its frame takes the header with it.  (A grid    *)
(* request whose lease expires does not, and its late frame is kept.)       *)
NoOrphanAssembly == \A r \in Requests : chunks[r] # Nothing => r \in active \cup Grid

(* What the receiver reassembles is the stream that was sent, up to the cuts *)
(* of a failing send.                                                      *)
AssemblyIsSound == MixedOnlyAfterCut /\ NoOrphanAssembly

(* The queue under the stream: its counter of pending bytes is exact on      *)
(* success, failure and bulk rejection, and whoever waits for the buffer to  *)
(* drain is woken by an event that is still to come.                        *)
QueueIsSound == TypeOK /\ BytesAreExact /\ WaiterIsWoken

(* Requests the receiver waits for, and has no failure of their own to blame: *)
(* their source was read, none of their sends failed, and they are queued or *)
(* the channel is up.                                                        *)
Unanswered ==
  {r \in Requests :
     /\ result[r] = "asked" /\ r \notin unread
     /\ \A item \in rejected : item.kind # "note" => item.req # r
     /\ r \in ToSet(chain) \/ channel = "open"}

(* A failed send or an unreadable source ends its own request only: each     *)
(* request queued behind it is served all the same, and ends at the receiver *)
(* with the piece, a refusal or a chunk found invalid, unless its own source *)
(* or sends fail, or the channel closes on what was sent.                    *)
RequestsAreAnswered == Unanswered # {} ~> Unanswered = {}

(* Every promise of a send settles: the pump never sleeps for ever.         *)
SendsSettle == pump = "waiting" ~> pump # "waiting"
=============================================================================
