---------------------------- MODULE ResumeStorage ----------------------------
(***************************************************************************)
(* A receiver that crashes and is started again: what PonsWarpEngine        *)
(* (packages/core/src/index.ts) persists, what the storage adapters keep,   *)
(* and what a new process restores from them.  Three adapters:              *)
(*   "pieces"  one record or renamed file per piece (IndexedDB, and the     *)
(*             piece cache of packages/cli/src/node-file-storage.ts);       *)
(*   "opfs"    the origin private file system, whose state file exists,     *)
(*             empty, before its first contents are swapped in;             *)
(*   "offset"  the CLI (packages/cli/src/cli-runtime.ts): pieces go to      *)
(*             their offset in the output, a second state file names them.  *)
(* A file written under another name and renamed, or swapped in on close,   *)
(* changes at once; saves that overlap land in any order.  Requests are     *)
(* reduced to one pipeline per piece: DirectLifecycle has the rest.         *)
(***************************************************************************)
EXTENDS Naturals

CONSTANTS
  PieceCount,   \* pieces of the file
  Adapters,     \* the adapters of this instance
  MaxRetries,   \* the engine's maxRetries
  MaxTrouble,   \* bound: corrupt answers and bytes lost while the receiver is down
  MaxRestarts   \* bound: crashes and reruns after completion

ASSUME ResumeAssumption ==
  /\ PieceCount \in Nat \ {0} /\ Adapters \subseteq {"pieces", "opfs", "offset"}
  /\ {MaxRetries, MaxTrouble, MaxRestarts} \subseteq Nat

Piece == 1..PieceCount
Statuses == {"missing", "requested", "failed", "verified"}
NoMap == [found |-> "none"]
TornMap == [found |-> "torn"]  \* a state file that does not parse
NoSave == [found |-> "idle"]

VARIABLES
  adapter,    \* the storage adapter
  disk,       \* piece -> what its place in the storage holds: none, good or bad
  saved,      \* the persisted session state: the statuses and retry counts
  offsetFile, \* the pieces the offset state file names as written
  phase,      \* down, or where the process is
  status, retries,  \* the PieceManager
  offset,     \* the pieces the adapter's memory holds as written (offset)
  todo,       \* pieces the restore has still to look at
  work,       \* piece -> await at which its pipeline is
  flight,     \* session states being saved: by piece pipelines, 0 for the rest
  recording,  \* piece -> offset state it is saving
  trouble, restarts

vars == <<adapter, disk, saved, offsetFile, phase, status, retries, offset, todo, work,
          flight, recording, trouble, restarts>>
memory == <<status, retries, offset, todo, work, flight, recording>>
bounds == <<trouble, restarts>>

Init ==
  /\ adapter \in Adapters
  /\ disk = [p \in Piece |-> "none"] /\ saved = NoMap /\ offsetFile = {}
  /\ phase = "down"
  /\ status = [p \in Piece |-> "missing"] /\ retries = [p \in Piece |-> 0]
  /\ offset = {} /\ todo = {}
  /\ work = [p \in Piece |-> "idle"]
  /\ flight = [i \in 0..PieceCount |-> NoSave] /\ recording = [p \in Piece |-> {}]
  /\ trouble = 0 /\ restarts = 0

Troubled == trouble < MaxTrouble /\ trouble' = trouble + 1 /\ UNCHANGED restarts
Verified == {p \in Piece : status[p] = "verified"}
\* What persistState gives to saveState: a copy of the piece map.
Snapshot(st, re) == [found |-> "map", status |-> st, retries |-> re]
Saves(i) == flight' = [flight EXCEPT ![i] = Snapshot(status', retries')]

-----------------------------------------------------------------------------
(* Start: joinSession, then in the CLI prepareOutputFile and resumeFile.    *)

\* PieceManager.importPieceMap.
ImportedAsSaved(s) == s
Imported(s) == IF s = "requested" THEN "missing" ELSE s
ImportedRetriesCounted(m, p) == m.retries[p] + IF m.status[p] = "requested" THEN 1 ELSE 0
ImportedRetries(m, p) == m.retries[p]
ToCheck(m) == {p \in Piece : m.status[p] = "verified"}

JoinSession ==
  /\ phase = "down"
  /\ phase' = CASE saved = TornMap -> "refused" [] saved = NoMap -> "joining" [] OTHER -> "restoring"
  /\ IF saved.found = "map"
     THEN /\ status' = [p \in Piece |-> Imported(saved.status[p])]
          /\ retries' = [p \in Piece |-> ImportedRetries(saved, p)]
          /\ todo' = ToCheck(saved)
     ELSE /\ status' = [p \in Piece |-> "missing"] /\ retries' = [p \in Piece |-> 0]
          /\ todo' = {}
  /\ IF saved = NoMap THEN Saves(0) ELSE UNCHANGED flight
  /\ UNCHANGED <<adapter, disk, saved, offsetFile, offset, work, recording, bounds>>

\* readPiece: without a prepared output the offset adapter looks for a piece
\* file, and the CLI has none.
ReadableOncePrepared(p) ==
  IF phase = "restoring" \/ p \notin offset THEN "none" ELSE disk[p]
Readable(p) ==
  IF adapter = "offset" /\ (phase = "restoring" \/ p \notin offset) THEN "none" ELSE disk[p]
ValidIfPresent(p) == Readable(p) # "none"
Valid(p) == Readable(p) = "good"

\* One turn of the loop of restoreResumeState, deletePiece included.
RestorePiece ==
  /\ phase \in {"restoring", "resuming"} /\ todo # {}
  /\ LET p == CHOOSE q \in todo : \A o \in todo : q <= o
     IN  /\ todo' = todo \ {p}
         /\ IF Valid(p)
            THEN UNCHANGED <<disk, offsetFile, status, retries, offset>>
            ELSE /\ status' = [status EXCEPT ![p] = "missing"]
                 /\ retries' = [retries EXCEPT ![p] = @ + 1]
                 /\ offset' = offset \ {p}
                 /\ offsetFile' = IF phase = "resuming" THEN offset \ {p} ELSE offsetFile
                 /\ disk' = IF adapter # "offset" THEN [disk EXCEPT ![p] = "none"] ELSE disk
  /\ UNCHANGED <<adapter, saved, phase, work, flight, recording, bounds>>

Restored ==
  /\ phase \in {"restoring", "resuming"} /\ todo = {}
  /\ phase' = IF phase = "restoring" THEN "rejoining" ELSE "resumed"
  /\ UNCHANGED <<status, retries>> /\ Saves(0)
  /\ UNCHANGED <<adapter, disk, saved, offsetFile, offset, todo, work, recording, bounds>>

\* prepareOutputFile: keeps the bytes of the partial output, and trusts the
\* offset state file for which of them were verified.
PrepareOutputFile ==
  /\ phase = "preparing"
  /\ phase' = "resuming" /\ offset' = offsetFile /\ todo' = Verified
  /\ UNCHANGED <<adapter, disk, saved, offsetFile, status, retries, work, flight, recording, bounds>>

-----------------------------------------------------------------------------
(* The transfer: requests, and the receive pipeline of each answer.         *)

RequestPiece(p) ==  \* the top-up loop waits for its own save
  /\ phase = "running" /\ work[p] = "idle" /\ flight[0] = NoSave
  /\ status[p] \in {"missing", "failed"} /\ retries[p] <= MaxRetries
  /\ status' = [status EXCEPT ![p] = "requested"] /\ UNCHANGED retries
  /\ work' = [work EXCEPT ![p] = "sent"]
  /\ Saves(0)
  /\ UNCHANGED <<adapter, disk, saved, offsetFile, phase, offset, todo, recording, bounds>>

GoodAnswer(p) ==
  /\ phase = "running" /\ work[p] = "sent"
  /\ work' = [work EXCEPT ![p] = "writing"]
  /\ UNCHANGED <<adapter, disk, saved, offsetFile, phase, status, retries, offset, todo,
                 flight, recording, bounds>>

\* markFailed, then deletePiece, which has nothing to delete but may have to
\* save the offset state.
CorruptAnswer(p) ==
  /\ phase = "running" /\ work[p] = "sent" /\ Troubled
  /\ status' = [status EXCEPT ![p] = "failed"] /\ retries' = [retries EXCEPT ![p] = @ + 1]
  /\ work' = [work EXCEPT ![p] = "deleting"]
  /\ offset' = offset \ {p}
  /\ recording' = [recording EXCEPT ![p] = IF adapter = "offset" THEN offset \ {p} ELSE {}]
  /\ UNCHANGED <<adapter, disk, saved, offsetFile, phase, todo, flight>>

RecordLands(p) == IF adapter = "offset" THEN offsetFile' = recording[p] ELSE UNCHANGED offsetFile

DeleteLands(p) ==
  /\ work[p] = "deleting"
  /\ disk' = IF adapter = "offset" THEN disk ELSE [disk EXCEPT ![p] = "none"]
  /\ RecordLands(p)
  /\ work' = [work EXCEPT ![p] = "saving"]
  /\ UNCHANGED <<status, retries>> /\ Saves(p)
  /\ UNCHANGED <<adapter, saved, phase, offset, todo, recording, bounds>>

WriteLands(p) ==
  /\ work[p] = "writing"
  /\ disk' = [disk EXCEPT ![p] = "good"]
  /\ work' = [work EXCEPT ![p] = "recording"]
  /\ offset' = offset \cup {p}
  /\ recording' = [recording EXCEPT ![p] = offset']
  /\ UNCHANGED <<adapter, saved, offsetFile, phase, status, retries, todo, flight, bounds>>

MarkVerified(p) ==
  /\ work[p] = "recording"
  /\ RecordLands(p)
  /\ status' = [status EXCEPT ![p] = "verified"] /\ UNCHANGED retries
  /\ work' = [work EXCEPT ![p] = "saving"]
  /\ Saves(p)
  /\ UNCHANGED <<adapter, disk, saved, phase, offset, todo, recording, bounds>>

\* What follows the save that a start waits for: the CLI prepares its output,
\* a page transfers, or only looks at what it has stored.
AfterSave(i) ==
  CASE i = 0 /\ phase \in {"joining", "rejoining"} /\ adapter = "offset" -> {"preparing"}
    [] i = 0 /\ phase = "joining" /\ adapter # "offset" -> {"running"}
    [] i = 0 /\ phase = "rejoining" /\ adapter # "offset" ->
         {"running"} \cup IF restarts < MaxRestarts THEN {"looking"} ELSE {}
    [] i = 0 /\ phase = "resumed" -> IF adapter = "offset" THEN {"running"} ELSE {"looked"}
    [] OTHER -> {phase}

SaveLands(i) ==
  /\ flight[i] # NoSave
  /\ saved' = flight[i] /\ flight' = [flight EXCEPT ![i] = NoSave]
  /\ phase' \in AfterSave(i)
  /\ work' = IF i = 0 THEN work ELSE [work EXCEPT ![i] = "idle"]
  /\ UNCHANGED <<adapter, disk, offsetFile, status, retries, offset, todo, recording, bounds>>

\* The join loop sees every piece verified; in the CLI the partial output is
\* renamed to its final name.
Complete ==
  /\ phase = "running" /\ Verified = Piece
  /\ phase' = "complete"
  /\ UNCHANGED <<adapter, disk, saved, offsetFile, memory, bounds>>

-----------------------------------------------------------------------------
(* The process dies, or is run again after it completed or only looked.      *)

Forget ==
  /\ phase' = "down" /\ restarts < MaxRestarts /\ restarts' = restarts + 1
  /\ status' = [p \in Piece |-> "missing"] /\ retries' = [p \in Piece |-> 0]
  /\ offset' = {} /\ todo' = {} /\ work' = [p \in Piece |-> "idle"]
  /\ flight' = [i \in 0..PieceCount |-> NoSave] /\ recording' = [p \in Piece |-> {}]
  /\ UNCHANGED <<adapter, offsetFile, trouble>>

\* A write the crash interrupts leaves the old bytes or, in place, a mixture;
\* a first save in the origin private file system leaves an empty file.
Crash ==
  /\ phase \notin {"down", "complete", "refused"}
  /\ \E torn \in SUBSET {p \in Piece : adapter = "offset" /\ work[p] = "writing"} :
       disk' = [p \in Piece |-> IF p \in torn THEN "bad" ELSE disk[p]]
  /\ \/ UNCHANGED saved
     \/ adapter = "opfs" /\ saved = NoMap /\ flight[0] # NoSave /\ saved' = TornMap
  /\ Forget

\* After completion the CLI has renamed the partial output away.
Rerun ==
  /\ phase = "complete"
  /\ disk' = IF adapter = "offset" THEN [p \in Piece |-> "none"] ELSE disk
  /\ Forget /\ UNCHANGED saved

\* restoreLocalResumeState of a page: a second restore of what joinSession
\* restored, and the engine is disposed.
ResumeLocally ==
  /\ phase = "looking"
  /\ phase' = "resuming" /\ todo' = Verified
  /\ UNCHANGED <<adapter, disk, saved, offsetFile, status, retries, offset, work, flight, recording, bounds>>

RestoreLocalEnds ==
  /\ phase = "looked"
  /\ Forget /\ UNCHANGED <<disk, saved>>

BytesLost(p) ==  \* while nothing runs: an unsynced write, a deleted file
  /\ phase = "down" /\ disk[p] = "good" /\ Troubled
  /\ \E b \in {"none", "bad"} : disk' = [disk EXCEPT ![p] = b]
  /\ UNCHANGED <<adapter, saved, offsetFile, phase, memory>>

Starting == JoinSession \/ RestorePiece \/ Restored \/ PrepareOutputFile \/ ResumeLocally \/ RestoreLocalEnds
Storing(p) == DeleteLands(p) \/ WriteLands(p) \/ MarkVerified(p) \/ SaveLands(p)

Next ==
  \/ Starting \/ Complete \/ Crash \/ Rerun \/ SaveLands(0)
  \/ \E p \in Piece : \/ RequestPiece(p) \/ GoodAnswer(p) \/ CorruptAnswer(p)
                      \/ Storing(p) \/ BytesLost(p)

Spec == Init /\ [][Next]_vars

(* The process runs and is started again after a crash, storage operations   *)
(* return, and a provider that is asked answers.                            *)
Fairness ==
  /\ WF_vars(Starting) /\ WF_vars(Complete) /\ WF_vars(SaveLands(0))
  /\ \A p \in Piece : /\ WF_vars(RequestPiece(p)) /\ WF_vars(Storing(p))
                      /\ WF_vars(GoodAnswer(p) \/ CorruptAnswer(p))

FairSpec == Spec /\ Fairness

-----------------------------------------------------------------------------
(* Properties.                                                             *)

(* The restored piece map, the adapters' state and the pipelines keep their  *)
(* shape; a pipeline that saves has its snapshot in flight, and the offset   *)
(* state names only pieces this or an earlier process wrote.                *)
TypeOK ==
  /\ disk \in [Piece -> {"none", "good", "bad"}]
  /\ saved \in {NoMap, TornMap} \cup [found : {"map"}, status : [Piece -> Statuses], retries : [Piece -> Nat]]
  /\ phase \in {"down", "refused", "restoring", "joining", "rejoining", "preparing", "looking",
                "resuming", "resumed", "looked", "running", "complete"}
  /\ status \in [Piece -> Statuses] /\ retries \in [Piece -> Nat]
  /\ offset \subseteq Piece /\ offsetFile \subseteq Piece /\ todo \subseteq Verified
  /\ \A p \in Piece : work[p] = "saving" <=> flight[p] # NoSave

(* Whatever was lost or left behind by earlier processes, once a receiver    *)
(* transfers, the pieces it counts as verified are in its storage: restore   *)
(* hashes them again, and a write comes before its markVerified.            *)
VerifiedIsGood ==
  phase \in {"running", "complete"} => \A p \in Verified : disk[p] = "good"

(* The restored table is well formed, and true of the storage.               *)
TableIsTrue == TypeOK /\ VerifiedIsGood

(* A crash is no failure of a piece: the retry budget is spent on corrupt    *)
(* answers and lost bytes only (importPieceMap turns a request of the dead   *)
(* process into "missing" without counting it).  The CLI spends one more per *)
(* run, see RerunKeepsGoodPieces.                                           *)
RetriesArePaidFor ==
  \A p \in Piece : retries[p] <= trouble + (IF adapter = "offset" THEN restarts ELSE 0)

(* Restoring drops no recorded piece whose bytes are good.                  *)
KeepsGoodPieces ==
  phase' = phase => \A p \in todo \ todo' : disk[p] = "good" => status'[p] = "verified"

(* With a piece store, a rerun requests only what is missing: restore        *)
(* discards (and deletes) only pieces whose bytes are lost or corrupt.      *)
RestoreKeepsGoodPieces == [][adapter # "offset" => KeepsGoodPieces]_vars

(* The same of the CLI.  It does not hold: runJoin restores before it        *)
(* prepares the output file, so every recorded piece is discarded, and pays  *)
(* with one of its retries.                                                 *)
RerunKeepsGoodPieces == [][KeepsGoodPieces]_vars

(* A transfer that is interrupted a bounded number of times, and whose        *)
(* pieces fail less often than maxRetries, completes: no restored status     *)
(* keeps a piece from being requested again.  The exception is the origin    *)
(* private file system: a crash during the first save leaves an empty state  *)
(* file, and loadState throws on it in every later process.                 *)
Completes == <>(phase \in {"complete", "refused"})
=============================================================================
