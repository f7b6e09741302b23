------------------------ MODULE ResumeStorageProofs ------------------------
(***************************************************************************)
(* A receiver that is killed and started again any number of times, for any *)
(* number of pieces and any adapter, never counts a piece as verified whose *)
(* bytes its storage does not have.  Nothing is assumed of what a crash     *)
(* leaves: the argument is that every way into "verified" either hashes the *)
(* stored bytes in this process or writes them in this process, so that the *)
(* persisted map, however old, is never believed without a look.  And no     *)
(* piece is charged a retry for the crash itself.                           *)
(***************************************************************************)
EXTENDS ResumeStorage, WellFoundedInduction, TLAPS

Map == [found : {"map"}, status : [Piece -> Statuses], retries : [Piece -> Nat]]

Shape ==
  /\ TypeOK
  /\ work \in [Piece -> {"idle", "sent", "writing", "recording", "deleting", "saving"}]
  /\ flight \in [0..PieceCount -> {NoSave} \cup Map]
  /\ recording \in [Piece -> SUBSET Piece]

(* A piece whose pipeline is under way is not verified yet, and its bytes    *)
(* are there when it is about to be.                                        *)
Pipelines ==
  \A p \in Piece :
    /\ work[p] \in {"sent", "writing", "recording", "deleting"} => status[p] # "verified"
    /\ work[p] = "recording" => disk[p] = "good"

(* Pipelines run in a transfer only, and pieces are looked at in a restore   *)
(* only; while nothing runs, nothing is verified.                           *)
Phased ==
  /\ phase \notin {"running", "complete"} => \A p \in Piece : work[p] = "idle"
  /\ phase \notin {"restoring", "resuming"} => todo = {}
  /\ phase = "down" => Verified = {}

(* A piece that was looked at, or written, is there.                        *)
Looked == \A p \in Piece : status[p] = "verified" /\ p \notin todo => disk[p] = "good"

Inv == Shape /\ Pipelines /\ Phased /\ Looked

-----------------------------------------------------------------------------

LEMMA Kinds ==
  /\ NoMap.found = "none" /\ TornMap.found = "torn" /\ NoSave.found = "idle"
  /\ \A m \in Map : m.found = "map" /\ m # NoMap /\ m # TornMap /\ m # NoSave
<1>1. NoMap.found = "none" /\ TornMap.found = "torn" /\ NoSave.found = "idle"
  BY DEF NoMap, TornMap, NoSave
<1>2. \A m \in Map : m.found = "map"
  BY DEF Map
<1> QED BY <1>1, <1>2

LEMMA SnapshotIsMap ==
  ASSUME NEW st \in [Piece -> Statuses], NEW re \in [Piece -> Nat]
  PROVE  Snapshot(st, re) \in Map
  BY DEF Snapshot, Map

(* What a save in flight is, and that no other save is disturbed.           *)
LEMMA SavesMap ==
  ASSUME Shape, NEW i \in 0..PieceCount, Saves(i),
         status' \in [Piece -> Statuses], retries' \in [Piece -> Nat]
  PROVE  /\ flight' \in [0..PieceCount -> {NoSave} \cup Map]
         /\ flight'[i] # NoSave
         /\ \A p \in Piece : p # i => flight'[p] = flight[p]
<1>1. Snapshot(status', retries') \in Map
  BY SnapshotIsMap
<1>2. flight' = [flight EXCEPT ![i] = Snapshot(status', retries')]
  BY DEF Saves
<1>3. Snapshot(status', retries') # NoSave
  BY <1>1, Kinds
<1> QED BY <1>1, <1>2, <1>3 DEF Shape, Piece

LEMMA Indices == 0 \in 0..PieceCount /\ 0 \notin Piece /\ Piece \subseteq 0..PieceCount
  BY ResumeAssumption DEF Piece

LEMMA InitInv == Init => Inv
<1> SUFFICES ASSUME Init PROVE Inv
  OBVIOUS
<1>1. Verified = {}
  BY DEF Init, Verified
<1>2. TypeOK
  BY <1>1 DEF Init, TypeOK, Statuses, Piece
<1>3. Shape
  BY <1>2 DEF Init, Shape
<1> QED BY <1>1, <1>3 DEF Init, Inv, Pipelines, Phased, Looked

LEMMA JoinSessionInv == Inv /\ JoinSession => Inv'
<1> SUFFICES ASSUME Inv, JoinSession PROVE Inv'
  OBVIOUS
<1> USE DEF JoinSession
<1>1. \A p \in Piece : work[p] = "idle" /\ flight[p] = NoSave
  BY DEF Inv, Phased, Shape, TypeOK
<1>2. saved.found = "map" => saved \in Map
  BY Kinds DEF Inv, Shape, TypeOK, Map
<1>3. status' \in [Piece -> Statuses] /\ retries' \in [Piece -> Nat]
  BY <1>2 DEF Map, Imported, ImportedRetries, Statuses
<1>4. \A p \in Piece : status'[p] = "verified" => p \in todo'
  BY <1>2 DEF Map, Imported, ToCheck
<1>5. todo' \subseteq Verified' /\ phase' \in {"refused", "joining", "restoring"}
  BY <1>2 DEF Map, Imported, ToCheck, Verified
<1>6. phase' # "restoring" => todo' = {}
  BY Kinds, <1>2 DEF Inv, Shape, TypeOK
<1>7. flight' \in [0..PieceCount -> {NoSave} \cup Map] /\ \A p \in Piece : flight'[p] = flight[p]
  <2>1. CASE saved = NoMap
    BY <2>1, <1>3, SavesMap, Indices DEF Inv
  <2>2. CASE saved # NoMap
    BY <2>2 DEF Inv, Shape
  <2> QED BY <2>1, <2>2
<1>8. \A p \in Piece : flight'[p] = NoSave
  BY <1>1, <1>7
<1>9. Shape'
  BY <1>1, <1>3, <1>5, <1>7, <1>8 DEF Inv, Shape, TypeOK
<1> QED BY <1>1, <1>4, <1>5, <1>6, <1>9 DEF Inv, Pipelines, Phased, Looked

LEMMA RestorePieceInv == Inv /\ RestorePiece => Inv'
<1> SUFFICES ASSUME Inv, RestorePiece PROVE Inv'
  OBVIOUS
<1> DEFINE p == CHOOSE q \in todo : \A o \in todo : q <= o
<1>1. /\ todo' = todo \ {p}
      /\ IF Valid(p)
         THEN UNCHANGED <<disk, offsetFile, status, retries, offset>>
         ELSE /\ status' = [status EXCEPT ![p] = "missing"]
              /\ retries' = [retries EXCEPT ![p] = @ + 1]
              /\ offset' = offset \ {p}
              /\ offsetFile' = IF phase = "resuming" THEN offset \ {p} ELSE offsetFile
              /\ disk' = IF adapter # "offset" THEN [disk EXCEPT ![p] = "none"] ELSE disk
      /\ UNCHANGED <<adapter, saved, phase, work, flight, recording, bounds>>
      /\ phase \in {"restoring", "resuming"}
  BY DEF RestorePiece
<1>2. Valid(p) => disk[p] = "good"
  BY DEF Valid, Readable
<1> HIDE DEF p
<1>3. \A q \in Piece : work[q] = "idle"
  BY <1>1 DEF Inv, Phased
<1>4. Shape'
  <2>1. /\ status' \in [Piece -> Statuses]
        /\ \A q \in Piece : q # p => status'[q] = status[q]
    BY <1>1 DEF Inv, Shape, TypeOK, Statuses
  <2>2. retries' \in [Piece -> Nat]
    BY <1>1 DEF Inv, Shape, TypeOK
  <2>3. disk' \in [Piece -> {"none", "good", "bad"}]
    BY <1>1 DEF Inv, Shape, TypeOK
  <2>4. offset' \subseteq Piece /\ offsetFile' \subseteq Piece
    BY <1>1 DEF Inv, Shape, TypeOK
  <2>5. todo' \subseteq Verified'
    BY <1>1, <2>1 DEF Inv, Shape, TypeOK, Verified
  <2> QED BY <1>1, <2>1, <2>2, <2>3, <2>4, <2>5 DEF Inv, Shape, TypeOK
<1>5. Looked'
  BY <1>1, <1>2 DEF Inv, Looked, Shape, TypeOK
<1> QED BY <1>1, <1>3, <1>4, <1>5 DEF Inv, Pipelines, Phased

LEMMA RestoredInv == Inv /\ (Restored \/ PrepareOutputFile \/ ResumeLocally) => Inv'
<1> SUFFICES ASSUME Inv, Restored \/ PrepareOutputFile \/ ResumeLocally PROVE Inv'
  OBVIOUS
<1> USE DEF Restored, PrepareOutputFile, ResumeLocally
<1>1. UNCHANGED <<disk, status, retries, work>>
  OBVIOUS
<1>2. flight' \in [0..PieceCount -> {NoSave} \cup Map] /\ \A p \in Piece : flight'[p] = flight[p]
  <2>1. CASE Restored
    BY <2>1, <1>1, SavesMap, Indices DEF Inv, Shape, TypeOK
  <2>2. CASE PrepareOutputFile \/ ResumeLocally
    BY <2>2 DEF Inv, Shape
  <2> QED BY <2>1, <2>2
<1>3. Shape'
  BY <1>1, <1>2 DEF Inv, Shape, TypeOK, Verified
<1> QED BY <1>1, <1>3 DEF Inv, Pipelines, Phased, Looked, Verified

-----------------------------------------------------------------------------
(* The transfer.                                                            *)

LEMMA RequestPieceInv == ASSUME Inv, NEW p \in Piece, RequestPiece(p) PROVE Inv'
<1> USE DEF RequestPiece
<1>1. phase = "running" /\ todo = {} /\ UNCHANGED <<phase, todo, disk>>
  BY DEF Inv, Phased
<1>2. status' \in [Piece -> Statuses] /\ retries' \in [Piece -> Nat]
  BY DEF Inv, Shape, TypeOK, Statuses
<1>3. flight' \in [0..PieceCount -> {NoSave} \cup Map] /\ \A q \in Piece : flight'[q] = flight[q]
  BY <1>2, SavesMap, Indices DEF Inv
<1>4. /\ work' \in [Piece -> {"idle", "sent", "writing", "recording", "deleting", "saving"}]
      /\ \A q \in Piece : work'[q] = "saving" <=> work[q] = "saving"
  BY DEF Inv, Shape
<1>5. Shape'
  BY <1>1, <1>2, <1>3, <1>4 DEF Inv, Shape, TypeOK
<1>6. Pipelines' /\ Looked'
  BY <1>1 DEF Inv, Shape, TypeOK, Pipelines, Looked
<1> QED BY <1>1, <1>5, <1>6 DEF Inv, Phased

LEMMA AnswerInv == ASSUME Inv, NEW p \in Piece, GoodAnswer(p) \/ CorruptAnswer(p) PROVE Inv'
<1>1. phase = "running" /\ todo = {} /\ UNCHANGED <<phase, todo, disk, saved, offsetFile, flight>>
  BY DEF Inv, Phased, GoodAnswer, CorruptAnswer
<1>2. CASE GoodAnswer(p)
  <2>1. Shape'
    BY <1>2, <1>1 DEF GoodAnswer, Inv, Shape, TypeOK, Verified
  <2>2. Pipelines' /\ Looked'
    BY <1>2, <1>1 DEF GoodAnswer, Inv, Shape, TypeOK, Pipelines, Looked
  <2> QED BY <2>1, <2>2, <1>1 DEF Inv, Phased
<1>3. CASE CorruptAnswer(p)
  <2>1. status' \in [Piece -> Statuses] /\ retries' \in [Piece -> Nat]
    BY <1>3 DEF CorruptAnswer, Inv, Shape, TypeOK, Statuses
  <2>2. offset' \subseteq Piece /\ recording' \in [Piece -> SUBSET Piece]
    BY <1>3 DEF CorruptAnswer, Inv, Shape, TypeOK
  <2>3. /\ work' \in [Piece -> {"idle", "sent", "writing", "recording", "deleting", "saving"}]
        /\ \A q \in Piece : work'[q] = "saving" <=> work[q] = "saving"
    BY <1>3 DEF CorruptAnswer, Inv, Shape
  <2>4. Shape'
    BY <1>1, <2>1, <2>2, <2>3 DEF Inv, Shape, TypeOK
  <2>5. Pipelines' /\ Looked'
    BY <1>3, <1>1 DEF CorruptAnswer, Inv, Shape, TypeOK, Pipelines, Looked
  <2> QED BY <2>4, <2>5, <1>1 DEF Inv, Phased
<1> QED BY <1>2, <1>3

(* Storage operations of a pipeline end while it transfers, or after.       *)
LEMMA AtWork ==
  ASSUME Inv, NEW p \in Piece, work[p] # "idle"
  PROVE  phase \in {"running", "complete"} /\ todo = {}
  BY DEF Inv, Phased

LEMMA WriteLandsInv == ASSUME Inv, NEW p \in Piece, WriteLands(p) PROVE Inv'
<1> USE DEF WriteLands
<1>1. todo = {} /\ UNCHANGED <<phase, todo, saved, offsetFile, status, retries, flight>>
  BY AtWork
<1>2. disk' \in [Piece -> {"none", "good", "bad"}] /\ disk'[p] = "good"
      /\ \A q \in Piece : q # p => disk'[q] = disk[q]
  BY DEF Inv, Shape, TypeOK
<1>3. offset' \subseteq Piece
  BY DEF Inv, Shape, TypeOK
<1>4. recording' \in [Piece -> SUBSET Piece]
  BY <1>3 DEF Inv, Shape
<1>5. /\ work' \in [Piece -> {"idle", "sent", "writing", "recording", "deleting", "saving"}]
      /\ \A q \in Piece : work'[q] = "saving" <=> work[q] = "saving"
  BY DEF Inv, Shape
<1>6. Shape'
  BY <1>1, <1>2, <1>3, <1>4, <1>5 DEF Inv, Shape, TypeOK
<1>7. Pipelines' /\ Looked'
  BY <1>1, <1>2 DEF Inv, Shape, Pipelines, Looked
<1> QED BY <1>1, <1>6, <1>7, AtWork DEF Inv, Phased

LEMMA DeleteLandsInv == ASSUME Inv, NEW p \in Piece, DeleteLands(p) PROVE Inv'
<1> USE DEF DeleteLands
<1>1. todo = {} /\ UNCHANGED <<phase, todo, saved, status, retries, offset, recording>>
  BY AtWork
<1>2. disk' \in [Piece -> {"none", "good", "bad"}] /\ \A q \in Piece : q # p => disk'[q] = disk[q]
  BY DEF Inv, Shape, TypeOK
<1>3. offsetFile' \subseteq Piece
  BY DEF Inv, Shape, TypeOK, RecordLands
<1>4. /\ flight' \in [0..PieceCount -> {NoSave} \cup Map] /\ flight'[p] # NoSave
      /\ \A q \in Piece : q # p => flight'[q] = flight[q]
  BY <1>1, SavesMap, Indices DEF Inv, Shape, TypeOK
<1>5. /\ work' \in [Piece -> {"idle", "sent", "writing", "recording", "deleting", "saving"}]
      /\ work'[p] = "saving" /\ \A q \in Piece : q # p => work'[q] = work[q]
  BY DEF Inv, Shape
<1>6. Shape'
  BY <1>1, <1>2, <1>3, <1>4, <1>5 DEF Inv, Shape, TypeOK, Verified
<1>7. Pipelines' /\ Looked'
  BY <1>1, <1>2, <1>5 DEF Inv, Pipelines, Looked
<1> QED BY <1>1, <1>6, <1>7, AtWork DEF Inv, Phased

LEMMA MarkVerifiedInv == ASSUME Inv, NEW p \in Piece, MarkVerified(p) PROVE Inv'
<1> USE DEF MarkVerified
<1>1. todo = {} /\ UNCHANGED <<phase, todo, disk, saved, retries, offset, recording>>
  BY AtWork
<1>2. status' \in [Piece -> Statuses] /\ \A q \in Piece : q # p => status'[q] = status[q]
  BY DEF Inv, Shape, TypeOK, Statuses
<1>3. offsetFile' \subseteq Piece
  BY DEF Inv, Shape, TypeOK, RecordLands
<1>4. /\ flight' \in [0..PieceCount -> {NoSave} \cup Map] /\ flight'[p] # NoSave
      /\ \A q \in Piece : q # p => flight'[q] = flight[q]
  BY <1>1, <1>2, SavesMap, Indices DEF Inv, Shape, TypeOK
<1>5. /\ work' \in [Piece -> {"idle", "sent", "writing", "recording", "deleting", "saving"}]
      /\ work'[p] = "saving" /\ \A q \in Piece : q # p => work'[q] = work[q]
  BY DEF Inv, Shape
<1>6. Shape'
  BY <1>1, <1>2, <1>3, <1>4, <1>5 DEF Inv, Shape, TypeOK
<1>7. Pipelines' /\ Looked'
  BY <1>1, <1>2, <1>5 DEF Inv, Pipelines, Looked
<1> QED BY <1>1, <1>6, <1>7, AtWork DEF Inv, Phased

LEMMA SaveLandsInv == ASSUME Inv, NEW i \in 0..PieceCount, SaveLands(i) PROVE Inv'
<1> USE DEF SaveLands
<1>1. UNCHANGED <<disk, status, retries, todo, offset, offsetFile, recording>>
  OBVIOUS
<1>2. saved' \in Map /\ flight' \in [0..PieceCount -> {NoSave} \cup Map]
  BY DEF Inv, Shape
<1>3. /\ \A q \in Piece : q # i => work'[q] = work[q] /\ flight'[q] = flight[q]
      /\ i \in Piece => work'[i] = "idle" /\ flight'[i] = NoSave
      /\ work' \in [Piece -> {"idle", "sent", "writing", "recording", "deleting", "saving"}]
  BY DEF Inv, Shape, Piece
<1>4. phase' = phase \/ (phase \in {"joining", "rejoining", "resumed"} /\
                         phase' \in {"preparing", "running", "looking", "looked"})
  BY DEF AfterSave
<1>5. Shape'
  BY <1>1, <1>2, <1>3, <1>4 DEF Inv, Shape, TypeOK, Verified, Map
<1>6. Pipelines'
  BY <1>1, <1>3 DEF Inv, Pipelines
<1>7. Phased'
  BY <1>1, <1>3, <1>4 DEF Inv, Phased, Verified
<1> QED BY <1>1, <1>5, <1>6, <1>7 DEF Inv, Looked

LEMMA CompleteInv == Inv /\ Complete => Inv'
<1> SUFFICES ASSUME Inv, Complete PROVE Inv'
  OBVIOUS
<1>1. UNCHANGED <<disk, saved, offsetFile, memory>> /\ phase' = "complete" /\ phase = "running"
  BY DEF Complete
<1>2. Shape'
  BY <1>1 DEF Inv, Shape, TypeOK, Verified, memory
<1> QED BY <1>1, <1>2 DEF Inv, Pipelines, Phased, Looked, memory

-----------------------------------------------------------------------------
(* The end of a process.                                                    *)

LEMMA ForgetInv ==
  ASSUME Inv, Forget, disk' \in [Piece -> {"none", "good", "bad"}], saved' \in {saved, TornMap}
  PROVE  Inv'
<1>1. /\ phase' = "down" /\ todo' = {} /\ offset' = {} /\ offsetFile' = offsetFile
      /\ status' = [p \in Piece |-> "missing"] /\ retries' = [p \in Piece |-> 0]
      /\ work' = [p \in Piece |-> "idle"]
      /\ flight' = [i \in 0..PieceCount |-> NoSave] /\ recording' = [p \in Piece |-> {}]
  BY DEF Forget
<1>2. Verified' = {}
  BY <1>1 DEF Verified
<1>3. Shape'
  BY <1>1, <1>2 DEF Inv, Shape, TypeOK, Statuses, Piece
<1> QED BY <1>1, <1>2, <1>3 DEF Inv, Pipelines, Phased, Looked

LEMMA EndsInv == Inv /\ (Crash \/ Rerun \/ RestoreLocalEnds) => Inv'
<1> SUFFICES ASSUME Inv, Crash \/ Rerun \/ RestoreLocalEnds PROVE Inv'
  OBVIOUS
<1>1. disk' \in [Piece -> {"none", "good", "bad"}]
  BY DEF Crash, Rerun, RestoreLocalEnds, Inv, Shape, TypeOK
<1>2. Forget /\ saved' \in {saved, TornMap}
  BY DEF Crash, Rerun, RestoreLocalEnds
<1> QED BY <1>1, <1>2, ForgetInv

LEMMA BytesLostInv == ASSUME Inv, NEW p \in Piece, BytesLost(p) PROVE Inv'
<1>1. phase = "down" /\ UNCHANGED <<saved, offsetFile, phase, memory>>
      /\ disk' \in [Piece -> {"none", "good", "bad"}]
  BY DEF BytesLost, Inv, Shape, TypeOK
<1>2. Shape'
  BY <1>1 DEF Inv, Shape, TypeOK, Verified, memory
<1>3. \A q \in Piece : status[q] # "verified" /\ work[q] = "idle"
  BY <1>1 DEF Inv, Phased, Verified
<1> QED BY <1>1, <1>2, <1>3 DEF Inv, Pipelines, Phased, Looked, Verified, memory

LEMMA NextInv == Inv /\ [Next]_vars => Inv'
<1> SUFFICES ASSUME Inv, [Next]_vars PROVE Inv'
  OBVIOUS
<1>1. CASE UNCHANGED vars
  BY <1>1 DEF vars, Inv, Shape, TypeOK, Pipelines, Phased, Looked, Verified
<1>2. CASE Starting
  BY <1>2, JoinSessionInv, RestorePieceInv, RestoredInv, EndsInv DEF Starting
<1>3. CASE Complete \/ Crash \/ Rerun
  BY <1>3, CompleteInv, EndsInv
<1>4. CASE SaveLands(0)
  BY <1>4, SaveLandsInv, ResumeAssumption
<1>5. ASSUME NEW p \in Piece,
             \/ RequestPiece(p) \/ GoodAnswer(p) \/ CorruptAnswer(p)
             \/ Storing(p) \/ BytesLost(p)
      PROVE  Inv'
  <2>1. p \in 0..PieceCount
    BY ResumeAssumption DEF Piece
  <2> QED BY <1>5, <2>1, RequestPieceInv, AnswerInv, DeleteLandsInv, WriteLandsInv, MarkVerifiedInv,
              SaveLandsInv, BytesLostInv DEF Storing
<1> QED BY <1>1, <1>2, <1>3, <1>4, <1>5 DEF Next

LEMMA ResumeInvariant == Spec => []Inv
  BY InitInv, NextInv, PTL DEF Spec

(* After any sequence of crashes, torn or late saves and lost bytes, what a  *)
(* transferring receiver counts as verified is in its storage.              *)
THEOREM TableTrue == Spec => []TableIsTrue
<1>1. Inv => TableIsTrue
  BY DEF Inv, Shape, Phased, Looked, TableIsTrue, VerifiedIsGood, Verified
<1> QED BY <1>1, ResumeInvariant, PTL

(* With a piece store, a restore that looks at a piece whose bytes are good  *)
(* keeps it verified: a rerun requests only what is missing.                *)
THEOREM RestoreKeeps == Spec => RestoreKeepsGoodPieces
<1>1. Inv /\ [Next]_vars => [adapter # "offset" => KeepsGoodPieces]_vars
  <2> SUFFICES ASSUME Inv, Next, adapter # "offset", phase' = phase,
                      NEW p \in todo \ todo', disk[p] = "good"
               PROVE  status'[p] = "verified"
    BY DEF KeepsGoodPieces
  <2>1. RestorePiece
    <3>1. todo' # todo
      OBVIOUS
    <3> QED BY <3>1 DEF Next, Starting, Storing, JoinSession, Restored, PrepareOutputFile,
       ResumeLocally, RestoreLocalEnds, Complete, Crash, Rerun, SaveLands, RequestPiece, GoodAnswer,
       CorruptAnswer, DeleteLands, WriteLands, MarkVerified, BytesLost, Forget, memory
  <2>2. todo' = todo \ {CHOOSE q \in todo : \A o \in todo : q <= o}
    BY <2>1 DEF RestorePiece
  <2>3. p = (CHOOSE q \in todo : \A o \in todo : q <= o)
    BY <2>2
  <2>4. Valid(p)
    BY DEF Valid, Readable
  <2>5. status' = status
    BY <2>1, <2>3, <2>4 DEF RestorePiece
  <2> QED BY <2>5 DEF Inv, Shape, TypeOK, Verified
<1> QED BY <1>1, ResumeInvariant, PTL DEF Spec, RestoreKeepsGoodPieces

-----------------------------------------------------------------------------
(* Retries.                                                                 *)

(* What a piece may have been charged for so far: corrupt answers and lost   *)
(* bytes, and in the CLI one retry per run.                                 *)
Budget == trouble + (IF adapter = "offset" THEN restarts ELSE 0)

(* No table, in memory, on disk or on its way there, has overcharged a piece. *)
Covered ==
  \A p \in Piece :
    /\ retries[p] <= Budget
    /\ saved.found = "map" => saved.retries[p] <= Budget
    /\ \A i \in 0..PieceCount : flight[i] # NoSave => flight[i].retries[p] <= Budget

(* A piece that a restore is going to discard has a retry left that it was   *)
(* not charged for: its bytes were lost since, or (a table that will be      *)
(* loaded) the answer that replaced them was corrupt.                       *)
OwedInStore ==
  adapter # "offset" => \A p \in Piece :
    /\ p \in todo => disk[p] = "good" \/ retries[p] < Budget
    /\ saved.found = "map" /\ saved.status[p] = "verified" =>
         (disk[p] = "good" /\ work[p] # "deleting") \/ saved.retries[p] < Budget

(* In the CLI every restore discards every piece, once per run.              *)
OwedInOutput ==
  adapter = "offset" =>
    /\ \A p \in Piece : /\ p \in todo => retries[p] < Budget
                        /\ phase = "down" /\ saved.found = "map" => saved.retries[p] < Budget
    /\ phase = "restoring" => Verified \subseteq todo
    /\ phase \notin {"restoring", "running", "complete"} => Verified = {}

(* No save overlaps a restore, and one in flight says nothing that was       *)
(* taken back since.                                                       *)
SavesAreCurrent ==
  /\ phase \in {"down", "restoring", "preparing", "looking", "resuming"} => flight[0] = NoSave
  /\ \A i \in 0..PieceCount, p \in Piece :
       flight[i] # NoSave /\ flight[i].status[p] = "verified" => status[p] = "verified" /\ p \notin todo

Paid ==
  /\ trouble \in Nat /\ restarts \in Nat
  /\ Covered /\ OwedInStore /\ OwedInOutput /\ SavesAreCurrent

LEMMA LeastPiece ==
  ASSUME NEW S \in SUBSET Piece, S # {}
  PROVE  \E m \in S : \A k \in S : m <= k
<1>1. S \subseteq Nat
  BY ResumeAssumption DEF Piece
<1>2. PICK m \in S : \A k \in S : ~ (<<k, m>> \in OpToRel(<, Nat))
  BY <1>1, NatLessThanWellFounded, WFMin, Zenon
<1>3. \A k \in S : ~ (<<k, m>> \in {ss \in Nat \X Nat : ss[1] < ss[2]})
  BY <1>2 DEF OpToRel
<1>4. \A k \in S : ~ (k < m)
  BY <1>1, <1>3
<1> QED BY <1>1, <1>4

LEMMA BudgetType ==
  ASSUME Inv, Paid
  PROVE  /\ Budget \in Nat /\ trouble \in Nat /\ restarts \in Nat
         /\ retries \in [Piece -> Nat] /\ status \in [Piece -> Statuses] /\ todo \subseteq Piece
         /\ saved.found = "map" => saved \in Map /\ saved.retries \in [Piece -> Nat]
         /\ \A i \in 0..PieceCount : flight[i] # NoSave =>
              flight[i] \in Map /\ flight[i].found = "map" /\ flight[i].retries \in [Piece -> Nat]
<1>1. saved.found = "map" => saved \in Map
  BY Kinds DEF Inv, Shape, TypeOK, Map
<1>2. \A i \in 0..PieceCount : flight[i] # NoSave => flight[i] \in Map
  BY DEF Inv, Shape
<1>3. \A m \in Map : m.found = "map" /\ m.retries \in [Piece -> Nat]
  BY DEF Map
<1>4. trouble \in Nat /\ restarts \in Nat /\ Budget \in Nat
  BY DEF Paid, Budget
<1>5. retries \in [Piece -> Nat] /\ status \in [Piece -> Statuses] /\ todo \subseteq Piece
  BY DEF Inv, Shape, TypeOK, Verified
<1> QED BY <1>1, <1>2, <1>3, <1>4, <1>5

(* A save that starts, where the table it copies is covered and no piece of  *)
(* it is waiting to be looked at.                                           *)
LEMMA SavesPaid ==
  ASSUME Inv, Inv', Paid, NEW i \in 0..PieceCount, Saves(i), Budget' = Budget, todo' = {},
         \A p \in Piece : retries'[p] <= Budget',
         \A j \in 0..PieceCount, p \in Piece :
           flight[j] # NoSave /\ flight[j].status[p] = "verified" => status'[p] = "verified"
  PROVE  /\ \A j \in 0..PieceCount : flight'[j] # NoSave =>
              \A p \in Piece : flight'[j].retries[p] <= Budget'
         /\ \A j \in 0..PieceCount, p \in Piece :
              flight'[j] # NoSave /\ flight'[j].status[p] = "verified" =>
                status'[p] = "verified" /\ p \notin todo'
<1> DEFINE m == Snapshot(status', retries')
<1>1. m.retries = retries' /\ m.status = status'
  BY DEF Snapshot
<1>2. flight' = [flight EXCEPT ![i] = m]
  BY DEF Saves
<1> HIDE DEF m
<1>3. \A j \in 0..PieceCount : flight'[j] = m \/ flight'[j] = flight[j]
  BY <1>2 DEF Inv, Shape
<1> QED BY <1>1, <1>3 DEF Paid, Covered

LEMMA JoinSessionPaid == ASSUME Inv, Inv', Paid, JoinSession PROVE Paid'
<1>1. /\ phase = "down" /\ UNCHANGED <<adapter, disk, saved, work, trouble, restarts>>
      /\ phase' \in {"refused", "joining", "restoring"}
      /\ phase' = "restoring" => saved # NoMap
  BY DEF JoinSession, bounds
<1>2. Budget' = Budget
  BY <1>1 DEF Budget
<1>3. \A i \in 0..PieceCount : flight[i] = NoSave
  BY <1>1 DEF Paid, SavesAreCurrent, Inv, Shape, TypeOK, Phased, Piece
<1>4. CASE saved.found = "map"
  <2>1. /\ saved # NoMap /\ flight' = flight
        /\ status' = [p \in Piece |-> Imported(saved.status[p])]
        /\ retries' = [p \in Piece |-> saved.retries[p]]
        /\ todo' = {p \in Piece : saved.status[p] = "verified"}
    BY <1>4, Kinds DEF JoinSession, ImportedRetries, ToCheck
  <2>2. Covered'
    BY <1>1, <1>2, <1>3, <1>4, <2>1 DEF Paid, Covered
  <2>3. OwedInStore'
    BY <1>1, <1>2, <1>4, <2>1 DEF Paid, OwedInStore
  <2>4. Verified' \subseteq todo'
    BY <2>1 DEF Verified, Imported
  <2>5. phase' = "restoring"
    BY <1>1, <1>4, <2>1, Kinds DEF JoinSession
  <2>6. OwedInOutput'
    BY <1>1, <1>2, <1>4, <2>1, <2>4, <2>5 DEF Paid, OwedInOutput
  <2>7. SavesAreCurrent'
    BY <1>1, <1>3, <2>1, Indices DEF SavesAreCurrent
  <2> QED BY <1>1, <2>2, <2>3, <2>6, <2>7 DEF Paid
<1>5. CASE saved.found # "map"
  <2>1. /\ status' = [p \in Piece |-> "missing"] /\ retries' = [p \in Piece |-> 0] /\ todo' = {}
        /\ \/ saved = NoMap /\ Saves(0) /\ phase' = "joining"
           \/ flight' = flight /\ phase' # "restoring"
    BY <1>5, Kinds DEF JoinSession, Inv, Shape, TypeOK
  <2>2. /\ \A j \in 0..PieceCount : flight'[j] # NoSave =>
             \A p \in Piece : flight'[j].retries[p] <= Budget'
        /\ \A j \in 0..PieceCount, p \in Piece :
             flight'[j] # NoSave /\ flight'[j].status[p] = "verified" =>
               status'[p] = "verified" /\ p \notin todo'
    <3>1. \A p \in Piece : retries'[p] <= Budget'
      BY <1>2, <2>1, BudgetType
    <3>2. CASE Saves(0)
      BY <1>2, <1>3, <2>1, <3>1, <3>2, SavesPaid, Indices
    <3>3. CASE flight' = flight
      BY <1>3, <3>3
    <3> QED BY <2>1, <3>2, <3>3
  <2>3. Covered'
    BY <1>1, <1>2, <1>5, <2>1, <2>2, BudgetType DEF Covered
  <2>4. OwedInStore'
    BY <1>1, <1>5, <2>1 DEF OwedInStore
  <2>5. Verified' = {}
    BY <2>1 DEF Verified
  <2>6. OwedInOutput'
    BY <1>1, <2>1, <2>5 DEF OwedInOutput
  <2>7. SavesAreCurrent'
    BY <1>1, <2>1, <2>2 DEF SavesAreCurrent
  <2> QED BY <1>1, <2>3, <2>4, <2>6, <2>7 DEF Paid
<1> QED BY <1>4, <1>5

LEMMA RestorePiecePaid == ASSUME Inv, Inv', Paid, RestorePiece PROVE Paid'
<1> DEFINE p == CHOOSE q \in todo : \A o \in todo : q <= o
<1>1. /\ todo' = todo \ {p}
      /\ IF Valid(p)
         THEN UNCHANGED <<disk, status, retries>>
         ELSE /\ status' = [status EXCEPT ![p] = "missing"]
              /\ retries' = [retries EXCEPT ![p] = @ + 1]
              /\ disk' = IF adapter # "offset" THEN [disk EXCEPT ![p] = "none"] ELSE disk
      /\ UNCHANGED <<adapter, saved, phase, work, flight, trouble, restarts>>
      /\ phase \in {"restoring", "resuming"} /\ todo # {}
  BY DEF RestorePiece, bounds
<1>2. p \in todo
  <2>1. PICK n \in todo : \A o \in todo : n <= o
    <3>1. todo \in SUBSET Piece /\ todo # {}
      BY <1>1, BudgetType
    <3> QED BY <3>1, LeastPiece
  <2> QED BY <2>1
<1>3. Valid(p) <=> disk[p] = "good" /\ (adapter = "offset" => phase # "restoring" /\ p \in offset)
  BY DEF Valid, Readable
<1> HIDE DEF p
<1>4. Budget' = Budget
  BY <1>1 DEF Budget
<1>5. \A i \in 0..PieceCount : flight[i] = NoSave
  BY <1>1 DEF Paid, SavesAreCurrent, Inv, Shape, TypeOK, Phased, Piece
<1>6. /\ p \in Piece
      /\ adapter = "offset" => phase = "restoring" /\ retries[p] < Budget
      /\ adapter # "offset" => disk[p] = "good" \/ retries[p] < Budget
  <2>1. p \in Verified /\ p \in Piece
    BY <1>2 DEF Inv, Shape, TypeOK, Verified
  <2> QED BY <1>1, <1>2, <2>1 DEF Paid, OwedInStore, OwedInOutput
<1>7. CASE Valid(p)
  <2>1. adapter # "offset" /\ UNCHANGED <<disk, status, retries>>
    BY <1>1, <1>3, <1>6, <1>7
  <2>2. Covered'
    BY <1>1, <1>4, <2>1 DEF Paid, Covered
  <2>3. OwedInStore'
    BY <1>1, <1>4, <2>1 DEF Paid, OwedInStore
  <2>4. OwedInOutput' /\ SavesAreCurrent'
    BY <1>1, <1>5, <2>1 DEF OwedInOutput, Paid, SavesAreCurrent
  <2> QED BY <1>1, <2>2, <2>3, <2>4 DEF Paid
<1>8. CASE ~Valid(p)
  <2>1. /\ status' = [status EXCEPT ![p] = "missing"] /\ retries' = [retries EXCEPT ![p] = @ + 1]
        /\ disk' = IF adapter # "offset" THEN [disk EXCEPT ![p] = "none"] ELSE disk
        /\ retries[p] < Budget
    BY <1>1, <1>3, <1>6, <1>8
  <2>2. \A q \in Piece : q # p => retries'[q] = retries[q] /\ status'[q] = status[q] /\ disk'[q] = disk[q]
    BY <2>1 DEF Inv, Shape, TypeOK
  <2>3. retries'[p] = retries[p] + 1 /\ status'[p] = "missing"
    BY <1>6, <2>1, BudgetType
  <2>4. Covered'
    BY <1>1, <1>4, <1>5, <1>6, <2>1, <2>2, <2>3, BudgetType DEF Paid, Covered
  <2>5. OwedInStore'
    BY <1>1, <1>3, <1>4, <1>8, <2>2 DEF Paid, OwedInStore
  <2>6. OwedInOutput'
    BY <1>1, <1>2, <1>4, <1>6, <2>2, <2>3 DEF Paid, OwedInOutput, Verified
  <2>7. SavesAreCurrent'
    BY <1>1, <1>5 DEF Paid, SavesAreCurrent
  <2> QED BY <1>1, <2>4, <2>5, <2>6, <2>7 DEF Paid
<1> QED BY <1>7, <1>8

(* Steps at the end of a restore and before the transfer.                    *)
LEMMA RestoredPaid == ASSUME Inv, Inv', Paid, Restored \/ PrepareOutputFile \/ ResumeLocally PROVE Paid'
<1>1. /\ UNCHANGED <<adapter, disk, saved, status, retries, work, trouble, restarts>>
      /\ phase' \in {"rejoining", "resumed", "resuming"}
      /\ \/ phase \in {"restoring", "resuming"} /\ todo = {} /\ todo' = {} /\ Saves(0)
            /\ phase' # "resuming"
         \/ phase \in {"preparing", "looking"} /\ flight' = flight /\ todo' = Verified
            /\ phase' = "resuming"
  BY DEF Restored, PrepareOutputFile, ResumeLocally, bounds
<1>2. Budget' = Budget /\ Verified' = Verified
  BY <1>1 DEF Budget, Verified
<1>3. \A i \in 0..PieceCount : flight[i] = NoSave
  BY <1>1 DEF Paid, SavesAreCurrent, Inv, Shape, TypeOK, Phased, Piece
<1>4. /\ \A j \in 0..PieceCount : flight'[j] # NoSave =>
           \A p \in Piece : flight'[j].retries[p] <= Budget'
      /\ \A j \in 0..PieceCount, p \in Piece :
           flight'[j] # NoSave /\ flight'[j].status[p] = "verified" =>
             status'[p] = "verified" /\ p \notin todo'
  <2>1. CASE Saves(0) /\ todo' = {}
    <3>1. \A p \in Piece : retries'[p] <= Budget'
      BY <1>1, <1>2 DEF Paid, Covered
    <3> QED BY <1>2, <1>3, <2>1, <3>1, SavesPaid, Indices
  <2>2. CASE flight' = flight
    BY <1>3, <2>2
  <2> QED BY <1>1, <2>1, <2>2
<1>5. Covered'
  BY <1>1, <1>2, <1>4 DEF Paid, Covered
<1>6. OwedInOutput'
  BY <1>1, <1>2 DEF Paid, OwedInOutput
<1>7. OwedInStore'
  <2>1. \A p \in Verified : p \notin todo => disk[p] = "good"
    BY DEF Inv, Looked, Verified
  <2>2. phase \in {"preparing", "looking"} => todo = {}
    BY DEF Inv, Phased
  <2> QED BY <1>1, <1>2, <2>1, <2>2 DEF Paid, OwedInStore
<1>8. SavesAreCurrent'
  BY <1>1, <1>3, <1>4, Indices DEF SavesAreCurrent
<1> QED BY <1>1, <1>5, <1>6, <1>7, <1>8 DEF Paid

LEMMA RequestPiecePaid == ASSUME Inv, Inv', Paid, NEW p \in Piece, RequestPiece(p) PROVE Paid'
<1>1. /\ phase = "running" /\ todo = {} /\ work[p] = "idle" /\ status[p] \in {"missing", "failed"}
      /\ status' = [status EXCEPT ![p] = "requested"]
      /\ work' = [work EXCEPT ![p] = "sent"] /\ Saves(0)
      /\ UNCHANGED <<adapter, disk, saved, phase, retries, todo, trouble, restarts>>
  BY DEF RequestPiece, bounds, Inv, Phased
<1>2. Budget' = Budget
  BY <1>1 DEF Budget
<1>3. \A q \in Piece : q # p => status'[q] = status[q] /\ work'[q] = work[q]
  BY <1>1 DEF Inv, Shape, TypeOK
<1>4. \A j \in 0..PieceCount, q \in Piece :
        flight[j] # NoSave /\ flight[j].status[q] = "verified" => status'[q] = "verified"
  BY <1>1, <1>3 DEF Paid, SavesAreCurrent
<1>5. /\ \A j \in 0..PieceCount : flight'[j] # NoSave =>
           \A q \in Piece : flight'[j].retries[q] <= Budget'
      /\ \A j \in 0..PieceCount, q \in Piece :
           flight'[j] # NoSave /\ flight'[j].status[q] = "verified" =>
             status'[q] = "verified" /\ q \notin todo'
  <2>1. \A q \in Piece : retries'[q] <= Budget'
    BY <1>1, <1>2 DEF Paid, Covered
  <2> QED BY <1>1, <1>2, <1>4, <2>1, SavesPaid, Indices
<1>6. Covered'
  BY <1>1, <1>2, <1>5 DEF Paid, Covered
<1>7. work'[p] = "sent"
  BY <1>1 DEF Inv, Shape
<1>8. OwedInStore'
  BY <1>1, <1>2, <1>3, <1>7 DEF Paid, OwedInStore
<1>9. OwedInOutput' /\ SavesAreCurrent'
  BY <1>1, <1>2, <1>5 DEF Paid, OwedInOutput, SavesAreCurrent
<1> QED BY <1>1, <1>6, <1>8, <1>9 DEF Paid

(* Steps of a pipeline that change no table.                                 *)
LEMMA PipelinePaid ==
  ASSUME Inv, Inv', Paid, NEW p \in Piece, GoodAnswer(p) \/ WriteLands(p)
  PROVE  Paid'
<1>1. /\ UNCHANGED <<adapter, saved, phase, status, retries, todo, flight, trouble, restarts>>
      /\ disk' = disk \/ disk' = [disk EXCEPT ![p] = "good"]
      /\ \/ work' = [work EXCEPT ![p] = "writing"]
         \/ work' = [work EXCEPT ![p] = "recording"]
  BY DEF GoodAnswer, WriteLands, bounds
<1>2. Budget' = Budget /\ Verified' = Verified
  BY <1>1 DEF Budget, Verified
<1>3. \A q \in Piece : /\ disk[q] = "good" => disk'[q] = "good"
                       /\ work'[q] = "deleting" => work[q] = "deleting"
  BY <1>1 DEF Inv, Shape, TypeOK
<1>4. Covered' /\ SavesAreCurrent'
  BY <1>1, <1>2 DEF Paid, Covered, SavesAreCurrent
<1>5. OwedInStore' /\ OwedInOutput'
  BY <1>1, <1>2, <1>3 DEF Paid, OwedInStore, OwedInOutput
<1> QED BY <1>1, <1>4, <1>5 DEF Paid

(* A corrupt answer is charged for and pays for whatever was charged before. *)
LEMMA CorruptAnswerPaid == ASSUME Inv, Inv', Paid, NEW p \in Piece, CorruptAnswer(p) PROVE Paid'
<1>1. /\ phase = "running" /\ todo = {} /\ work[p] = "sent"
      /\ status' = [status EXCEPT ![p] = "failed"] /\ retries' = [retries EXCEPT ![p] = @ + 1]
      /\ trouble' = trouble + 1
      /\ UNCHANGED <<adapter, disk, saved, phase, todo, flight, restarts>>
  BY DEF CorruptAnswer, Troubled, Inv, Phased
<1>2. Budget' = Budget + 1 /\ trouble' \in Nat
  BY <1>1, BudgetType DEF Budget
<1>3. \A q \in Piece : retries'[q] <= retries[q] + 1 /\ retries'[q] \in Nat /\ (q # p => status'[q] = status[q])
  BY <1>1, BudgetType
<1>4. Covered'
  <2> SUFFICES ASSUME NEW q \in Piece
               PROVE  /\ retries'[q] <= Budget'
                      /\ saved'.found = "map" => saved'.retries[q] <= Budget'
                      /\ \A i \in 0..PieceCount : flight'[i] # NoSave => flight'[i].retries[q] <= Budget'
    BY DEF Covered
  <2>1. retries'[q] <= Budget' /\ (saved'.found = "map" => saved'.retries[q] <= Budget')
    BY <1>1, <1>2, <1>3, BudgetType DEF Paid, Covered
  <2>2. ASSUME NEW i \in 0..PieceCount, flight'[i] # NoSave
        PROVE  flight'[i].retries[q] <= Budget'
    <3>1. flight[i].retries[q] <= Budget /\ flight[i].retries[q] \in Nat
      BY <1>1, <2>2, BudgetType DEF Paid, Covered
    <3> QED BY <1>1, <1>2, <3>1, BudgetType
  <2> QED BY <2>1, <2>2
<1>5. OwedInStore'
  <2>1. \A q \in Piece : saved.found = "map" => saved.retries[q] < Budget'
    BY <1>2, BudgetType DEF Paid, Covered
  <2> QED BY <1>1, <2>1 DEF OwedInStore
<1>6. OwedInOutput'
  BY <1>1 DEF OwedInOutput
<1>7. status[p] # "verified"
  BY <1>1 DEF Inv, Pipelines
<1>8. SavesAreCurrent'
  BY <1>1, <1>3, <1>7 DEF Paid, SavesAreCurrent
<1> QED BY <1>1, <1>2, <1>4, <1>5, <1>6, <1>8, BudgetType DEF Paid

LEMMA DeleteLandsPaid == ASSUME Inv, Inv', Paid, NEW p \in Piece, DeleteLands(p) PROVE Paid'
<1>1. /\ work[p] = "deleting" /\ work' = [work EXCEPT ![p] = "saving"] /\ Saves(p) /\ todo = {}
      /\ disk' = disk \/ disk' = [disk EXCEPT ![p] = "none"]
      /\ UNCHANGED <<adapter, saved, phase, status, retries, todo, trouble, restarts>>
      /\ phase \in {"running", "complete"}
  BY AtWork DEF DeleteLands, bounds
<1>2. Budget' = Budget
  BY <1>1 DEF Budget
<1>3. /\ \A j \in 0..PieceCount : flight'[j] # NoSave =>
           \A q \in Piece : flight'[j].retries[q] <= Budget'
      /\ \A j \in 0..PieceCount, q \in Piece :
           flight'[j] # NoSave /\ flight'[j].status[q] = "verified" =>
             status'[q] = "verified" /\ q \notin todo'
  <2>1. \A q \in Piece : retries'[q] <= Budget'
    BY <1>1, <1>2 DEF Paid, Covered
  <2>2. \A j \in 0..PieceCount, q \in Piece :
          flight[j] # NoSave /\ flight[j].status[q] = "verified" => status'[q] = "verified"
    BY <1>1 DEF Paid, SavesAreCurrent
  <2> QED BY <1>1, <1>2, <2>1, <2>2, SavesPaid, Indices
<1>4. Covered'
  BY <1>1, <1>2, <1>3 DEF Paid, Covered
<1>5. OwedInStore'
  <2>1. \A q \in Piece : q # p => disk'[q] = disk[q] /\ work'[q] = work[q]
    BY <1>1 DEF Inv, Shape, TypeOK
  <2> QED BY <1>1, <1>2, <2>1 DEF Paid, OwedInStore
<1>6. OwedInOutput' /\ SavesAreCurrent'
  BY <1>1, <1>3 DEF OwedInOutput, SavesAreCurrent
<1> QED BY <1>1, <1>4, <1>5, <1>6 DEF Paid

LEMMA MarkVerifiedPaid == ASSUME Inv, Inv', Paid, NEW p \in Piece, MarkVerified(p) PROVE Paid'
<1>1. /\ work[p] = "recording" /\ work' = [work EXCEPT ![p] = "saving"] /\ Saves(p) /\ todo = {}
      /\ status' = [status EXCEPT ![p] = "verified"]
      /\ UNCHANGED <<adapter, disk, saved, phase, retries, todo, trouble, restarts>>
      /\ phase \in {"running", "complete"}
  BY AtWork DEF MarkVerified, bounds
<1>2. Budget' = Budget
  BY <1>1 DEF Budget
<1>3. /\ \A j \in 0..PieceCount : flight'[j] # NoSave =>
           \A q \in Piece : flight'[j].retries[q] <= Budget'
      /\ \A j \in 0..PieceCount, q \in Piece :
           flight'[j] # NoSave /\ flight'[j].status[q] = "verified" =>
             status'[q] = "verified" /\ q \notin todo'
  <2>1. \A q \in Piece : retries'[q] <= Budget'
    BY <1>1, <1>2 DEF Paid, Covered
  <2>2. \A j \in 0..PieceCount, q \in Piece :
          flight[j] # NoSave /\ flight[j].status[q] = "verified" => status'[q] = "verified"
    BY <1>1, BudgetType DEF Paid, SavesAreCurrent
  <2> QED BY <1>1, <1>2, <2>1, <2>2, SavesPaid, Indices
<1>4. Covered'
  BY <1>1, <1>2, <1>3 DEF Paid, Covered
<1>5. OwedInStore'
  <2>1. \A q \in Piece : work'[q] = "deleting" => work[q] = "deleting"
    BY <1>1 DEF Inv, Shape
  <2> QED BY <1>1, <1>2, <2>1 DEF Paid, OwedInStore
<1>6. OwedInOutput' /\ SavesAreCurrent'
  BY <1>1, <1>3 DEF OwedInOutput, SavesAreCurrent
<1> QED BY <1>1, <1>4, <1>5, <1>6 DEF Paid

(* A save that lands says of a verified piece what is still true of it.       *)
LEMMA SaveLandsPaid == ASSUME Inv, Inv', Paid, NEW i \in 0..PieceCount, SaveLands(i) PROVE Paid'
<1>1. /\ flight[i] # NoSave /\ saved' = flight[i] /\ flight' = [flight EXCEPT ![i] = NoSave]
      /\ phase' \in AfterSave(i) /\ work' = IF i = 0 THEN work ELSE [work EXCEPT ![i] = "idle"]
      /\ UNCHANGED <<adapter, disk, status, retries, todo, trouble, restarts>>
  BY DEF SaveLands, bounds
<1>2. Budget' = Budget /\ Verified' = Verified
  BY <1>1 DEF Budget, Verified
<1>3. \A j \in 0..PieceCount : flight'[j] # NoSave => flight'[j] = flight[j]
  BY <1>1 DEF Inv, Shape
<1>4. Covered'
  BY <1>1, <1>2, <1>3 DEF Paid, Covered
<1>5. OwedInStore'
  <2> SUFFICES ASSUME adapter # "offset", NEW p \in Piece
               PROVE  /\ p \in todo => disk[p] = "good" \/ retries[p] < Budget
                      /\ flight[i].status[p] = "verified" => disk[p] = "good" /\ work'[p] # "deleting"
    BY <1>1, <1>2 DEF OwedInStore
  <2>1. flight[i].status[p] = "verified" => status[p] = "verified" /\ p \notin todo
    BY <1>1 DEF Paid, SavesAreCurrent
  <2>2. work'[p] = "deleting" => work[p] = "deleting"
    BY <1>1 DEF Inv, Shape
  <2> QED BY <2>1, <2>2 DEF Paid, OwedInStore, Inv, Looked, Pipelines
<1>6. /\ phase' = phase \/ (phase \in {"joining", "rejoining", "resumed"} /\ i = 0 /\
                            phase' \in {"preparing", "running", "looking", "looked"})
  BY <1>1 DEF AfterSave
<1>7. OwedInOutput'
  <2>1. phase = "down" => flight[i] = NoSave
    BY DEF Paid, SavesAreCurrent, Inv, Shape, TypeOK, Phased, Piece
  <2> QED BY <1>1, <1>2, <1>6, <2>1 DEF Paid, OwedInOutput
<1>8. SavesAreCurrent'
  <2>1. phase' \in {"down", "restoring", "preparing", "looking", "resuming"} => flight'[0] = NoSave
    <3>1. CASE i = 0
      BY <1>1, <3>1 DEF Inv, Shape
    <3>2. CASE i # 0
      BY <1>1, <1>6, <3>2, Indices DEF Paid, SavesAreCurrent, Inv, Shape
    <3> QED BY <3>1, <3>2
  <2> QED BY <1>1, <1>3, <2>1 DEF Paid, SavesAreCurrent
<1> QED BY <1>1, <1>4, <1>5, <1>7, <1>8 DEF Paid

LEMMA CompletePaid == ASSUME Inv, Inv', Paid, Complete PROVE Paid'
<1>1. /\ phase' = "complete"
      /\ UNCHANGED <<adapter, disk, saved, status, retries, todo, work, flight, trouble, restarts>>
  BY DEF Complete, memory, bounds
<1>2. Budget' = Budget /\ Verified' = Verified
  BY <1>1 DEF Budget, Verified
<1> QED BY <1>1, <1>2 DEF Paid, Covered, OwedInStore, OwedInOutput, SavesAreCurrent

(* The end of a process: in the CLI the next run has a retry more.            *)
LEMMA EndsPaid == ASSUME Inv, Inv', Paid, Crash \/ Rerun \/ RestoreLocalEnds PROVE Paid'
<1>1. /\ Forget
      /\ saved' = saved \/ (saved' = TornMap /\ saved'.found # "map")
      /\ adapter # "offset" => disk' = disk
  <2>1. adapter # "offset" => disk' = disk
    BY DEF Crash, Rerun, RestoreLocalEnds, Inv, Shape, TypeOK
  <2> QED BY <2>1, Kinds DEF Crash, Rerun, RestoreLocalEnds
<1>2. /\ phase' = "down" /\ restarts' = restarts + 1 /\ trouble' = trouble /\ adapter' = adapter
      /\ status' = [p \in Piece |-> "missing"] /\ retries' = [p \in Piece |-> 0] /\ todo' = {}
      /\ work' = [p \in Piece |-> "idle"] /\ flight' = [i \in 0..PieceCount |-> NoSave]
  BY <1>1 DEF Forget
<1>3. /\ Budget' = IF adapter = "offset" THEN Budget + 1 ELSE Budget
      /\ Budget \in Nat /\ restarts' \in Nat
  <2>1. Budget \in Nat /\ trouble \in Nat /\ restarts \in Nat
    BY BudgetType
  <2>2. restarts' = restarts + 1 /\ trouble' = trouble /\ adapter' = adapter
    BY <1>2
  <2> QED BY <2>1, <2>2 DEF Budget
<1>4. saved'.found = "map" => saved' = saved /\ \A p \in Piece : saved.retries[p] \in Nat /\ saved.retries[p] <= Budget
  BY <1>1, BudgetType DEF Paid, Covered
<1>5. Covered'
  BY <1>2, <1>3, <1>4 DEF Covered
<1>6. OwedInStore'
  BY <1>1, <1>2, <1>3, <1>4 DEF Paid, OwedInStore
<1>7. OwedInOutput'
  BY <1>2, <1>3, <1>4 DEF OwedInOutput, Verified
<1>8. SavesAreCurrent'
  BY <1>2, Indices DEF SavesAreCurrent
<1> QED BY <1>2, <1>3, <1>5, <1>6, <1>7, <1>8, BudgetType DEF Paid

LEMMA BytesLostPaid == ASSUME Inv, Inv', Paid, NEW p \in Piece, BytesLost(p) PROVE Paid'
<1>1. /\ phase = "down" /\ trouble' = trouble + 1
      /\ UNCHANGED <<adapter, saved, phase, status, retries, todo, work, flight, restarts>>
      /\ todo = {}
  BY DEF BytesLost, Troubled, memory, Inv, Phased
<1>2. Budget' = Budget + 1 /\ Verified' = Verified /\ trouble' \in Nat
  BY <1>1, BudgetType DEF Budget, Verified
<1>3. \A i \in 0..PieceCount : flight[i] = NoSave
  BY <1>1 DEF Paid, SavesAreCurrent, Inv, Shape, TypeOK, Phased, Piece
<1>4. \A q \in Piece : /\ retries[q] <= Budget /\ retries[q] \in Nat
                       /\ saved.found = "map" => saved.retries[q] <= Budget /\ saved.retries[q] \in Nat
  BY BudgetType DEF Paid, Covered
<1>5. Covered'
  BY <1>1, <1>2, <1>3, <1>4, BudgetType DEF Covered
<1>6. OwedInStore'
  BY <1>1, <1>2, <1>4, BudgetType DEF OwedInStore
<1>7. OwedInOutput'
  BY <1>1, <1>2, <1>4, BudgetType DEF Paid, OwedInOutput
<1>8. SavesAreCurrent'
  BY <1>1, <1>3, Indices DEF SavesAreCurrent
<1> QED BY <1>1, <1>2, <1>5, <1>6, <1>7, <1>8, BudgetType DEF Paid

LEMMA InitPaid == Init => Paid
<1> SUFFICES ASSUME Init PROVE Paid
  OBVIOUS
<1>1. /\ trouble = 0 /\ restarts = 0 /\ Budget = 0 /\ saved.found # "map" /\ todo = {} /\ Verified = {}
      /\ retries = [p \in Piece |-> 0] /\ flight = [i \in 0..PieceCount |-> NoSave]
  BY Kinds DEF Init, Budget, Verified
<1> QED BY <1>1, Indices DEF Paid, Covered, OwedInStore, OwedInOutput, SavesAreCurrent

LEMMA NextPaid == ASSUME Inv, Inv', Paid, [Next]_vars PROVE Paid'
<1>1. CASE UNCHANGED vars
  <2>1. UNCHANGED <<adapter, disk, saved, phase, status, retries, todo, work, flight, trouble, restarts>>
    BY <1>1 DEF vars
  <2>2. Budget' = Budget /\ Verified' = Verified
    BY <2>1 DEF Budget, Verified
  <2> QED BY <2>1, <2>2 DEF Paid, Covered, OwedInStore, OwedInOutput, SavesAreCurrent
<1>2. CASE Starting
  BY <1>2, JoinSessionPaid, RestorePiecePaid, RestoredPaid, EndsPaid DEF Starting
<1>3. CASE Complete \/ Crash \/ Rerun
  BY <1>3, CompletePaid, EndsPaid
<1>4. CASE SaveLands(0)
  BY <1>4, SaveLandsPaid, Indices
<1>5. ASSUME NEW p \in Piece,
             \/ RequestPiece(p) \/ GoodAnswer(p) \/ CorruptAnswer(p)
             \/ Storing(p) \/ BytesLost(p)
      PROVE  Paid'
  <2>1. p \in 0..PieceCount
    BY Indices
  <2> QED BY <1>5, <2>1, RequestPiecePaid, PipelinePaid, CorruptAnswerPaid, DeleteLandsPaid, MarkVerifiedPaid,
              SaveLandsPaid, BytesLostPaid DEF Storing
<1> QED BY <1>1, <1>2, <1>3, <1>4, <1>5 DEF Next

(* However often the receiver is killed and restarted, and whatever map is    *)
(* left in its storage, a piece has not been charged more retries than there  *)
(* were corrupt answers and lost bytes, plus one per run in the CLI.          *)
THEOREM RetriesPaid == Spec => []RetriesArePaidFor
<1>1. Init => Inv /\ Paid
  BY InitInv, InitPaid
<1>2. Inv /\ Paid /\ [Next]_vars => (Inv /\ Paid)'
  BY NextInv, NextPaid
<1>3. Inv /\ Paid => RetriesArePaidFor
  BY DEF Paid, Covered, Budget, RetriesArePaidFor
<1> QED BY <1>1, <1>2, <1>3, PTL DEF Spec
=============================================================================
