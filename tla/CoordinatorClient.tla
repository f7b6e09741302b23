-------------------------- MODULE CoordinatorClient --------------------------
(* The coordinator commands of the command line (coordinator-runtime.ts):    *)
(* each is a fixed sequence of HTTP requests, every one repeated once when   *)
(* it got no answer (coordinatorRequest), then, for get and download, a      *)
(* direct transfer from the node the answers name.                          *)
EXTENDS ShareRegistry, Sequences

CONSTANTS
  MaxCommands,   \* processes started
  NodeCode       \* the code the coordinator gives to a share of a node

VARIABLES
  run,           \* each process: its command, file or code, and request under way
  tries,         \* how often the request under way has failed
  learned,       \* what it was told: the share's file, and the hint of the provider
  applied        \* how often the coordinator has carried out the request under way

clients == <<run, tries, learned, applied>>

Command == 1..MaxCommands
Kind == {"node", "publish", "files", "share", "get", "download"}

(* The requests of each command, in the order of its awaits.                 *)
Requests(kind) ==
  CASE kind = "node" -> <<"workspace", "register", "heartbeat">>
    [] kind = "publish" -> <<"publish">>
    [] kind = "files" -> <<"list">>
    [] kind = "share" -> <<"workspace", "publish", "share">>
    [] kind = "get" -> <<"resolve", "candidates">>
    [] kind = "download" -> <<"candidatesOf">>

Idle == [kind |-> "none", file |-> "none", code |-> NodeCode, at |-> 1, end |-> "no"]
Nothing == [file |-> "none", join |-> NoHint]

ClientInit ==
  /\ run = [k \in Command |-> Idle]
  /\ tries = [k \in Command |-> 0]
  /\ learned = [k \in Command |-> Nothing]
  /\ applied = [k \in Command |-> 0]

Running(k) == run[k].kind # "none" /\ run[k].end = "no"
Asking(k) == Running(k) /\ run[k].at <= Len(Requests(run[k].kind))
Request(k) == Requests(run[k].kind)[run[k].at]
Joining(k) == Running(k) /\ ~Asking(k)

(* runNodeStart, runPublish, runFiles, runShare, runGet, runDownload.        *)
StartCommand(k, kind, file, code) ==
  /\ run[k] = Idle
  /\ \A j \in 1..k - 1 : run[j] # Idle
  /\ run' = [run EXCEPT ![k].kind = kind, ![k].file = file, ![k].code = code]
  /\ UNCHANGED <<tries, learned, applied, registry>>

-----------------------------------------------------------------------------
(* The coordinator carries out the request under way.                        *)
Apply(k) ==
  LET file == run[k].file
      asks(r) == Request(k) = r
  IN  /\ hint' = IF asks("heartbeat") THEN file ELSE hint
      /\ published' = IF asks("publish") THEN published \cup {file} ELSE published
      /\ byCode' = IF asks("share") THEN Put(NodeCode, file, "node") ELSE byCode

(* It answers not_found or, for routes it does not have, not_implemented.    *)
Known(k) == Request(k) \in {"resolve", "candidates"} => byCode[run[k].code] # NoShare

(* What the command takes from the answer.                                   *)
Heard(k) ==
  LET file == run[k].file
      code == run[k].code
  IN
  CASE Request(k) = "resolve" -> [learned[k] EXCEPT !.file = byCode[code].file]
    [] Request(k) = "candidates" -> [learned[k] EXCEPT !.join = JoinHint(code)]
    [] Request(k) = "candidatesOf" ->
         [file |-> file, join |-> IF file \in published THEN hint ELSE NoHint]
    [] OTHER -> learned[k]

(* assertDirectTransferMatchesResolvedShare: get refuses a provider whose     *)
(* descriptor is for another file than the code; download has no such check. *)
MatchesAlways(kind, got) == TRUE
Matches(kind, got) == kind = "get" => got.join \in {NoHint, got.file}

(* After the last answer: a direct transfer if there is a provider to join,   *)
(* otherwise the command ends with what it has.                             *)
AfterLast(k, got) ==
  IF ~Matches(run[k].kind, got) THEN "failed"
  ELSE CASE run[k].kind \notin {"get", "download"} -> "done"
         [] run[k].kind \in {"get", "download"} /\ got.join = NoHint -> "planned"
         [] run[k].kind \in {"get", "download"} /\ got.join # NoHint -> "no"

Answered(k) ==
  /\ Asking(k) /\ Known(k)
  /\ Apply(k)
  /\ tries' = [tries EXCEPT ![k] = 0]
  /\ applied' = [applied EXCEPT ![k] = 0]
  /\ learned' = [learned EXCEPT ![k] = Heard(k)]
  /\ LET last == run[k].at = Len(Requests(run[k].kind)) IN
     run' = [run EXCEPT ![k].at = @ + 1,
                        ![k].end = IF last THEN AfterLast(k, Heard(k)) ELSE "no"]

(* An answer that is not ok ends the command; it is not repeated.            *)
Refused(k) ==
  /\ Asking(k)
  /\ run' = [run EXCEPT ![k].end = "failed"]
  /\ UNCHANGED <<tries, learned, applied, registry>>

(* No answer within 15 seconds, or a broken connection: once more after a     *)
(* pause, and then the command fails.  The coordinator may have carried out  *)
(* the request all the same.                                                *)
Repeats(k) == IF tries[k] = 0 THEN run[k] ELSE [run[k] EXCEPT !.end = "failed"]
Unanswered(k) ==
  /\ Asking(k)
  /\ tries' = [tries EXCEPT ![k] = 1]
  /\ run' = [run EXCEPT ![k] = Repeats(k)]
  /\ UNCHANGED learned
  /\ \/ Known(k) /\ Apply(k) /\ applied' = [applied EXCEPT ![k] = @ + 1]
     \/ UNCHANGED <<applied, registry>>

(* runJoin ends; an exit code other than 0 fails the command.                *)
JoinEnds(k) ==
  /\ Joining(k)
  /\ \E end \in {"complete", "failed"} : run' = [run EXCEPT ![k].end = end]
  /\ UNCHANGED <<tries, learned, applied, registry>>

CommandStep(k) == Answered(k) \/ Refused(k) \/ Unanswered(k) \/ JoinEnds(k)

ClientTypeOK ==
  /\ run \in [Command -> [kind : Kind \cup {"none"}, file : File \cup {"none"},
                          code : Code, at : 1..4,
                          end : {"no", "done", "planned", "complete", "failed"}]]
  /\ tries \in [Command -> 0..1]
  /\ learned \in [Command -> [file : File \cup {"none"}, join : File \cup {NoHint}]]
  /\ applied \in [Command -> 0..2]

(* A publish or share that reports success is on record, whatever answers     *)
(* were lost on the way, and no request is carried out more than twice.      *)
ReportedIsRecorded ==
  \A k \in Command :
    /\ applied[k] <= 2
    /\ run[k].kind \in {"publish", "share"} /\ run[k].end = "done" => run[k].file \in published

(* get completes only with the file its code was resolved to, though the      *)
(* share, and the node's own descriptor, may change between its requests.    *)
GetMatchesShare ==
  \A k \in Command : run[k].kind = "get" /\ run[k].end = "complete" =>
    learned[k].join = learned[k].file

CommandsKeepTheirWord == ReportedIsRecorded /\ GetMatchesShare

(* Every command ends.                                                       *)
CommandEnds == \A k \in Command : Running(k) ~> ~Running(k)
=============================================================================
