---------------------------- MODULE ShareRegistry ----------------------------
(* The directory of shares: a short code leads to the file behind it, and    *)
(* to the room or the node that serves it, until it expires.  Pages register *)
(* at the signaling server (BrowserShareRegistry and handleHttpRequest in    *)
(* server.ts); the command line talks to a coordinator of the same interface *)
(* (coordinator-runtime.ts), which also keeps published files and the hints  *)
(* of the nodes that serve them.                                            *)
EXTENDS Naturals, FiniteSets

CONSTANTS
  Code,          \* share codes, one for each share that is registered
  File,          \* files behind them
  OnlineFile     \* the file a node that is online already serves, or "none"

VARIABLES
  byCode,        \* what each code stands for: its file and who serves it
  published,     \* files announced to the coordinator
  hint           \* the file a node's join descriptor is for, from its heartbeat

registry == <<byCode, published, hint>>

NoShare == [file |-> "none", by |-> "none"]
NoHint == "none"
Share(file, by) == [file |-> file, by |-> by]

RegistryInit ==
  /\ byCode = [c \in Code |-> NoShare]
  /\ published = {}
  /\ hint = OnlineFile

-----------------------------------------------------------------------------
(* BrowserShareRegistry.put: the newest registration of a code stands.       *)
Put(c, file, by) == [byCode EXCEPT ![c] = Share(file, by)]

(* A share passes its time to live; cleanup, put and get all drop it then.   *)
Expire(c) ==
  /\ byCode[c] # NoShare
  /\ byCode' = [byCode EXCEPT ![c] = NoShare]
  /\ UNCHANGED <<published, hint>>

(* GET /shares/:code/candidates: a page's provider is named by the link of   *)
(* its room, which a command line cannot join; a node's by its descriptor.   *)
JoinHint(c) == IF byCode[c].by = "node" THEN hint ELSE NoHint

RegistryTypeOK ==
  /\ byCode \in [Code -> {NoShare} \cup [file : File, by : {"page", "node"}]]
  /\ published \subseteq File
  /\ hint \in File \cup {NoHint}
=============================================================================
