----------------------------- MODULE PageRuntime -----------------------------
(* The page of the demo (main.tsx) between the user's clicks: attempts to    *)
(* share a file (createWebShareLink, startSignaledSender) or to receive one  *)
(* (resolveWebGetInput, joinSignaledReceiver), each a chain of awaits that    *)
(* builds a runtime: signaling client, transport, engine.  The user may start *)
(* the next attempt, or leave the page, between any two of them; a generation *)
(* number tells an attempt that it is no longer the newest, and a reference   *)
(* holds the runtime whose messages the page handles.                       *)
EXTENDS ShareRegistry, Sequences

CONSTANTS
  MaxAttempts,   \* attempts the user makes
  PageFile       \* the file a sharing page serves

VARIABLES
  role,          \* the side of the page that is used: "owner" or "receiver"
  mounted,       \* the page is open
  generation,    \* ownerRuntimeGeneration or receiverRuntimeGeneration
  current,       \* ownerRuntime.current or receiverRuntime.current: an attempt, or 0
  kind,          \* what each attempt is
  stage,         \* the await it is in
  ticket,        \* its generation
  parts,         \* what it has built and not released
  disposal,      \* disposals under way: of each attempt, and of the closing page (0)
  room,          \* rooms of the owner's runtimes, and the remote room (0)
  transfer,      \* per receiving runtime, its completeReceiverTransfer
  panel          \* what the page shows of its share or download

page == <<role, mounted, generation, current, kind, stage, ticket, parts, disposal, room, transfer, panel>>

Attempt == 1..MaxAttempts
Remote == 0
Closing == 0
All == <<"client", "engine", "transport">>
NoDisposal == [of |-> 0, todo |-> <<>>]
Shows(status, a) == [status |-> status, by |-> a]

PageInit ==
  /\ role \in {"owner", "receiver"}
  /\ mounted = TRUE /\ generation = 0 /\ current = 0
  /\ kind = [a \in Attempt |-> "none"] /\ stage = [a \in Attempt |-> "none"]
  /\ ticket = [a \in Attempt |-> 0] /\ parts = [a \in Attempt |-> {}]
  /\ disposal = [d \in Attempt \cup {Closing} |-> NoDisposal]
  /\ room = [a \in Attempt \cup {Remote} |-> IF a = Remote THEN "open" ELSE "none"]
  /\ transfer = [a \in Attempt |-> "none"]
  /\ panel = Shows("idle", 0)

(* The generation tests of the attempts, and isCurrentRuntime.               *)
Newest(a) == ticket[a] = generation
IsCurrentRuntime(a) == current = a /\ Newest(a)

-----------------------------------------------------------------------------
(* disposeOwnerRuntime and disposeReceiverRuntime by d: the reference is      *)
(* dropped at once, the parts of the runtime are closed one await at a time; *)
(* a failing close is ignored.                                              *)
Forgotten(r) == IF current = r THEN 0 ELSE current
DisposingTail(d, r) == [disposal EXCEPT ![d] = [of |-> r, todo |-> IF r = 0 THEN <<>> ELSE Tail(All)]]
Disposing(d, r) == [disposal EXCEPT ![d] = [of |-> r, todo |-> IF r = 0 THEN <<>> ELSE All]]

PartReleased(d) ==
  LET r == disposal[d].of
      part == Head(disposal[d].todo)
  IN  /\ disposal[d].todo # <<>>
      /\ disposal' = [disposal EXCEPT ![d].todo = Tail(@)]
      /\ parts' = [parts EXCEPT ![r] = @ \ {part}]
      /\ room' = IF part = "client" /\ room[r] = "open" THEN [room EXCEPT ![r] = "gone"] ELSE room
      /\ UNCHANGED <<role, mounted, generation, current, kind, stage, ticket, transfer, panel, registry>>

(* The attempt gives up its own runtime, or the parts it has without one.    *)
GivesUp(a, outcome) ==
  /\ stage' = [stage EXCEPT ![a] = outcome]
  /\ disposal' = Disposing(a, a)
  /\ current' = Forgotten(a)

-----------------------------------------------------------------------------
(* An attempt takes the next generation and asks for the ICE servers.        *)
Takes(a) ==
  /\ generation' = generation + 1
  /\ ticket' = [ticket EXCEPT ![a] = generation + 1]
  /\ stage' = [stage EXCEPT ![a] = "ice"]

Starts(a, k) ==
  /\ mounted /\ stage[a] = "none"
  /\ \A b \in 1..a - 1 : stage[b] # "none"
  /\ kind' = [kind EXCEPT ![a] = k]

(* createWebShareLink, or startSignaledSender, which leaves the panel alone.  *)
StartShare(a) ==
  /\ role = "owner"
  /\ \E k \in {"link", "signaled"} :
       /\ Starts(a, k)
       /\ panel' = IF k = "link" THEN Shows("creating", a) ELSE panel
  /\ Takes(a)
  /\ UNCHANGED <<role, mounted, current, parts, disposal, room, transfer, registry>>

(* joinSignaledReceiver from a #/join/ address.                              *)
StartJoin(a) ==
  /\ role = "receiver"
  /\ Starts(a, "join") /\ Takes(a)
  /\ panel' = Shows("downloading", a)
  /\ UNCHANGED <<role, mounted, current, parts, disposal, room, transfer, registry>>

(* resolveWebGetInput: the code is looked up, as typed and then with a dash;   *)
(* only a session found starts the attempt proper.                          *)
StartGet(a) ==
  /\ role = "receiver"
  /\ Starts(a, "get")
  /\ stage' = [stage EXCEPT ![a] = "lookup"]
  /\ panel' = Shows("resolving", a)
  /\ UNCHANGED <<role, mounted, generation, current, ticket, parts, disposal, room, transfer, registry>>

LookupFinds(a) ==
  /\ stage[a] \in {"lookup", "dashed"}
  /\ Takes(a)
  /\ panel' = Shows("downloading", a)
  /\ UNCHANGED <<role, mounted, current, kind, parts, disposal, room, transfer, registry>>

LookupFindsNothing(a) ==
  /\ \/ stage[a] = "lookup" /\ stage' = [stage EXCEPT ![a] = "dashed"] /\ UNCHANGED panel
     \/ stage[a] = "dashed" /\ stage' = [stage EXCEPT ![a] = "over"] /\ panel' = Shows("error", a)
  /\ UNCHANGED <<role, mounted, generation, current, kind, ticket, parts, disposal, room, transfer, registry>>

(* ensureRtcConfig never fails: without an answer it falls back to STUN.      *)
ReplacesAlways(a) == TRUE
Replaces(a) == Newest(a)
IceKnown(a) ==
  /\ stage[a] = "ice"
  /\ \/ /\ ~Replaces(a)
        /\ stage' = [stage EXCEPT ![a] = "over"]
        /\ UNCHANGED <<current, disposal>>
     \/ /\ Replaces(a)
        /\ stage' = [stage EXCEPT ![a] = "replacing"]
        /\ disposal' = Disposing(a, current)
        /\ current' = 0
  /\ UNCHANGED <<role, mounted, generation, kind, ticket, parts, room, transfer, panel, registry>>

(* The previous runtime is gone: the owner creates transport, engine and      *)
(* session, the receiver its transport and storage.                         *)
FirstParts == IF role = "owner" THEN {"engine", "transport"} ELSE {"transport"}
Replaced(a) ==
  /\ stage[a] = "replacing" /\ disposal[a].todo = <<>>
  /\ IF Newest(a)
     THEN /\ stage' = [stage EXCEPT ![a] = "preparing"]
          /\ parts' = [parts EXCEPT ![a] = FirstParts]
     ELSE /\ stage' = [stage EXCEPT ![a] = "over"]
          /\ UNCHANGED parts
  /\ UNCHANGED <<role, mounted, generation, current, kind, ticket, disposal, room, transfer, panel, registry>>

(* createSession or createPersistentStorage ends; the runtime is complete,    *)
(* becomes the current one, and its client connects.                        *)
BuildsAlways(a) == TRUE
Builds(a) == Newest(a)
Prepared(a) ==
  /\ stage[a] = "preparing"
  /\ \/ /\ ~Builds(a) /\ GivesUp(a, "undoing")
        /\ UNCHANGED parts
     \/ /\ Builds(a)
        /\ stage' = [stage EXCEPT ![a] = "connecting"]
        /\ parts' = [parts EXCEPT ![a] = {"client", "engine", "transport"}]
        /\ current' = a
        /\ UNCHANGED disposal
  /\ UNCHANGED <<role, mounted, generation, kind, ticket, room, transfer, panel, registry>>

(* client.connect() ends.  A link goes on to the registry, a signaled sender   *)
(* to its QR code, a receiver joins the room and is done.                    *)
AfterConnect(a) ==
  CASE kind[a] = "link" -> "registering"
    [] kind[a] = "signaled" -> "drawing"
    [] OTHER -> "joined"
Connected(a) ==
  /\ stage[a] = "connecting"
  /\ IF IsCurrentRuntime(a)
     THEN /\ stage' = [stage EXCEPT ![a] = AfterConnect(a)]
          /\ room' = IF role = "owner" THEN [room EXCEPT ![a] = "open"] ELSE room
          /\ UNCHANGED <<current, disposal>>
     ELSE GivesUp(a, "undoing") /\ UNCHANGED room
  /\ UNCHANGED <<role, mounted, generation, kind, ticket, parts, transfer, panel, registry>>

(* registerCoordinatorBrowserShare never fails; the share may be stored and   *)
(* its answer lost, and the page then shows the same code.                  *)
Registered(a) ==
  /\ stage[a] = "registering"
  /\ byCode' \in {byCode, Put(a, PageFile, "page")}
  /\ IF IsCurrentRuntime(a)
     THEN stage' = [stage EXCEPT ![a] = "drawing"] /\ UNCHANGED <<current, disposal>>
     ELSE GivesUp(a, "undoing")
  /\ UNCHANGED <<role, mounted, generation, kind, ticket, parts, room, transfer, panel, published, hint>>

(* createQrDataUrl ends: the share is shown.                                 *)
Serves(a) == IsCurrentRuntime(a)
Drawn(a) ==
  /\ stage[a] = "drawing"
  /\ IF Serves(a)
     THEN /\ stage' = [stage EXCEPT ![a] = "serving"]
          /\ panel' = IF kind[a] = "link" THEN Shows("serving", a) ELSE panel
          /\ UNCHANGED <<current, disposal>>
     ELSE GivesUp(a, "undoing") /\ UNCHANGED panel
  /\ UNCHANGED <<role, mounted, generation, kind, ticket, parts, room, transfer, registry>>

(* An await throws: reading the file, opening storage, connecting, drawing.   *)
Throws(a) ==
  /\ stage[a] \in {"preparing", "connecting", "drawing"}
  /\ GivesUp(a, "failing")
  /\ UNCHANGED <<role, mounted, generation, kind, ticket, parts, room, transfer, panel, registry>>

(* Its disposal is over; only the newest attempt reports its error, a link on  *)
(* the panel, the others in the log of the page.                            *)
GivenUp(a) ==
  /\ stage[a] \in {"undoing", "failing"} /\ disposal[a].todo = <<>>
  /\ stage' = [stage EXCEPT ![a] = IF stage[a] = "failing" /\ Newest(a) THEN "failed" ELSE "over"]
  /\ panel' = IF stage[a] = "failing" /\ Newest(a) /\ kind[a] = "link" THEN Shows("error", a) ELSE panel
  /\ UNCHANGED <<role, mounted, generation, current, kind, ticket, parts, disposal, room, transfer, registry>>

(* The page is closed: attempts under way are outdated, the runtime disposed. *)
Unmount ==
  /\ mounted
  /\ mounted' = FALSE
  /\ generation' = generation + 1
  /\ disposal' = Disposing(Closing, current)
  /\ current' = 0
  /\ UNCHANGED <<role, kind, stage, ticket, parts, room, transfer, panel, registry>>

-----------------------------------------------------------------------------
(* The owner's offer or answer has arrived and its channel has opened:         *)
(* completeReceiverTransfer starts, for the current runtime only.            *)
OwnerChannelOpens(a) == stage[a] = "joined" /\ room[Remote] = "open" /\ transfer[a] = "none"
TransferStarts(a) ==
  /\ OwnerChannelOpens(a) /\ IsCurrentRuntime(a)
  /\ transfer' = [transfer EXCEPT ![a] = "running"]
  /\ UNCHANGED <<role, mounted, generation, current, kind, stage, ticket, parts, disposal, room, panel, registry>>

(* One turn of its loop: it asks for pieces, waits for one and reports.  A     *)
(* disposal aborts it, which it sees at the next turn, if there is one.      *)
TransferTurns(a) ==
  /\ transfer[a] = "running"
  /\ panel' = Shows("downloading", a)
  /\ transfer' \in {[transfer EXCEPT ![a] = t] :
                      t \in {"saving", IF current = a THEN "running" ELSE "aborted"}}
  /\ UNCHANGED <<role, mounted, generation, current, kind, stage, ticket, parts, disposal, room, registry>>

(* Every piece is verified: the file is restored, saved and shown, and the    *)
(* controller disposes the engine.                                          *)
TransferSaves(a) ==
  /\ transfer[a] = "saving"
  /\ transfer' = [transfer EXCEPT ![a] = "done"]
  /\ parts' = [parts EXCEPT ![a] = @ \ {"engine"}]
  /\ panel' = Shows("complete", a)
  /\ UNCHANGED <<role, mounted, generation, current, kind, stage, ticket, disposal, room, registry>>

(* An abort, a provider that is gone, or storage that fails: whatever          *)
(* download the panel shows becomes an error, then the controller cleans up. *)
TransferFails(a) ==
  /\ transfer[a] \in {"running", "aborted", "saving"}
  /\ transfer' = [transfer EXCEPT ![a] = "cleaning"]
  /\ panel' = IF panel.status = "downloading" THEN [panel EXCEPT !.status = "error"] ELSE panel
  /\ UNCHANGED <<role, mounted, generation, current, kind, stage, ticket, parts, disposal, room, registry>>

TransferCleaned(a) ==
  /\ transfer[a] = "cleaning"
  /\ transfer' = [transfer EXCEPT ![a] = "failed"]
  /\ parts' = [parts EXCEPT ![a] = @ \ {"engine"}]
  /\ UNCHANGED <<role, mounted, generation, current, kind, stage, ticket, disposal, room, panel, registry>>

(* The remote owner leaves; whoever joins its room then is told so.          *)
RemoteLeaves ==
  /\ role = "receiver" /\ room[Remote] = "open"
  /\ room' = [room EXCEPT ![Remote] = "gone"]
  /\ UNCHANGED <<role, mounted, generation, current, kind, stage, ticket, parts, disposal, transfer, panel, registry>>

JoinRefused(a) ==
  /\ stage[a] = "joined" /\ IsCurrentRuntime(a)
  /\ room[Remote] = "gone" /\ panel.status = "downloading"
  /\ panel' = [panel EXCEPT !.status = "error"]
  /\ UNCHANGED <<role, mounted, generation, current, kind, stage, ticket, parts, disposal, room, transfer, registry>>

-----------------------------------------------------------------------------
UserStep(a) == StartShare(a) \/ StartJoin(a) \/ StartGet(a)
AttemptStep(a) ==
  \/ LookupFinds(a) \/ LookupFindsNothing(a) \/ IceKnown(a) \/ Replaced(a) \/ Prepared(a)
  \/ Connected(a) \/ Registered(a) \/ Drawn(a) \/ Throws(a) \/ GivenUp(a)
TransferEnds(a) == TransferSaves(a) \/ TransferFails(a) \/ TransferCleaned(a)

PageStep ==
  \/ \E a \in Attempt : AttemptStep(a)
  \/ \E a \in Attempt : TransferStarts(a) \/ TransferTurns(a) \/ TransferEnds(a) \/ JoinRefused(a)
  \/ \E d \in Attempt \cup {Closing} : PartReleased(d)
  \/ Unmount
  \/ RemoteLeaves

-----------------------------------------------------------------------------
(* Properties.                                                             *)

Building == {"lookup", "dashed", "ice", "replacing", "preparing", "connecting", "registering",
             "drawing", "undoing", "failing"}

PageTypeOK ==
  /\ role \in {"owner", "receiver"} /\ mounted \in BOOLEAN
  /\ generation \in 0..MaxAttempts + 1 /\ current \in {0} \cup Attempt
  /\ kind \in [Attempt -> {"none", "link", "signaled", "join", "get"}]
  /\ stage \in [Attempt -> Building \cup {"none", "serving", "joined", "failed", "over"}]
  /\ \A a, b \in Attempt : ticket[a] \in 0..generation /\ (ticket[a] = ticket[b] => a = b \/ ticket[a] = 0)
  /\ parts \in [Attempt -> SUBSET {"client", "engine", "transport"}]
  /\ transfer \in [Attempt -> {"none", "running", "aborted", "saving", "cleaning", "done", "failed"}]
  /\ panel.by \in {0} \cup Attempt

(* However attempts, failures and the closing of the page interleave, no      *)
(* runtime is left open that nobody would close: it is the referenced one,   *)
(* or each part it still has is in the hands of a disposal.                  *)
RuntimesAreHeld ==
  \A a \in Attempt :
    \/ current = a \/ stage[a] = "preparing"
    \/ \A part \in parts[a] :
         \E d \in DOMAIN disposal :
           disposal[d].of = a /\ \E i \in 1..Len(disposal[d].todo) : disposal[d].todo[i] = part

Resting == /\ \A a \in Attempt : stage[a] \notin Building
           /\ \A d \in DOMAIN disposal : disposal[d].todo = <<>>

(* Once every await has settled, only the newest attempt has a runtime (the    *)
(* page never ignores the messages of one it keeps), it was not given up     *)
(* silently, and a share on the panel is being served.  A signaled sender     *)
(* does not touch the panel and may leave a dead share on it.               *)
Untouched == \A b \in Attempt : kind[b] = "signaled" => b < panel.by
RestsOnNewest ==
  Resting =>
    /\ \A a \in Attempt : parts[a] # {} => IsCurrentRuntime(a)
    /\ \A a \in Attempt : Newest(a) /\ ticket[a] > 0 => stage[a] \in {"serving", "joined", "failed"}
    /\ mounted /\ Untouched =>
         /\ panel.status # "creating"
         /\ panel.status = "serving" => IsCurrentRuntime(panel.by) /\ room[panel.by] = "open"

(* The runtime of an attempt that is no longer the newest gets closed, though  *)
(* the newer attempt may fail at any await.                                 *)
SupersededIsReleased ==
  \A a \in Attempt : (parts[a] # {} /\ ~Newest(a)) ~> parts[a] = {}
=============================================================================
