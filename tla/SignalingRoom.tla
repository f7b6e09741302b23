--------------------------- MODULE SignalingRoom ---------------------------
(***************************************************************************)
(* The signaling server: RoomManager and SignalingGateway, for one         *)
(* session.  The owner creates it, receivers join it, and the server       *)
(* relays WebRTC offers and answers between its members and tells every    *)
(* member who joined and who left.  The server is one JavaScript thread:   *)
(* each frame, close event and clean-up tick is one step.  Between it and  *)
(* each client run two ordered streams, inbox (to the client) and outbox   *)
(* (from it).  Sessions share nothing, so one is enough.                   *)
(*                                                                         *)
(* This is an open component: RoomMesh supplies the clients.               *)
(***************************************************************************)
EXTENDS Integers, FiniteSets, Sequences, SequencesExt

CONSTANTS Receivers,   \* peers that may join, ordered as their peer ids are
          MaxPeers     \* maxPeersPerSession

ASSUME RoomAssumption == /\ Receivers \subseteq Nat \ {0}
                         /\ MaxPeers \in Nat \ {0}

Owner == 0
Peer == Receivers \cup {Owner}

VARIABLES room,      \* "none", "open", or "gone": left by its owner, emptied or expired
          members,   \* the room's peers in the order they joined
          conn,      \* per peer, its connection: "none", "attached" (no message handled
                     \* yet), "member" (identified as the peer) or "closed"
          inbox,
          outbox

roomVars == <<room, members, conn, inbox, outbox>>

Message == [type : {"SESSION_JOINED"}, peers : Seq(Peer)]
           \cup [type : {"PEER_JOINED", "PEER_LEFT", "OFFER", "ANSWER"}, from : Peer]
           \cup [type : {"ERROR"}]
Request == [type : {"CREATE_SESSION", "JOIN_SESSION"}]
           \cup [type : {"OFFER", "ANSWER"}, to : Peer]

Joined(list) == [type |-> "SESSION_JOINED", peers |-> list]
News(type, p) == [type |-> type, from |-> p]
Error == [type |-> "ERROR"]

RoomInit ==
  /\ room = "none"
  /\ members = <<>>
  /\ conn = [p \in Peer |-> "none"]
  /\ inbox = [p \in Peer |-> <<>>]
  /\ outbox = [p \in Peer |-> <<>>]

Connected(p) == conn[p] \in {"attached", "member"}
Member(p) == room = "open" /\ p \in ToSet(members)

Sent(box, p, m) == [box EXCEPT ![p] = Append(@, m)]

(* broadcast: every identified connection of the session but the peer's own *)
BroadcastToAttached(m, p) ==
  [q \in Peer |-> IF conn[q] = "attached" /\ q # p THEN Append(inbox[q], m) ELSE inbox[q]]
Broadcast(m, p) ==
  [q \in Peer |-> IF conn[q] = "member" /\ q # p THEN Append(inbox[q], m) ELSE inbox[q]]

(* RoomManager.leaveSession: the room goes with its owner, or with its last *)
(* peer.                                                                   *)
LeaveSessionWhenEmpty(p) ==
  LET rest == RemoveFirst(members, p)
  IN  /\ members' = IF room = "open" THEN rest ELSE members
      /\ room' = IF room = "open" /\ rest = <<>> THEN "gone" ELSE room
LeaveSession(p) ==
  LET rest == RemoveFirst(members, p)
      over == p = Owner \/ rest = <<>>
  IN  /\ members' = IF room = "open" /\ ~over THEN rest ELSE <<>>
      /\ room' = IF room = "open" /\ over THEN "gone" ELSE room

-----------------------------------------------------------------------------
(* A text frame of client p is handled.                                     *)

Take(p, type) ==
  /\ Connected(p)
  /\ outbox[p] # <<>>
  /\ Head(outbox[p]).type = type
  /\ outbox' = [outbox EXCEPT ![p] = Tail(@)]

Refuse(p) ==
  /\ inbox' = Sent(inbox, p, Error)
  /\ UNCHANGED <<room, members, conn>>

(* The connection is identified as its peer and counts for the session.     *)
IdentifiedOwner(p) == [conn EXCEPT ![p] = IF p = Owner THEN "member" ELSE @]
Identified(p) == [conn EXCEPT ![p] = "member"]

(* handleCreateSession; session ids are fresh, so the room is new.  The     *)
(* reply changes nothing at the owner and is left out.                      *)
HandleCreateSession(p) ==
  /\ Take(p, "CREATE_SESSION")
  /\ room' = "open"
  /\ members' = <<p>>
  /\ conn' = Identified(p)
  /\ UNCHANGED inbox

(* handleJoinSession: the peer is put in and taken out again when that is   *)
(* one too many; only an accepted join identifies the connection.           *)
WithinLimit(list) == Len(list) <= MaxPeers

HandleJoinSession(p) ==
  /\ Take(p, "JOIN_SESSION")
  /\ LET list == Append(members, p)
     IN  IF room = "open" /\ WithinLimit(list)
         THEN /\ members' = list
              /\ conn' = Identified(p)
              /\ inbox' = Sent(Broadcast(News("PEER_JOINED", p), p), p, Joined(list))
              /\ UNCHANGED room
         ELSE Refuse(p)

(* handleRelay and relayWebRtc: both ends must be members, and the target   *)
(* have an identified connection.                                          *)
HandleRelay(p, type) ==
  /\ Take(p, type)
  /\ LET q == Head(outbox[p]).to
     IN  IF Member(p) /\ Member(q) /\ conn[q] = "member"
         THEN /\ inbox' = Sent(inbox, q, News(type, p))
              /\ UNCHANGED <<room, members, conn>>
         ELSE Refuse(p)

HandleText(p) ==
  \/ HandleCreateSession(p)
  \/ HandleJoinSession(p)
  \/ HandleRelay(p, "OFFER")
  \/ HandleRelay(p, "ANSWER")

(* detach, when the connection closes: an identified peer leaves the session *)
(* and the others are told.                                                *)
Detached(p) == IF conn[p] = "member" THEN Broadcast(News("PEER_LEFT", p), p) ELSE inbox

Detach(p) ==
  /\ Connected(p)
  /\ conn' = [conn EXCEPT ![p] = "closed"]
  /\ outbox' = [outbox EXCEPT ![p] = <<>>]
  /\ IF conn[p] = "member" THEN LeaveSession(p) ELSE UNCHANGED <<room, members>>
  /\ inbox' = Detached(p)

(* cleanupStalePeers closes a connection without recent text, which detaches *)
(* it, and then detaches it again: the others are told twice.               *)
Evict(p) ==
  /\ conn[p] = "member"
  /\ conn' = [conn EXCEPT ![p] = "closed"]
  /\ outbox' = [outbox EXCEPT ![p] = <<>>]
  /\ LeaveSession(p)
  /\ inbox' = [q \in Peer |-> IF conn[q] = "member" /\ q # p
                              THEN inbox[q] \o <<News("PEER_LEFT", p), News("PEER_LEFT", p)>>
                              ELSE inbox[q]]

(* The session's ttl has passed and cleanupExpired, or the next call that    *)
(* looks at the room, deletes it.  Nobody is told.                          *)
Expire ==
  /\ room = "open"
  /\ room' = "gone"
  /\ members' = <<>>
  /\ UNCHANGED <<conn, inbox, outbox>>

-----------------------------------------------------------------------------
(* The room stands and falls with its owner, and every peer in it has a      *)
(* connection that will take it out again when it closes: a room never       *)
(* keeps a peer nobody can reach (leaveSession, detach, handleJoinSession).   *)
MembersAreConnected ==
  room = "open" => /\ Owner \in ToSet(members)
                   /\ \A p \in ToSet(members) : conn[p] = "member"
                   /\ IsInjective(members)

=============================================================================
