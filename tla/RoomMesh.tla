------------------------------ MODULE RoomMesh ------------------------------
(***************************************************************************)
(* The owner and the receivers of a browser transfer building their mesh   *)
(* of WebRTC connections through SignalingRoom (handleOwnerSignal,          *)
(* handleReceiverSignal and ensureMeshPeerConnection of the demo).  Of two  *)
(* receivers the one with the lower peer id offers; every receiver offers   *)
(* to the owner.  The handlers are asynchronous and not awaited, so a       *)
(* message is handled while an earlier one is still waiting: for the        *)
(* engine to join, for an offer, for an answer.                             *)
(*                                                                         *)
(* A connection between two peers has a side at each: link[p][q].  ICE      *)
(* candidates, the data channel and the transfer itself are left out; an    *)
(* answered offer counts as connected.  A peer whose signaling socket is    *)
(* lost comes back, if at all, on a socket that never joins again, so it is *)
(* gone for the room either way.                                           *)
(***************************************************************************)
EXTENDS SignalingRoom

CONSTANTS MaxTrouble,  \* peers that leave, lose their socket, are evicted or whose engine
                       \* fails to join, and the end of the session's ttl
          Fragile      \* the peers that may meet such trouble

ASSUME MeshAssumption == MaxTrouble \in Nat /\ Fragile \subseteq Peer

VARIABLES client,     \* per peer: "out", "open" (socket open, runtime current), "gone"
          roster,     \* runtime.roomPeerIds
          known,      \* runtime.manifest is set
          link,       \* per pair: "none", "offering", "offered", "answering", "connected"
          task,       \* per receiver, the handler of SESSION_JOINED: waiting for the engine,
                      \* for the offer to the first peer of todo, or over
          alarm,      \* an ERROR put the page into its error state
          trouble

peerVars == <<client, roster, known, link, task, alarm>>
vars == <<roomVars, peerVars, trouble>>

Over == [stage |-> "over", todo |-> <<>>]

Init ==
  /\ RoomInit
  /\ client = [p \in Peer |-> "out"]
  /\ roster = [p \in Peer |-> {p}]
  /\ known = [p \in Peer |-> FALSE]
  /\ link = [p \in Peer |-> [q \in Peer |-> "none"]]
  /\ task = [p \in Receivers |-> Over]
  /\ alarm = [p \in Peer |-> FALSE]
  /\ trouble = 0

-----------------------------------------------------------------------------
(* A client's own steps.                                                    *)

Trouble == trouble < MaxTrouble /\ trouble' = trouble + 1
TroubleFor(p) == p \in Fragile /\ Trouble

(* client.send: nothing travels over a socket the server has closed.        *)
Sending(p, m) == outbox' = IF Connected(p) THEN Sent(outbox, p, m) ELSE outbox

(* The page connects and creates or joins the session.  A receiver has the  *)
(* link only once the session exists.                                      *)
Enter(p) ==
  /\ client[p] = "out"
  /\ p # Owner => room # "none"
  /\ client' = [client EXCEPT ![p] = "open"]
  /\ conn' = [conn EXCEPT ![p] = "attached"]
  /\ outbox' = Sent(outbox, p, [type |-> IF p = Owner THEN "CREATE_SESSION" ELSE "JOIN_SESSION"])
  /\ UNCHANGED <<room, members, inbox, roster, known, link, task, alarm, trouble>>

(* Deterministic mesh: the lower of two receivers offers.                   *)
OffersAlways(p, q) == p # q
Offers(p, q) == p < q

(* The peers of todo in turn, the owner first: those that offer themselves   *)
(* are passed over, and those that have a connection already need no wait    *)
(* (ensureMeshPeerConnection).                                              *)
Due(p, q) == link[p][q] = "none" /\ (q = Owner \/ Offers(p, q))
FromDue(p, todo) ==
  LET i == SelectInSeq(todo, LAMBDA q : Due(p, q))
  IN  IF i = 0 THEN <<>> ELSE SubSeq(todo, i, Len(todo))
Offering(p, todo) == [stage |-> IF todo = <<>> THEN "over" ELSE "offer", todo |-> todo]

(* engine.joinSession of the SESSION_JOINED handler returned or threw.      *)
EngineJoins(p) ==
  /\ client[p] = "open"
  /\ task[p].stage = "engine"
  /\ LET due == FromDue(p, task[p].todo)
     IN  /\ task' = [task EXCEPT ![p] = Offering(p, due)]
         /\ link' = IF due = <<>> THEN link ELSE [link EXCEPT ![p][Head(due)] = "offering"]
  /\ UNCHANGED <<roomVars, client, roster, known, alarm, trouble>>

EngineFails(p) ==
  /\ client[p] = "open"
  /\ task[p].stage = "engine"
  /\ TroubleFor(p)
  /\ task' = [task EXCEPT ![p] = Over]
  /\ UNCHANGED <<roomVars, client, roster, known, link, alarm>>

(* The offer to q is made and sent.  When the SESSION_JOINED handler waits   *)
(* for it, it goes on to the next peer.                                     *)
OfferReady(p, q) ==
  LET mine == p \in Receivers /\ task[p].stage = "offer" /\ Head(task[p].todo) = q
      rest == IF mine THEN FromDue(p, Tail(task[p].todo)) ELSE <<>>
  IN  /\ client[p] = "open"
      /\ link[p][q] = "offering"
      /\ Sending(p, [type |-> "OFFER", to |-> q])
      /\ link' = [link EXCEPT ![p] =
                    [o \in Peer |-> IF o = q THEN "offered"
                                    ELSE IF rest # <<>> /\ o = Head(rest) THEN "offering"
                                    ELSE @[o]]]
      /\ task' = IF mine THEN [task EXCEPT ![p] = Offering(p, rest)] ELSE task
      /\ UNCHANGED <<room, members, conn, inbox, client, roster, known, alarm, trouble>>

(* The answer to q's offer is made and sent.                                *)
AnswerReady(p, q) ==
  /\ client[p] = "open"
  /\ link[p][q] = "answering"
  /\ Sending(p, [type |-> "ANSWER", to |-> q])
  /\ link' = [link EXCEPT ![p][q] = "connected"]
  /\ UNCHANGED <<room, members, conn, inbox, client, roster, known, task, alarm, trouble>>

-----------------------------------------------------------------------------
(* The next message of p's socket is handled, up to its first await.        *)

Take1(p, type) ==
  /\ client[p] = "open"
  /\ inbox[p] # <<>>
  /\ Head(inbox[p]).type = type
  /\ inbox' = [inbox EXCEPT ![p] = Tail(@)]
  /\ UNCHANGED <<room, members, conn, outbox, client, trouble>>

(* The room's first peer is its owner.                                      *)
SessionJoined(p) ==
  /\ Take1(p, "SESSION_JOINED")
  /\ LET list == Head(inbox[p]).peers
     IN  /\ roster' = [roster EXCEPT ![p] = @ \cup {Owner} \cup ToSet(list)]
         /\ task' = [task EXCEPT ![p] = [stage |-> "engine", todo |-> <<Owner>> \o Tail(list)]]
  /\ known' = [known EXCEPT ![p] = TRUE]
  /\ UNCHANGED <<link, alarm>>

PeerJoined(p) ==
  /\ Take1(p, "PEER_JOINED")
  /\ LET q == Head(inbox[p]).from
     IN  /\ roster' = [roster EXCEPT ![p] = @ \cup {q}]
         /\ link' = IF p # Owner /\ Offers(p, q) /\ known[p] /\ link[p][q] = "none"
                    THEN [link EXCEPT ![p][q] = "offering"] ELSE link
  /\ UNCHANGED <<known, task, alarm>>

(* The connection is closed and forgotten.  A SESSION_JOINED handler that    *)
(* was waiting for its offer never gets it, nor to the peers after it.       *)
PeerLeft(p) ==
  /\ Take1(p, "PEER_LEFT")
  /\ LET q == Head(inbox[p]).from
     IN  /\ roster' = [roster EXCEPT ![p] = @ \ {q}]
         /\ link' = [link EXCEPT ![p][q] = "none"]
         /\ task' = IF p \in Receivers /\ task[p].stage = "offer" /\ Head(task[p].todo) = q
                    THEN [task EXCEPT ![p] = Over] ELSE task
  /\ UNCHANGED <<known, alarm>>

OfferArrives(p) ==
  /\ Take1(p, "OFFER")
  /\ LET q == Head(inbox[p]).from
     IN  /\ roster' = [roster EXCEPT ![p] = @ \cup {q}]
         /\ link' = [link EXCEPT ![p][q] = "answering"]
  /\ UNCHANGED <<known, task, alarm>>

AnswerArrives(p) ==
  /\ Take1(p, "ANSWER")
  /\ LET q == Head(inbox[p]).from
     IN  link' = [link EXCEPT ![p][q] = IF @ = "none" THEN "none" ELSE "connected"]
  /\ UNCHANGED <<roster, known, task, alarm>>

ErrorArrives(p) ==
  /\ Take1(p, "ERROR")
  /\ alarm' = [alarm EXCEPT ![p] = TRUE]
  /\ UNCHANGED <<roster, known, link, task>>

Receive(p) ==
  \/ PeerJoined(p)
  \/ PeerLeft(p)
  \/ OfferArrives(p)
  \/ AnswerArrives(p)
  \/ ErrorArrives(p)
  \/ p \in Receivers /\ SessionJoined(p)

-----------------------------------------------------------------------------
(* Departures.                                                              *)

(* The runtime of p is disposed, or its socket breaks: what it had sent may   *)
(* still arrive, or be lost.                                               *)
Gone(p) ==
  /\ client' = [client EXCEPT ![p] = "gone"]
  /\ link' = [link EXCEPT ![p] = [q \in Peer |-> "none"]]
  /\ task' = IF p \in Receivers THEN [task EXCEPT ![p] = Over] ELSE task
  /\ inbox' = [inbox EXCEPT ![p] = <<>>]
  /\ UNCHANGED <<room, members, conn, roster, known, alarm>>

Leave(p) ==
  /\ client[p] = "open"
  /\ TroubleFor(p)
  /\ Gone(p)
  /\ outbox' \in {outbox, [outbox EXCEPT ![p] = <<>>]}

(* The server learns that the socket is closed.                             *)
CloseArrives(p) ==
  /\ client[p] = "gone"
  /\ outbox[p] = <<>>
  /\ Detach(p)
  /\ UNCHANGED <<peerVars, trouble>>

(* The server evicts an idle connection, whose client learns of it later.   *)
EvictIdle(p) ==
  /\ client[p] = "open"
  /\ TroubleFor(p)
  /\ Evict(p)
  /\ UNCHANGED peerVars

EvictionArrives(p) ==
  /\ client[p] = "open"
  /\ conn[p] = "closed"
  /\ inbox[p] = <<>>
  /\ Gone(p)
  /\ UNCHANGED <<outbox, trouble>>

Serve(p) == HandleText(p) /\ UNCHANGED <<peerVars, trouble>>
RoomExpires == Trouble /\ Expire /\ UNCHANGED peerVars

ClientStep(p) ==
  \/ Receive(p)
  \/ \E q \in Peer : OfferReady(p, q) \/ AnswerReady(p, q)
  \/ p \in Receivers /\ EngineJoins(p)

Next ==
  \/ RoomExpires
  \/ \E p \in Peer :
       \/ Enter(p)
       \/ ClientStep(p)
       \/ Serve(p)
       \/ Leave(p)
       \/ CloseArrives(p)
       \/ EvictIdle(p)
       \/ EvictionArrives(p)
  \/ \E p \in Receivers : EngineFails(p)

Spec == Init /\ [][Next]_vars

-----------------------------------------------------------------------------
(* Types.  The room is never over its limit once a step is done.            *)
TypeOK ==
  /\ room \in {"none", "open", "gone"}
  /\ members \in Seq(Peer) /\ Len(members) <= MaxPeers
  /\ conn \in [Peer -> {"none", "attached", "member", "closed"}]
  /\ \A p \in Peer : inbox[p] \in Seq(Message) /\ outbox[p] \in Seq(Request)
  /\ client \in [Peer -> {"out", "open", "gone"}]
  /\ roster \in [Peer -> SUBSET Peer]
  /\ known \in [Peer -> BOOLEAN]
  /\ link \in [Peer -> [Peer -> {"none", "offering", "offered", "answering", "connected"}]]
  /\ task \in [Receivers -> [stage : {"engine", "offer", "over"}, todo : Seq(Peer)]]
  /\ alarm \in [Peer -> BOOLEAN]
  /\ trouble \in 0..MaxTrouble

(* What p's roster becomes once its inbox has been handled: the peers it is   *)
(* told of, or knows already, and is not told of the departure of later.     *)
Tells(m, q) ==
  \/ m.type = "SESSION_JOINED" /\ q \in ToSet(m.peers)
  \/ m.type \in {"PEER_JOINED", "OFFER"} /\ m.from = q
StaysFrom(p, i, q) == \A j \in i..Len(inbox[p]) : inbox[p][j] # News("PEER_LEFT", q)
Told(p) ==
  {q \in Peer : \/ q \in roster[p] /\ StaysFrom(p, 1, q)
                \/ \E i \in 1..Len(inbox[p]) : Tells(inbox[p][i], q) /\ StaysFrom(p, i, q)}

(* The peers a page counts as online are, once it has handled what it was    *)
(* sent, exactly the members of the room: no join, leave, eviction or late   *)
(* offer makes the two drift apart.  The page chooses between direct and      *)
(* grid transfer by this count.                                            *)
RosterIsMembership ==
  \A p \in Peer : Member(p) /\ client[p] = "open" => Told(p) = ToSet(members)

(* The room as the server and as its pages see it: a member has its          *)
(* connection, and the pages' rosters follow the membership.                *)
RoomIsShared == TypeOK /\ MembersAreConnected /\ RosterIsMembership

(* No glare: an offer never reaches a peer that has its own connection to    *)
(* the sender, whose state it would overwrite (the mesh comment of           *)
(* handleReceiverSignal, "lower peerId offers to higher peerId").            *)
OffersAreFresh ==
  \A p \in Peer : \A i \in 1..Len(inbox[p]) :
    inbox[p][i].type = "OFFER" =>
      \/ link[p][inbox[p][i].from] = "none"
      \/ \E j \in 1..i : inbox[p][j] = News("PEER_LEFT", inbox[p][i].from)

(* In a room nobody left, and that did not refuse or outlive its peers, no    *)
(* message of the joining peers is ever refused by the server: the relays    *)
(* of the mesh cannot overtake the joins they depend on.                    *)
AlarmHasCause ==
  \A p \in Peer : alarm[p] =>
    trouble > 0 \/ (conn[p] = "attached" /\ Len(members) = MaxPeers)

Linked(p, q) == link[p][q] = "connected" /\ link[q][p] = "connected"
InRoom(p) == client[p] = "open" /\ Member(p)

(* Once every message is handled and every handler has run, any two peers    *)
(* in the room are connected: offers and answers that cross joins in every   *)
(* order leave no pair behind.  One departure can: a receiver that waits for *)
(* its offer to a peer that leaves offers to none of the peers after it.     *)
Quiet ==
  /\ \A p \in Peer : inbox[p] = <<>> /\ outbox[p] = <<>>
  /\ \A p, q \in Peer : link[p][q] \notin {"offering", "answering"}
  /\ \A p \in Receivers : task[p].stage = "over"
MeshIsComplete ==
  Quiet /\ trouble = 0 => \A p, q \in Peer : p # q /\ InRoom(p) /\ InRoom(q) => Linked(p, q)

=============================================================================
