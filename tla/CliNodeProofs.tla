---------------------------- MODULE CliNodeProofs ----------------------------
(***************************************************************************)
(* What a CLI process keeps for any number of peers, connections, frames and *)
(* handshakes.  Two arguments meet in one invariant.  The map: connections  *)
(* enter it in order, so the newest of a name is the last that entered, and *)
(* every path that destroys a mapped connection takes it out.  The cleanup: *)
(* where the main function was when cleanup looked tells what was open, and *)
(* past its first two awaits nothing opens behind the back of the cleanup.  *)
(***************************************************************************)
EXTENDS CliNode, TLAPS

(* The connections that entered the map are the first ones.                 *)
Fresh == \A i \in Conn : conns[i].socket = "new" <=> i > entered

(* What is open at each stage of the cleanup, and what it found when it      *)
(* looked for the source.                                                    *)
Staged ==
  /\ phase = "starting" => server = "off"
  /\ stage = "no" =>
       /\ looked = "no"
       /\ phase \notin {"finishing", "failing", "left"}
       /\ phase # "starting" => server = "listening"
  /\ stage = "engine" => looked = "no" /\ phase # "starting" /\ server = "listening"
  /\ stage = "source" => looked = "past" /\ server = "listening"
  /\ stage = "server" => looked \in {"opening", "past"} /\ server = "closing"
  /\ looked \in {"opening", "past"} => phase # "starting"
  /\ looked = "past" => phase # "opening"

(* The file is open only where cleanup can find it.                          *)
Owned ==
  /\ source => phase \notin {"starting", "opening"}
  /\ file = "open" => source
  /\ stage \in {"server", "over"} /\ looked = "past" => file # "open"

Inv == MapIsSound /\ Fresh /\ Staged /\ Owned /\ OverIsReleased

(* What MapHoldsOpen says of a mapped connection.                            *)
Reachable(c) == c.socket = "open" \/ (c.kind = "websocket" /\ c.socket = "closing")

(* The part of the invariant that speaks of the transport alone; past stage  *)
(* "no" to "source" the last conjunct is void.                              *)
Transport ==
  /\ server \in {"off", "listening", "closing", "closed"}
  /\ handshakes \in 0..MaxHandshakes
  /\ conns \in [Conn -> [kind : {"socket", "websocket"}, name : Peer,
                         socket : {"new", "open", "closing", "closed"}, sends : 0..MaxSends]]
  /\ entered \in 0..MaxConns
  /\ connections \in [Peer -> 0..MaxConns]
  /\ MapHoldsOpen
  /\ Fresh

Sockets == Transport /\ NewestIsReachable

Process ==
  /\ phase \in Phases /\ target \in Peer
  /\ looked \in {"no", "starting", "opening", "past"}
  /\ stage \in {"no", "engine", "source", "server", "over"}
  /\ failed \in BOOLEAN /\ closing \in BOOLEAN /\ source \in BOOLEAN
  /\ file \in {"none", "open", "closed"}
  /\ exit \in {"no", "signal", "error", "main"}

Cleaned == Staged /\ Owned /\ OverIsReleased

LEMMA Parts == Inv <=> Process /\ Sockets /\ Cleaned
  BY DEF Inv, Process, Sockets, Transport, Cleaned, MapIsSound, TypeOK

LEMMA PartsNext == Process' /\ Sockets' /\ Cleaned' => Inv'
  BY DEF Inv, Process, Sockets, Transport, Cleaned, MapIsSound, TypeOK

-----------------------------------------------------------------------------
(* The transport's steps.                                                   *)

LEMMA EntersSockets ==
  ASSUME Sockets, NEW kind \in {"socket", "websocket"}, NEW p \in Peer, Enters(kind, p),
         UNCHANGED <<server, stage>>, handshakes' \in 0..MaxHandshakes
  PROVE  Sockets'
<1> USE CliAssumption DEF Sockets, Transport, Enters, Conn
<1>1. entered + 1 \in Conn
  OBVIOUS
<1>2. conns' \in [Conn -> [kind : {"socket", "websocket"}, name : Peer,
                           socket : {"new", "open", "closing", "closed"}, sends : 0..MaxSends]]
  BY <1>1
<1>3. entered' \in 0..MaxConns /\ connections' \in [Peer -> 0..MaxConns]
  BY <1>1
<1>4. MapHoldsOpen'
  BY <1>1 DEF MapHoldsOpen, Fresh
<1>5. Fresh'
  BY <1>1 DEF Fresh
<1>6. NewestIsReachable'
  BY <1>1 DEF NewestIsReachable, IsConnectionOpen, Fresh
<1> QED BY <1>2, <1>3, <1>4, <1>5, <1>6

LEMMA SendsSockets ==
  ASSUME Sockets, NEW i \in Conn, NEW n \in 0..MaxSends,
         conns' = [conns EXCEPT ![i].sends = n],
         UNCHANGED <<server, stage, handshakes, entered, connections>>
  PROVE  Sockets'
<1> USE DEF Sockets, Transport
<1>1. MapHoldsOpen'
  BY CliAssumption DEF MapHoldsOpen, Conn
<1>2. Fresh' /\ NewestIsReachable'
  BY DEF Fresh, NewestIsReachable, IsConnectionOpen
<1> QED BY <1>1, <1>2

(* Closing a peer by its name: whatever connection the map has for it.      *)
LEMMA ClosePeerSockets ==
  ASSUME Sockets, NEW p \in Peer, ClosePeer(conns, connections, p),
         UNCHANGED <<server, stage, handshakes, entered>>
  PROVE  Sockets'
<1> USE CliAssumption DEF Sockets, Transport, ClosePeer, Closed
<1>1. conns' \in [Conn -> [kind : {"socket", "websocket"}, name : Peer,
                           socket : {"new", "open", "closing", "closed"}, sends : 0..MaxSends]]
  OBVIOUS
<1>2. connections' \in [Peer -> 0..MaxConns]
  OBVIOUS
<1>3. MapHoldsOpen'
  BY DEF MapHoldsOpen, Conn
<1>4. Fresh'
  BY DEF Fresh
<1>5. NewestIsReachable'
  BY DEF NewestIsReachable, IsConnectionOpen
<1> QED BY <1>1, <1>2, <1>3, <1>4, <1>5

(* A socket that ends takes itself out of the map, and with it, if its sends *)
(* fail, whatever connection its name has by then.                          *)
LEMMA SocketGoneSockets ==
  ASSUME Sockets, NEW i \in Conn, NEW now \in {"closing", "closed"},
         conns[i].socket \in {"open", "closing"}, SocketGone(i, now),
         UNCHANGED <<server, stage, handshakes, entered>>
  PROVE  Sockets'
<1> DEFINE cs == [conns EXCEPT ![i].socket = now, ![i].sends = FailedSends(i)]
<1> USE CliAssumption DEF Sockets, Transport
<1>1. cs \in [Conn -> [kind : {"socket", "websocket"}, name : Peer,
                       socket : {"new", "open", "closing", "closed"}, sends : 0..MaxSends]]
  <2>1. cs = [j \in Conn |-> IF j = i THEN [conns[i] EXCEPT !.socket = now, !.sends = 0] ELSE conns[j]]
    BY DEF FailedSends
  <2>2. [conns[i] EXCEPT !.socket = now, !.sends = 0] \in
          [kind : {"socket", "websocket"}, name : Peer,
           socket : {"new", "open", "closing", "closed"}, sends : 0..MaxSends]
    <3>1. conns[i] \in [kind : {"socket", "websocket"}, name : Peer,
                        socket : {"new", "open", "closing", "closed"}, sends : 0..MaxSends]
      OBVIOUS
    <3>2. 0 \in 0..MaxSends
      OBVIOUS
    <3> QED BY <3>1, <3>2
  <2> QED BY <2>1, <2>2
<1>2. Without(i) \in [Peer -> 0..MaxConns]
  BY DEF Without
<1>3. \A p \in Peer : Without(i)[p] # 0 =>
        /\ Without(i)[p] = connections[p]
        /\ Without(i)[p] # i
        /\ Without(i)[p] \in Conn
        /\ cs[Without(i)[p]].name = p
        /\ Reachable(cs[Without(i)[p]])
  BY DEF Reachable, Without, MapHoldsOpen, Conn
<1>4. \A j \in Conn : cs[j].name = conns[j].name /\ (cs[j].socket = "new" <=> conns[j].socket = "new")
  BY <1>1
<1>5. \A j \in Conn : cs[j].socket = "open" => conns[j].socket = "open" /\ j # i
  BY <1>1
<1> HIDE DEF cs
<1>6. CASE conns[i].sends = 0
  <2>1. conns' = cs /\ connections' = Without(i)
    BY <1>6 DEF SocketGone, cs
  <2>2. MapHoldsOpen'
    BY <2>1, <1>3 DEF MapHoldsOpen, Reachable
  <2>3. Fresh'
    BY <2>1, <1>4 DEF Fresh
  <2>4. NewestIsReachable'
    BY <2>1, <1>4, <1>5 DEF NewestIsReachable, IsConnectionOpen, Without
  <2> QED BY <2>1, <2>2, <2>3, <2>4, <1>1, <1>2
<1>7. CASE conns[i].sends # 0
  <2>1. ClosePeer(cs, Without(i), conns[i].name)
    BY <1>7 DEF SocketGone, cs
  <2>2. conns' = Closed(cs, {Without(i)[conns[i].name]})
        /\ connections' = [Without(i) EXCEPT ![conns[i].name] = 0]
    BY <2>1 DEF ClosePeer
  <2>3. \A j \in Conn : conns'[j].name = cs[j].name /\ (conns'[j].socket = "new" <=> cs[j].socket = "new")
    BY <2>2, <1>1 DEF Closed
  <2>4. \A j \in Conn : conns'[j].socket = "open" <=>
                          cs[j].socket = "open" /\ j # Without(i)[conns[i].name]
    BY <2>2, <1>1 DEF Closed
  <2>5. conns' \in [Conn -> [kind : {"socket", "websocket"}, name : Peer,
                           socket : {"new", "open", "closing", "closed"}, sends : 0..MaxSends]]
    BY <2>2, <1>1 DEF Closed
  <2>6. connections' \in [Peer -> 0..MaxConns]
    BY <2>2, <1>2
  <2>7. MapHoldsOpen'
    <3> SUFFICES ASSUME NEW p \in Peer, connections'[p] # 0
                 PROVE  Reachable(conns'[connections'[p]]) /\ conns'[connections'[p]].name = p
      BY DEF MapHoldsOpen, Reachable
    <3>1. p # conns[i].name /\ connections'[p] = Without(i)[p]
      BY <2>2, <1>2
    <3>2. Without(i)[p] # Without(i)[conns[i].name]
      BY <3>1, <1>3
    <3>3. conns'[Without(i)[p]] = cs[Without(i)[p]]
      BY <3>1, <3>2, <1>3, <1>1, <2>2 DEF Closed
    <3> QED BY <3>1, <3>3, <1>3
  <2>8. Fresh'
    BY <2>3, <1>4 DEF Fresh
  <2>9. NewestIsReachable'
    <3> SUFFICES ASSUME NEW j \in Conn, conns'[j].socket = "open", stage' \notin {"server", "over"},
                        \A k \in Conn : conns'[k].socket # "new" /\ conns'[k].name = conns'[j].name => k <= j
                 PROVE  connections'[conns'[j].name] = j
      BY DEF NewestIsReachable, IsConnectionOpen
    <3>1. conns[j].socket = "open" /\ j # i /\ j # Without(i)[conns[i].name] /\ conns'[j].name = conns[j].name
      BY <2>3, <2>4, <1>4, <1>5
    <3>2. connections[conns[j].name] = j
      BY <3>1, <2>3, <1>4 DEF NewestIsReachable, IsConnectionOpen
    <3>3. Without(i)[conns[j].name] = j
      BY <3>1, <3>2 DEF Without
    <3> QED BY <3>1, <3>3, <2>2, <1>2
  <2> QED BY <2>5, <2>6, <2>7, <2>8, <2>9
<1> QED BY <1>6, <1>7

(* A WebSocket that its remote side closes stays in the map.                *)
LEMMA WebSocketClosesSockets ==
  ASSUME Sockets, NEW i \in Conn, conns[i].socket = "open", conns[i].kind = "websocket",
         conns' = [conns EXCEPT ![i].socket = "closing"],
         UNCHANGED <<server, stage, handshakes, entered, connections>>
  PROVE  Sockets'
<1> USE DEF Sockets, Transport
<1>1. MapHoldsOpen'
  BY CliAssumption DEF MapHoldsOpen, Conn
<1>2. Fresh' /\ NewestIsReachable'
  BY DEF Fresh, NewestIsReachable, IsConnectionOpen
<1> QED BY <1>1, <1>2

(* Closing the transport empties the map.                                   *)
LEMMA CloseTransportSockets ==
  ASSUME Sockets, CloseTransport
  PROVE  Sockets'
<1> USE CliAssumption DEF Sockets, Transport, CloseTransport, Closed
<1>1. MapHoldsOpen'
  BY DEF MapHoldsOpen
<1>2. Fresh'
  BY DEF Fresh
<1>3. NewestIsReachable'
  BY DEF NewestIsReachable
<1> QED BY <1>1, <1>2, <1>3

(* A step of the process that leaves the transport alone and, once it is     *)
(* closed, does not open it again.                                          *)
LEMMA IdleSockets ==
  ASSUME Sockets, UNCHANGED <<handshakes, conns, entered, connections>>,
         server' \in {"off", "listening", "closing", "closed"},
         stage' \notin {"server", "over"} => stage \notin {"server", "over"}
  PROVE  Sockets'
  BY DEF Sockets, Transport, MapHoldsOpen, Fresh, NewestIsReachable, IsConnectionOpen

LEMMA CleanupSockets ==
  ASSUME Sockets, Cleanup
  PROVE  Sockets'
<1>1. CASE stage # "no" \/ HasEngine
  BY <1>1, IdleSockets DEF Cleanup, transport, Sockets, Transport
<1>2. CASE stage = "no" /\ ~HasEngine
  <2>1. AfterEngine
    BY <1>2 DEF Cleanup
  <2>2. CASE source
    BY <1>2, <2>1, <2>2, IdleSockets DEF AfterEngine, transport, Sockets, Transport
  <2>3. CASE ~source
    BY <2>1, <2>3, CloseTransportSockets DEF AfterEngine
  <2> QED BY <2>2, <2>3
<1> QED BY <1>1, <1>2

-----------------------------------------------------------------------------
(* The steps of the process.                                                *)

LEMMA NetworkInv ==
  ASSUME Inv,
         \/ TcpConnects \/ HandshakeFails
         \/ \E p \in Peer : AcceptSocketConnection(p) \/ SendRaw(p)
         \/ \E i \in Conn : \/ Drain(i) \/ SocketErrors(i) \/ SocketCloses(i)
                           \/ WebSocketCloses(i) \/ BadFrame(i)
  PROVE  Inv'
<1>1. UNCHANGED process /\ UNCHANGED server
  BY DEF TcpConnects, HandshakeFails, AcceptSocketConnection, SendRaw, Drain, SocketErrors,
         SocketCloses, WebSocketCloses, BadFrame, process
<1>2. Process' /\ Cleaned'
  BY <1>1, Parts DEF Process, Cleaned, Staged, Owned, OverIsReleased, process
<1>3. Sockets
  BY Parts
<1>4. stage' = stage
  BY <1>1 DEF process
<1>5. ASSUME TcpConnects \/ HandshakeFails PROVE Sockets'
  BY <1>3, <1>4, <1>5, CliAssumption
     DEF TcpConnects, HandshakeFails, Sockets, Transport, MapHoldsOpen, Fresh, NewestIsReachable,
         IsConnectionOpen
<1>6. ASSUME NEW p \in Peer, AcceptSocketConnection(p) PROVE Sockets'
  <2>1. handshakes' \in 0..MaxHandshakes
    BY <1>3, <1>6, CliAssumption DEF AcceptSocketConnection, Sockets, Transport
  <2> QED BY <2>1, <1>1, <1>3, <1>4, <1>6, EntersSockets DEF AcceptSocketConnection
<1>7. ASSUME NEW p \in Peer, SendRaw(p) PROVE Sockets'
  <2>1. connections[p] \in Conn /\ connections' = connections
    BY <1>3, <1>7, CliAssumption DEF SendRaw, Sockets, Transport, Conn
  <2>2. CASE UNCHANGED conns
    BY <2>2, <1>1, <1>3, <1>4, <1>7, IdleSockets DEF SendRaw, Sockets, Transport
  <2>3. CASE conns' = [conns EXCEPT ![connections[p]].sends = @ + 1]
    <3>1. conns[connections[p]].sends + 1 \in 0..MaxSends
      BY <2>1, <1>3, <1>7, CliAssumption DEF SendRaw, HasSpace, Sockets, Transport
    <3>2. conns' = [conns EXCEPT ![connections[p]].sends = conns[connections[p]].sends + 1]
      BY <2>3, <2>1, <1>3 DEF Sockets, Transport
    <3> QED BY <3>1, <3>2, <2>1, <1>1, <1>3, <1>4, <1>7, SendsSockets DEF SendRaw
  <2> QED BY <2>2, <2>3, <1>7 DEF SendRaw
<1>8. ASSUME NEW i \in Conn, Drain(i) PROVE Sockets'
  <2>1. PICK rest \in 0..conns[i].sends - 1 : conns' = [conns EXCEPT ![i].sends = rest]
    BY <1>8 DEF Drain
  <2>2. rest \in 0..MaxSends
    BY <2>1, <1>3, CliAssumption DEF Sockets, Transport
  <2> QED BY <2>1, <2>2, <1>1, <1>3, <1>4, <1>8, SendsSockets DEF Drain
<1>9. ASSUME NEW i \in Conn, SocketErrors(i) \/ SocketCloses(i) PROVE Sockets'
  BY <1>1, <1>3, <1>4, <1>9, SocketGoneSockets DEF SocketErrors, SocketCloses, IsConnectionOpen
<1>10. ASSUME NEW i \in Conn, BadFrame(i) PROVE Sockets'
  <2>1. conns[i].name \in Peer
    BY <1>3 DEF Sockets, Transport
  <2> QED BY <2>1, <1>1, <1>3, <1>4, <1>10, ClosePeerSockets DEF BadFrame
<1>11. ASSUME NEW i \in Conn, WebSocketCloses(i) PROVE Sockets'
  BY <1>1, <1>3, <1>4, <1>11, WebSocketClosesSockets DEF WebSocketCloses, IsConnectionOpen
<1> QED BY <1>2, <1>5, <1>6, <1>7, <1>8, <1>9, <1>10, <1>11, PartsNext

(* A cleanup that begins finds, by where runSend or runJoin is, what is     *)
(* open.                                                                    *)
LEMMA CleanupCleaned ==
  ASSUME Process, Cleaned, Cleanup, file' = file, source' = source,
         phase' \in {phase, "finishing", "failing"}, exit' \in {"no"} \cup {exit},
         UNCHANGED <<target, failed>>, closing' \in BOOLEAN
  PROVE  Process' /\ Cleaned'
<1> USE DEF Process, Cleaned, Staged, Owned, OverIsReleased, Cleanup
<1>1. CASE stage # "no"
  <2>1. UNCHANGED <<stage, looked, server>>
    BY <1>1 DEF transport
  <2>2. Process'
    BY <2>1 DEF Phases
  <2>3. Staged'
    BY <1>1, <2>1
  <2>4. Owned' /\ OverIsReleased'
    BY <2>1
  <2> QED BY <2>2, <2>3, <2>4
<1>2. CASE stage = "no" /\ HasEngine
  BY <1>2 DEF transport, HasEngine, Phases
<1>3. CASE stage = "no" /\ ~HasEngine
  BY <1>3 DEF AfterEngine, Awaited, CloseTransport, HasEngine, Phases
<1> QED BY <1>1, <1>2, <1>3

LEMMA CleanupInv ==
  ASSUME Inv, Shutdown \/ Complete \/ Fail
  PROVE  Inv'
<1>1. Process' /\ Cleaned'
  BY Parts, CleanupCleaned DEF Shutdown, Complete, Fail, Process
<1>2. Sockets'
  BY Parts, CleanupSockets DEF Shutdown, Complete, Fail
<1> QED BY <1>1, <1>2, PartsNext

(* The steps of a cleanup under way.                                        *)
LEMMA EngineDisposedInv == Inv /\ EngineDisposed => Inv'
<1> SUFFICES ASSUME Inv, EngineDisposed PROVE Inv'
  OBVIOUS
<1> USE DEF EngineDisposed
<1>1. Process /\ Sockets /\ Cleaned
  BY Parts
<1>2. CASE source
  <2>1. stage' = "source" /\ UNCHANGED transport /\ looked' = "past"
    BY <1>1, <1>2 DEF AfterEngine, Awaited, Cleaned, Owned
  <2>2. Process'
    BY <1>1, <2>1 DEF Process
  <2>3. Staged'
    BY <1>1, <1>2, <2>1 DEF Cleaned, Staged, Owned, transport
  <2>4. Owned' /\ OverIsReleased'
    BY <1>1, <2>1 DEF Cleaned, Owned, OverIsReleased
  <2>5. Sockets'
    BY <1>1, <2>1, IdleSockets DEF transport, Sockets, Transport
  <2> QED BY <2>2, <2>3, <2>4, <2>5, PartsNext DEF Cleaned
<1>3. CASE ~source
  <2>1. CloseTransport /\ looked' = Awaited
    BY <1>3 DEF AfterEngine
  <2>2. Process' /\ Cleaned'
    BY <1>1, <1>3, <2>1
       DEF CloseTransport, Awaited, Process, Cleaned, Staged, Owned, OverIsReleased
  <2> QED BY <1>1, <2>1, <2>2, CloseTransportSockets, PartsNext
<1> QED BY <1>2, <1>3

LEMMA SourceClosesInv == Inv /\ SourceCloses => Inv'
<1> SUFFICES ASSUME Inv, SourceCloses PROVE Inv'
  OBVIOUS
<1>1. Process /\ Sockets /\ Cleaned /\ CloseTransport
  BY Parts DEF SourceCloses
<1>2. Process' /\ Cleaned'
  BY <1>1 DEF SourceCloses, CloseTransport, Process, Cleaned, Staged, Owned, OverIsReleased
<1> QED BY <1>1, <1>2, CloseTransportSockets, PartsNext

LEMMA ServerClosesInv == Inv /\ ServerCloses => Inv'
<1> SUFFICES ASSUME Inv, ServerCloses PROVE Inv'
  OBVIOUS
<1>1. Process /\ Sockets /\ Cleaned
  BY Parts
<1>2. Process' /\ Cleaned'
  BY <1>1 DEF ServerCloses, Process, Cleaned, Staged, Owned, OverIsReleased
<1>3. Sockets'
  BY <1>1, IdleSockets DEF ServerCloses
<1> QED BY <1>2, <1>3, PartsNext

(* Connect moves runJoin on and keeps the rest of the process.              *)
LEMMA ConnectPhase ==
  ASSUME NEW some \in SUBSET Peer, Connect(some), target \in Peer
  PROVE  phase' \in {"connecting", "downloading"} /\ target' \in Peer
  BY CliAssumption DEF Connect

(* The steps of runSend and runJoin that do not clean up.                   *)
LEMMA MainInv ==
  ASSUME Inv, Finish \/ Listen \/ OpenSource \/ CreateSession \/ Join \/ Seed \/ Leave
  PROVE  Inv'
<1>1. Process /\ Sockets /\ Cleaned
  BY Parts
<1>2. Process' /\ Cleaned'
  <2> USE <1>1 DEF Step, Going, transport, Process, Cleaned, Staged, Owned, OverIsReleased, Phases
  <2>1. CASE Finish
    BY <2>1 DEF Finish
  <2>2. CASE Listen
    BY <2>2 DEF Listen
  <2>3. CASE OpenSource
    BY <2>3 DEF OpenSource, AssignsSource
  <2>4. CASE CreateSession
    BY <2>4 DEF CreateSession, AssignsSource
  <2>5. CASE Join
    <3>1. PICK p \in Peer : Connect({p, Owner})
      BY <2>5 DEF Join
    <3>2. phase' \in {"connecting", "downloading"} /\ target' \in Peer
      BY <3>1, ConnectPhase, CliAssumption
    <3> QED BY <2>5, <3>2 DEF Join
  <2>6. CASE Seed
    BY <2>6 DEF Seed
  <2>7. CASE Leave
    BY <2>7 DEF Leave
  <2> QED BY <2>1, <2>2, <2>3, <2>4, <2>5, <2>6, <2>7
<1>3. UNCHANGED <<handshakes, conns, entered, connections, stage>> /\ server' \in {server, "listening"}
  BY DEF Finish, Listen, OpenSource, CreateSession, Join, Seed, Leave, Step, Going, transport
<1>4. Sockets'
  BY <1>1, <1>3, IdleSockets DEF Sockets, Transport
<1> QED BY <1>2, <1>4, PartsNext

LEMMA DialReturnsInv == Inv /\ DialReturns => Inv'
<1> SUFFICES ASSUME Inv, DialReturns PROVE Inv'
  OBVIOUS
<1>1. Process /\ Sockets /\ Cleaned
  BY Parts
<1>2. phase' \in {"connecting", "downloading"} /\ target' \in Peer
  BY <1>1, ConnectPhase, CliAssumption DEF DialReturns, Process
<1>3. Process' /\ Cleaned'
  BY <1>1, <1>2 DEF DialReturns, Going, Process, Cleaned, Staged, Owned, OverIsReleased, Phases
<1>4. Sockets'
  <2>1. Enters("websocket", target) /\ target \in Peer
    BY <1>1 DEF DialReturns, Process
  <2> QED BY <1>1, <2>1, EntersSockets DEF DialReturns, Going, Sockets, Transport
<1> QED BY <1>3, <1>4, PartsNext

-----------------------------------------------------------------------------

LEMMA InitInv == Init => Inv
<1> SUFFICES ASSUME Init PROVE Inv
  OBVIOUS
<1> USE DEF Init
<1>1. Process /\ Cleaned
  BY CliAssumption DEF Process, Phases, Cleaned, Staged, Owned, OverIsReleased
<1>2. Sockets
  BY CliAssumption DEF Sockets, Transport, MapHoldsOpen, Fresh, NewestIsReachable,
                       IsConnectionOpen, Conn
<1> QED BY <1>1, <1>2, Parts

LEMMA NextInv == Inv /\ [Next]_vars => Inv'
<1> SUFFICES ASSUME Inv, [Next]_vars PROVE Inv'
  OBVIOUS
<1>1. CASE UNCHANGED vars
  <2>1. Process /\ Sockets /\ Cleaned
    BY Parts
  <2>2. Process' /\ Sockets' /\ Cleaned'
    BY <1>1, <2>1 DEF vars, process, transport, Process, Sockets, Transport, MapHoldsOpen, Fresh,
       NewestIsReachable, IsConnectionOpen, Cleaned, Staged, Owned, OverIsReleased
  <2> QED BY <2>2, PartsNext
<1>2. CASE \/ TcpConnects \/ HandshakeFails
           \/ \E p \in Peer : AcceptSocketConnection(p) \/ SendRaw(p)
           \/ \E i \in Conn : \/ Drain(i) \/ SocketErrors(i) \/ SocketCloses(i)
                             \/ WebSocketCloses(i) \/ BadFrame(i)
  BY <1>2, NetworkInv
<1>3. CASE Shutdown \/ Complete \/ Fail
  BY <1>3, CleanupInv
<1>4. CASE EngineDisposed \/ SourceCloses \/ ServerCloses
  BY <1>4, EngineDisposedInv, SourceClosesInv, ServerClosesInv
<1>5. CASE Finish \/ Listen \/ OpenSource \/ CreateSession \/ Join \/ Seed \/ Leave
  BY <1>5, MainInv
<1>6. CASE DialReturns
  BY <1>6, DialReturnsInv
<1> QED BY <1>1, <1>2, <1>3, <1>4, <1>5, <1>6 DEF Next

LEMMA NodeInvariant == Spec => []Inv
  BY InitInv, NextInv, PTL DEF Spec

(* Every entry of the transport's map can be sent to (or is a WebSocket      *)
(* between its remote close and its close event), and no open newest         *)
(* connection of a peer is missing from it, whatever closes, errors, bad     *)
(* frames and failing writes come from connections of the same name, and     *)
(* whichever of them entered the map while connect() awaited its dial.       *)
THEOREM MapSound == Spec => []MapIsSound
<1>1. Inv => MapIsSound
  BY DEF Inv
<1> QED BY <1>1, NodeInvariant, PTL

(* When cleanup is over the server and the file that were there when it      *)
(* looked for them are closed: also the file of a runSend whose              *)
(* createSession has failed or is still awaited, whichever cleanup steps     *)
(* failed and whatever runSend or runJoin did meanwhile.                     *)
THEOREM CleanupReleases == Spec => []OverIsReleased
<1>1. Inv => OverIsReleased
  BY DEF Inv
<1> QED BY <1>1, NodeInvariant, PTL
=============================================================================
