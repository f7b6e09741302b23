------------------------------ MODULE CliNode ------------------------------
(***************************************************************************)
(* One CLI process, `send` or `join`, from its first await to its exit: the *)
(* steps of runSend and runJoin, the NodeWebSocketTransport they own, and   *)
(* the cleanup that a failure, the end of the download or a signal starts.  *)
(*                                                                         *)
(* Connections are numbered in the order they enter the transport's map.    *)
(* Promise callbacks run before any other event, so a send is written or    *)
(* queued, and a failing queue fails, within the step that causes it: a     *)
(* connection has unsettled sends only while the first waits for a drain.   *)
(***************************************************************************)
EXTENDS Integers, FiniteSets

CONSTANTS Peer,          \* the names remote processes give themselves, and the owner's
          Owner,         \* the peer that owns the session a joining process dials for
          MaxConns,      \* connections that enter the map in a run
          MaxHandshakes, \* TCP connections in their handshake at a time
          MaxSends       \* frames that fit the outbound queue of a connection

ASSUME CliAssumption ==
  Owner \in Peer /\ MaxConns \in Nat /\ MaxHandshakes \in Nat /\ MaxSends \in Nat \ {0}

Conn == 1..MaxConns

VARIABLES phase,        \* where runSend or runJoin is
          target,       \* the peer whose connection runJoin dials
          looked,       \* when cleanup read `source`: "no" before it has; while listen() or
                        \* openNodeFileSource was awaited: "starting", "opening"; or "past"
          stage,        \* the cleanup step awaited: "no", "engine", "source", "server", "over"
          failed,       \* cleanup has a first error
          file,         \* the handle of the file being shared: "none", "open", "closed"
          source,       \* runSend has assigned it to the variable that cleanup reads
          closing,      \* a signal has been taken
          exit,         \* "no", or why the process ended: "signal", "error", "main"
          server,       \* "off", "listening", "closing", "closed"
          handshakes,   \* accepted TCP sockets that have not sent their request
          conns,        \* per connection: kind, name, unsettled sends, and socket: "new",
                        \* "open", "closing" (destroyed, or a WebSocket's CLOSING), "closed"
          entered,      \* connections that entered the map so far
          connections   \* the transport's map: a peer's connection, 0 when it has none

process == <<phase, target, looked, stage, failed, file, source, closing, exit>>
transport == <<server, handshakes, conns, entered, connections>>
vars == <<process, transport>>

Phases == {"starting", "opening", "creating", "serving", "joining", "connecting", "downloading",
           "finishing", "failing", "left"}

Init ==
  /\ phase = "starting"
  /\ target = Owner
  /\ looked = "no"
  /\ stage = "no"
  /\ failed = FALSE
  /\ file = "none" /\ source = FALSE
  /\ closing = FALSE
  /\ exit = "no"
  /\ server = "off"
  /\ handshakes = 0
  /\ conns = [i \in Conn |-> [kind |-> "socket", name |-> Owner, socket |-> "new", sends |-> 0]]
  /\ entered = 0
  /\ connections = [p \in Peer |-> 0]

---------------------------------------------------------------------------
(* The transport's connections.                                              *)

IsConnectionOpen(i) == conns[i].socket = "open"

(* A connection whose handshake or dial succeeded replaces the one its name  *)
(* had in the map, which stays open.                                         *)
Enters(kind, p) ==
  LET i == entered + 1 IN
  /\ entered < MaxConns
  /\ entered' = i
  /\ conns' = [conns EXCEPT ![i] = [kind |-> kind, name |-> p, socket |-> "open", sends |-> 0]]
  /\ connections' = [connections EXCEPT ![p] = i]

(* closeConnection, for the connections in a set.                            *)
Closed(cs, some) ==
  [i \in Conn |-> IF i \in some /\ cs[i].socket = "open"
                  THEN [cs[i] EXCEPT !.socket = "closing"] ELSE cs[i]]

(* close(p): whatever connection the name has now.                           *)
ClosePeer(cs, map, p) ==
  /\ conns' = Closed(cs, {map[p]})
  /\ connections' = [map EXCEPT ![p] = 0]

(* A connection's close and error listeners take only itself out of the map. *)
WithoutByName(i) == [connections EXCEPT ![conns[i].name] = 0]
Without(i) ==
  IF connections[conns[i].name] = i THEN [connections EXCEPT ![conns[i].name] = 0]
  ELSE connections

TcpConnects ==
  /\ server = "listening"
  /\ handshakes < MaxHandshakes
  /\ handshakes' = handshakes + 1
  /\ UNCHANGED <<process, server, conns, entered, connections>>

(* A bad or oversized request, or a client that goes away.                   *)
HandshakeFails ==
  /\ handshakes > 0
  /\ handshakes' = handshakes - 1
  /\ UNCHANGED <<process, server, conns, entered, connections>>

AcceptSocketConnection(p) ==
  /\ handshakes > 0
  /\ handshakes' = handshakes - 1
  /\ Enters("socket", p)
  /\ UNCHANGED <<process, server>>

HasSpace(i) == conns[i].sends < MaxSends

(* sendRaw.  A frame behind an unsettled one waits; the first is written at  *)
(* once and either taken or told to wait for a drain.  A WebSocket takes     *)
(* every frame itself.  A full queue and a missing connection throw.         *)
SendRaw(p) ==
  LET i == connections[p] IN
  /\ i # 0 /\ IsConnectionOpen(i) /\ HasSpace(i)
  /\ conns[i].kind = "socket"
  /\ \/ conns' = [conns EXCEPT ![i].sends = @ + 1]
     \/ conns[i].sends = 0 /\ UNCHANGED conns
  /\ UNCHANGED <<process, server, handshakes, entered, connections>>

(* Drain: the first send settles, and those behind it up to one that has to  *)
(* wait again.                                                               *)
Drain(i) ==
  /\ IsConnectionOpen(i)
  /\ \E rest \in 0..conns[i].sends - 1 : conns' = [conns EXCEPT ![i].sends = rest]
  /\ UNCHANGED <<process, server, handshakes, entered, connections>>

(* The socket reports an error or its end, now, of its own, or when it was   *)
(* closing.  The waiting write rejects, the sends behind it find the         *)
(* socket dead, and each failing send closes the peer by its name.           *)
FailedSendsWithoutClose(i) == conns[i].sends
FailedSends(i) == 0

SocketGone(i, now) ==
  LET cs == [conns EXCEPT ![i].socket = now, ![i].sends = FailedSends(i)] IN
  IF conns[i].sends = 0 THEN conns' = cs /\ connections' = Without(i)
  ELSE ClosePeer(cs, Without(i), conns[i].name)

SocketErrors(i) ==
  /\ IsConnectionOpen(i) /\ conns[i].kind = "socket"
  /\ SocketGone(i, "closing")
  /\ UNCHANGED <<process, server, handshakes, entered>>

SocketCloses(i) ==
  /\ conns[i].socket \in {"open", "closing"}
  /\ SocketGone(i, "closed")
  /\ UNCHANGED <<process, server, handshakes, entered>>

(* The remote process closes a dialed WebSocket: it stays in the map until   *)
(* its close event.                                                          *)
WebSocketCloses(i) ==
  /\ IsConnectionOpen(i) /\ conns[i].kind = "websocket"
  /\ conns' = [conns EXCEPT ![i].socket = "closing"]
  /\ UNCHANGED <<process, server, handshakes, entered, connections>>

(* Text that no handler can take, on any open connection; a close frame or   *)
(* too many bytes at once, on an accepted one: the peer is closed by its     *)
(* name.                                                                     *)
BadFrame(i) ==
  /\ IsConnectionOpen(i)
  /\ ClosePeer(conns, connections, conns[i].name)
  /\ UNCHANGED <<process, server, handshakes, entered>>

---------------------------------------------------------------------------
(* Cleanup: the engine, the source and the transport, each after the other,  *)
(* whatever the one before did; a second call shares the first's promise.    *)

(* transport.close(): every mapped connection, then the server once the last *)
(* socket it accepted is gone.                                               *)
CloseTransport ==
  /\ conns' = Closed(conns, {connections[p] : p \in Peer})
  /\ connections' = [p \in Peer |-> 0]
  /\ IF server = "listening" THEN server' = "closing" /\ stage' = "server"
     ELSE UNCHANGED server /\ stage' = "over"
  /\ UNCHANGED <<handshakes, entered>>

HasEngine == phase # "starting"
Awaited == IF phase \in {"starting", "opening"} THEN phase ELSE "past"

(* The source is looked up when the engine's disposal has returned.          *)
AfterEngine ==
  /\ looked' = Awaited
  /\ IF source THEN stage' = "source" /\ UNCHANGED transport ELSE CloseTransport

Cleanup ==
  CASE stage # "no" -> UNCHANGED <<stage, looked, transport>>
    [] stage = "no" /\ HasEngine -> stage' = "engine" /\ UNCHANGED <<looked, transport>>
    [] stage = "no" /\ ~HasEngine -> AfterEngine

EngineDisposed ==
  /\ stage = "engine"
  /\ failed' \in BOOLEAN
  /\ AfterEngine
  /\ UNCHANGED <<phase, target, file, source, closing, exit>>

SourceCloses ==
  /\ stage = "source"
  /\ file' = "closed"
  /\ failed' \in {failed, TRUE}
  /\ CloseTransport
  /\ UNCHANGED <<phase, target, looked, source, closing, exit>>

(* The server's close callback waits for every socket it ever accepted, the  *)
(* ones in their handshake and the ones the map has forgotten included.      *)
ServerCloses ==
  /\ server = "closing"
  /\ handshakes = 0
  /\ \A i \in Conn : conns[i].kind = "socket" => conns[i].socket \in {"new", "closed"}
  /\ server' = "closed"
  /\ stage' = "over"
  /\ UNCHANGED <<phase, target, looked, failed, file, source, closing, exit,
                 handshakes, conns, entered, connections>>

(* The first SIGINT or SIGTERM; later ones return at once.                    *)
Shutdown ==
  /\ ~closing
  /\ closing' = TRUE
  /\ Cleanup
  /\ UNCHANGED <<phase, target, failed, file, source, exit>>

FinishesUnlessFailed == ~failed
Finishes == TRUE

Finish ==
  /\ closing /\ stage = "over" /\ Finishes
  /\ exit' = IF failed THEN "error" ELSE "signal"
  /\ UNCHANGED <<phase, target, looked, stage, failed, file, source, closing, transport>>

---------------------------------------------------------------------------
(* runSend and runJoin.                                                      *)

Going == UNCHANGED <<looked, stage, failed, closing, exit>>
Step(from, to) == phase = from /\ phase' = to /\ Going

(* listen() returns; the engine is made before anything else can happen.     *)
Listen ==
  /\ Step("starting", "opening") \/ Step("starting", "joining")
  /\ server' = "listening"
  /\ UNCHANGED <<target, file, source, handshakes, conns, entered, connections>>

(* The await of runSend whose end assigns `source`.                          *)
AssignsSourceLate(await) == await = "creating"
AssignsSource(await) == await = "opening"

(* openNodeFileSource.                                                       *)
OpenSource ==
  /\ Step("opening", "creating")
  /\ file' = "open"
  /\ source' = (source \/ AssignsSource("opening"))
  /\ UNCHANGED <<target, transport>>

(* createSession hashes the pieces of the file.                              *)
CreateSession ==
  /\ Step("creating", "serving")
  /\ source' = (source \/ AssignsSource("creating"))
  /\ UNCHANGED <<target, file, transport>>

(* connect() for each of the peers, the owner last.  It asks the map for an  *)
(* open connection before it dials, and only then.                           *)
Connect(some) ==
  LET missing == {p \in some : connections[p] = 0 \/ ~IsConnectionOpen(connections[p])} IN
  IF missing = {} THEN phase' = "downloading" /\ target' = Owner
  ELSE phase' = "connecting" /\ target' \in IF missing = {Owner} THEN missing ELSE missing \ {Owner}

(* joinSession, prepareOutputFile and resumeFile; a peer besides the owner   *)
(* may have been named.                                                      *)
Join ==
  /\ phase = "joining"
  /\ \E p \in Peer : Connect({p, Owner})
  /\ Going /\ UNCHANGED <<file, source, transport>>

(* The dial returns: its WebSocket takes the peer's place in the map even if *)
(* another connection has entered it, or the transport was closed, since.    *)
DialReturns ==
  /\ phase = "connecting"
  /\ Enters("websocket", target)
  /\ Connect({Owner} \ {target})
  /\ Going /\ UNCHANGED <<file, source, server, handshakes>>

Seed == Step("downloading", "serving") /\ UNCHANGED <<target, file, source, transport>>

Complete ==
  /\ phase = "downloading"
  /\ phase' = "finishing"
  /\ Cleanup
  /\ UNCHANGED <<target, failed, file, source, closing, exit>>

(* An awaited call before the process only waits for a signal throws.        *)
Fail ==
  /\ phase \in {"starting", "opening", "creating", "joining", "connecting", "downloading"}
  /\ phase' = "failing"
  /\ Cleanup
  /\ UNCHANGED <<target, failed, file, source, closing, exit>>

(* The awaited cleanup settles.  remove() leaves the handlers to a shutdown   *)
(* that is already under way.                                                *)
Leave ==
  /\ phase \in {"finishing", "failing"} /\ stage = "over"
  /\ phase' = "left"
  /\ exit' = IF closing THEN "no" ELSE "main"
  /\ UNCHANGED <<target, looked, stage, failed, file, source, closing, transport>>

Next ==
  /\ exit = "no"
  /\ \/ TcpConnects \/ HandshakeFails
     \/ \E p \in Peer : AcceptSocketConnection(p) \/ SendRaw(p)
     \/ \E i \in Conn : \/ Drain(i) \/ SocketErrors(i) \/ SocketCloses(i)
                       \/ WebSocketCloses(i) \/ BadFrame(i)
     \/ EngineDisposed \/ SourceCloses \/ ServerCloses \/ Shutdown \/ Finish
     \/ Listen \/ OpenSource \/ CreateSession \/ Join \/ DialReturns \/ Seed
     \/ Complete \/ Fail \/ Leave

Spec == Init /\ [][Next]_vars

(* Disposal and closing a file return; a destroyed socket reports its close; *)
(* promise callbacks and the server's close callback run.  (One cleanup step *)
(* is enabled at a time, and a socket closes once.)  Nothing is assumed of   *)
(* the remote processes.                                                     *)
Destroyed(i) == conns[i].kind = "socket" /\ conns[i].socket = "closing" /\ SocketCloses(i)

FairSpec ==
  /\ Spec
  /\ WF_vars(exit = "no" /\ (EngineDisposed \/ SourceCloses \/ ServerCloses \/ Finish))
  /\ WF_vars(exit = "no" /\ \E i \in Conn : Destroyed(i))

---------------------------------------------------------------------------

TypeOK ==
  /\ phase \in Phases /\ target \in Peer
  /\ looked \in {"no", "starting", "opening", "past"}
  /\ stage \in {"no", "engine", "source", "server", "over"}
  /\ failed \in BOOLEAN /\ closing \in BOOLEAN /\ source \in BOOLEAN
  /\ file \in {"none", "open", "closed"}
  /\ exit \in {"no", "signal", "error", "main"}
  /\ server \in {"off", "listening", "closing", "closed"}
  /\ handshakes \in 0..MaxHandshakes
  /\ conns \in [Conn -> [kind : {"socket", "websocket"}, name : Peer,
                         socket : {"new", "open", "closing", "closed"}, sends : 0..MaxSends]]
  /\ entered \in 0..MaxConns
  /\ connections \in [Peer -> 0..MaxConns]

(* What the map names is the peer's own and can be sent to; only a WebSocket *)
(* that its remote side closes stays until its close event.                  *)
MapHoldsOpen ==
  \A p \in Peer : connections[p] # 0 =>
    LET c == conns[connections[p]] IN
    /\ c.name = p
    /\ c.socket = "open" \/ (c.kind = "websocket" /\ c.socket = "closing")

(* Until the transport is closed, a peer's newest connection is reachable    *)
(* while it is open: the late close of the connection it replaced must not   *)
(* take it out of the map, be it one that was accepted while connect()       *)
(* dialed.                                                                   *)
NewestIsReachable ==
  \A i \in Conn :
    /\ IsConnectionOpen(i) /\ stage \notin {"server", "over"}
    /\ \A j \in Conn : conns[j].socket # "new" /\ conns[j].name = conns[i].name => j <= i
    => connections[conns[i].name] = i

(* The map of connections: no entry is dead or another peer's, and no open   *)
(* newest connection is missing from it.                                    *)
MapIsSound == TypeOK /\ MapHoldsOpen /\ NewestIsReachable

(* When cleanup is over, all that was there for it to find has been          *)
(* released, whichever of its steps failed and wherever runSend or runJoin   *)
(* was: the server of a listening process is down with every socket it       *)
(* accepted, and the file is closed if it was open when cleanup asked for    *)
(* it, as it is from the return of openNodeFileSource on: also while         *)
(* createSession is awaited, and when that fails.  (A file whose opening     *)
(* ends later stays open until the process exits.)                           *)
OverIsReleased ==
  stage = "over" =>
    /\ looked # "starting" => server = "closed"
    /\ looked = "past" => file # "open"

(* A remote process keeps the server from closing: it has a socket that is    *)
(* still in its handshake, or open: one the map forgot when a later one took *)
(* its name, or one that entered it after the transport was closed.          *)
HeldOpen ==
  /\ stage = "server"
  /\ handshakes > 0 \/ \E i \in Conn : conns[i].kind = "socket" /\ IsConnectionOpen(i)

(* A signal ends the process, also when a cleanup step fails, unless a        *)
(* remote process holds the server open.                                     *)
SignalEnds == closing ~> (exit # "no" \/ HeldOpen)

(* No send waits for the drain of a socket that is gone: whatever was        *)
(* waiting when a socket was destroyed rejects.                              *)
SendWaitsForTheDead == \E i \in Conn : conns[i].socket \in {"closing", "closed"} /\ conns[i].sends > 0

SendsSettle == SendWaitsForTheDead ~> (~SendWaitsForTheDead \/ exit # "no")
============================================================================
