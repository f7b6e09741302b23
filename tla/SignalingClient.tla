-------------------------- MODULE SignalingClient --------------------------
(***************************************************************************)
(* BrowserSignalingClient: one WebSocket at a time, opened again after a    *)
(* delay whenever it closes, until the client is closed.  Sockets are       *)
(* numbered as they are created; each has the open, error and close         *)
(* listeners openSocket gave it and took away again.  A socket's events,    *)
(* the end of a delay and the application's calls come in any order.        *)
(*                                                                         *)
(* The application (the demo and the CLI) connects once, again only if that *)
(* failed, and closes once, whatever the client is doing by then.           *)
(***************************************************************************)
EXTENDS Integers, FiniteSets

CONSTANTS MaxSockets,   \* sockets created in a run
          Delays,       \* the number of reconnect delays
          MaxDrops      \* open sockets that the network or the server closes

ASSUME ClientAssumption == MaxSockets \in Nat /\ Delays \in Nat \ {0} /\ MaxDrops \in Nat

Socket == 1..MaxSockets

VARIABLES state,      \* the client's SignalingConnectionState
          created,    \* sockets created so far; the last one is this.socket
          ready,      \* per socket: "connecting", "open", "erring", "closing", "closed": erring
                      \* has an error event to come and then, as closing has, a close event
          listens,    \* per socket, the events its listeners are registered for
          opened,     \* per socket, onOpen has run
          awaited,    \* per socket, who awaits openSocket: "user" or "timer"
          client,     \* the socket this.client speaks through, 0 when undefined
          waits,      \* scheduleReconnect calls inside their delay
          attempt,    \* reconnectAttempt
          drops,
          closedIn    \* where close() found the client: "no" before it, "quiet", or "midway"
                      \* while it was reconnecting

vars == <<state, created, ready, listens, opened, awaited, client, waits, attempt, drops, closedIn>>

Init ==
  /\ state = "idle"
  /\ created = 0
  /\ ready = [s \in Socket |-> "closed"]
  /\ listens = [s \in Socket |-> {}]
  /\ opened = [s \in Socket |-> FALSE]
  /\ awaited = [s \in Socket |-> "user"]
  /\ client = 0
  /\ waits = 0
  /\ attempt = 0
  /\ drops = 0
  /\ closedIn = "no"

Live(s) == ready[s] \in {"connecting", "open"}

(* openSocket up to its promise: a new socket with its three listeners.     *)
OpenSocket(from, opening) ==
  LET s == created + 1 IN
  /\ created < MaxSockets
  /\ state' = opening
  /\ created' = s
  /\ ready' = [ready EXCEPT ![s] = "connecting"]
  /\ listens' = [listens EXCEPT ![s] = {"open", "error", "close"}]
  /\ awaited' = [awaited EXCEPT ![s] = from]
  /\ client' = s
  /\ UNCHANGED <<opened, attempt, drops, closedIn>>

(* The index of the next delay: the last one serves all further attempts.    *)
NextAttempt == IF attempt < Delays THEN attempt + 1 ELSE attempt

(* scheduleReconnect up to its delay.  It drops this.client whichever       *)
(* socket that belongs to, and counts the attempt.                          *)
ScheduleReconnect ==
  /\ client' = 0
  /\ attempt' = NextAttempt
  /\ state' = "reconnecting"
  /\ waits' = waits + 1

(* connect(), before the first socket or after the first one failed.         *)
Connect ==
  /\ state \in {"idle", "failed"}
  /\ closedIn = "no"
  /\ OpenSocket("user", IF state = "failed" THEN "reconnecting" ELSE "connecting")
  /\ UNCHANGED waits

(* The delay is over: the socket is opened whatever has happened meanwhile. *)
DelayEnds ==
  /\ waits > 0
  /\ waits' = waits - 1
  /\ OpenSocket("timer", "reconnecting")

(* close() *)
Reconnecting == waits > 0 \/ \E s \in Socket : ready[s] \in {"connecting", "erring"} /\ awaited[s] = "timer"

Close ==
  /\ closedIn = "no"
  /\ closedIn' = IF Reconnecting THEN "midway" ELSE "quiet"
  /\ state' = "closed"
  /\ ready' = [s \in Socket |->
                 IF s # created THEN ready[s]
                 ELSE CASE ready[s] = "connecting" -> "erring"
                        [] ready[s] = "open" -> "closing"
                        [] OTHER -> ready[s]]
  /\ client' = 0
  /\ UNCHANGED <<created, listens, opened, awaited, waits, attempt, drops>>

-----------------------------------------------------------------------------
(* The network.  A socket that closes fires close, and error before it when  *)
(* it failed.                                                              *)

Fails(s) ==
  /\ ready[s] = "connecting"
  /\ ready' = [ready EXCEPT ![s] = "erring"]
  /\ drops < MaxDrops
  /\ drops' = drops + 1
  /\ UNCHANGED <<state, created, listens, opened, awaited, client, waits, attempt, closedIn>>

Drops(s) ==
  /\ ready[s] = "open"
  /\ drops < MaxDrops
  /\ drops' = drops + 1
  /\ \E how \in {"erring", "closing"} : ready' = [ready EXCEPT ![s] = how]
  /\ UNCHANGED <<state, created, listens, opened, awaited, client, waits, attempt, closedIn>>

(* onOpen *)
Opens(s) ==
  /\ ready[s] = "connecting"
  /\ ready' = [ready EXCEPT ![s] = "open"]
  /\ opened' = [opened EXCEPT ![s] = TRUE]
  /\ listens' = [listens EXCEPT ![s] = @ \ {"open", "error"}]
  /\ attempt' = 0
  /\ state' = "open"
  /\ UNCHANGED <<created, awaited, client, waits, drops, closedIn>>

(* onError before the socket opened: the close listener goes too, the state  *)
(* becomes failed even after close(), and the promise rejects: connect()    *)
(* throws to its caller, a reconnect is scheduled again by its catch.       *)
LeftByError == {"close"}
LeftAfterError == {}

RetriesNever(s) == FALSE
Retries(s) == awaited[s] = "timer"

Errors(s) ==
  /\ ready[s] = "erring"
  /\ ready' = [ready EXCEPT ![s] = "closing"]
  /\ IF "error" \in listens[s]
     THEN /\ listens' = [listens EXCEPT ![s] = LeftAfterError]
          /\ IF Retries(s)
             THEN ScheduleReconnect
             ELSE state' = "failed" /\ UNCHANGED <<client, attempt, waits>>
     ELSE UNCHANGED <<listens, state, client, attempt, waits>>
  /\ UNCHANGED <<created, opened, awaited, drops, closedIn>>

(* onClose *)
WasClosedNever == FALSE
WasClosed == state \in {"closing", "closed"}

Closes(s) ==
  /\ ready[s] = "closing"
  /\ ready' = [ready EXCEPT ![s] = "closed"]
  /\ listens' = [listens EXCEPT ![s] = {}]
  /\ IF "close" \in listens[s] /\ ~WasClosed
     THEN ScheduleReconnect
     ELSE UNCHANGED <<state, client, attempt, waits>>
  /\ UNCHANGED <<created, opened, awaited, drops, closedIn>>

SocketEvent(s) == Opens(s) \/ Errors(s) \/ Closes(s)

Next ==
  \/ Connect
  \/ DelayEnds
  \/ Close
  \/ \E s \in Socket : Fails(s) \/ Drops(s) \/ SocketEvent(s)

Spec == Init /\ [][Next]_vars

(* Timers fire and a socket's events are delivered; an attempt to open ends. *)
FairSpec ==
  /\ Spec
  /\ WF_vars(DelayEnds)
  /\ \A s \in Socket : WF_vars(SocketEvent(s))

-----------------------------------------------------------------------------
(* Types; the attempt count stays an index of the delays or one past it.     *)
TypeOK ==
  /\ state \in {"idle", "connecting", "open", "reconnecting", "closing", "closed", "failed"}
  /\ created \in 0..MaxSockets
  /\ ready \in [Socket -> {"connecting", "open", "erring", "closing", "closed"}]
  /\ listens \in [Socket -> SUBSET {"open", "error", "close"}]
  /\ opened \in [Socket -> BOOLEAN]
  /\ awaited \in [Socket -> {"user", "timer"}]
  /\ client \in 0..created
  /\ waits \in Nat
  /\ attempt \in 0..Delays
  /\ drops \in 0..MaxDrops
  /\ closedIn \in {"no", "quiet", "midway"}

(* The client never pursues two connections: sockets that are open, opening  *)
(* or about to tell the client that they failed, and delays that will open   *)
(* one, are at most one together.                                           *)
Pursuits == {s \in Socket : Live(s) \/ listens[s] # {}}
OnePursuit == Cardinality(Pursuits) + waits <= 1

(* What close() leaves: if it did not come in the middle of a reconnect, no  *)
(* socket opens again and no delay is pending.                               *)
QuietCloseIsFinal ==
  closedIn = "quiet" => waits = 0 /\ \A s \in Socket : ~Live(s)

(* In state open a message can be sent, unless the socket has closed since  *)
(* and the client is about to learn it.                                     *)
OpenIsUsable ==
  state = "open" =>
    /\ client = created
    /\ created > 0
    /\ ready[created] = "open" \/ "close" \in listens[created]

(* One connection is pursued, and the state the application sees is true of  *)
(* it.                                                                     *)
PursuitIsSound == TypeOK /\ OnePursuit /\ OpenIsUsable

(* A client that was open once gets open again after every drop, unless it   *)
(* is closed or connect() told its caller of the failure.                    *)
ComesBack ==
  state = "reconnecting" ~>
    \/ state = "open" \/ closedIn # "no"
    \/ state = "failed" /\ awaited[created] = "user"

=============================================================================
