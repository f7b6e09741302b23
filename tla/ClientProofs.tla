---------------------------- MODULE ClientProofs ----------------------------
(***************************************************************************)
(* What the clients of the signaling server keep.                           *)
(*                                                                         *)
(* The reconnecting client, for any number of sockets, drops and delays.    *)
(* The invariant says which listeners a socket in each stage of its life    *)
(* still has, that only the newest socket has any, and that there is none   *)
(* while a delay runs: so a late event of an older socket finds no listener, *)
(* and one pursuit never starts another beside itself.                      *)
(*                                                                         *)
(* The page and the command lines around one registry, for any number of    *)
(* attempts and commands.  For the page the invariant follows the two       *)
(* tokens that tell its attempts apart: how generations are handed out, and *)
(* which attempt the reference goes to; it says where the parts of every    *)
(* runtime are, and what the panel has to do with the attempt it names.     *)
(* For the commands it says what each request done so far has left behind.  *)
(***************************************************************************)
EXTENDS ShareFlow, SignalingClient, FiniteSetTheorems, TLAPS

-----------------------------------------------------------------------------
(* The reconnecting client.                                                 *)

(* The listeners left at each stage of a socket.                            *)
Stages ==
  \A s \in Socket :
    /\ ready[s] = "connecting" => listens[s] = {"open", "error", "close"} /\ client = s
    /\ ready[s] = "open" => listens[s] = {"close"}
    /\ ready[s] = "erring" => listens[s] \in {{"open", "error", "close"}, {"close"}}
    /\ ready[s] = "closing" => listens[s] \in {{"close"}, {}}
    /\ ready[s] = "closed" => listens[s] = {}

(* Only the newest socket is pursued, and not while a delay runs.           *)
Latest ==
  /\ \A s \in Socket : listens[s] # {} => s = created /\ waits = 0
  /\ waits \in {0, 1}

(* What the state says of the newest socket.                                *)
Told ==
  /\ state \in {"idle", "failed"} => waits = 0 /\ \A s \in Socket : listens[s] = {}
  /\ state = "open" => /\ waits = 0
                       /\ client = created
                       /\ created \in Socket
                       /\ listens[created] = {"close"}

(* After a quiet close an error only reaches connect()'s caller, and a close *)
(* event finds the client closed.                                           *)
Quiet ==
  closedIn = "quiet" =>
    /\ waits = 0
    /\ \A s \in Socket :
         /\ ~Live(s)
         /\ "error" \in listens[s] => awaited[s] = "user"
         /\ listens[s] = {"close"} => state = "closed"

SocketInv == TypeOK /\ Stages /\ Latest /\ Told /\ Quiet

-----------------------------------------------------------------------------

LEMMA InitInv == Init => SocketInv
  BY ClientAssumption DEF Init, SocketInv, TypeOK, Stages, Latest, Told, Quiet, Live, Socket

(* A socket is opened only when nothing else is pursued.                    *)
LEMMA OpenSocketInv ==
  ASSUME SocketInv, NEW from \in {"user", "timer"}, NEW opening \in {"connecting", "reconnecting"},
         OpenSocket(from, opening), waits' = 0, closedIn # "quiet",
         \A s \in Socket : listens[s] = {}
  PROVE  SocketInv'
<1> USE ClientAssumption DEF SocketInv, OpenSocket, Socket
<1>1. created + 1 \in Socket
  BY DEF TypeOK
<1>2. TypeOK'
  BY <1>1 DEF TypeOK
<1>3. Stages'
  BY <1>1 DEF Stages, TypeOK
<1>4. Latest'
  BY <1>1 DEF Latest, TypeOK
<1> QED BY <1>2, <1>3, <1>4 DEF Told, Quiet

LEMMA ConnectInv == SocketInv /\ Connect => SocketInv'
<1> SUFFICES ASSUME SocketInv, Connect PROVE SocketInv'
  OBVIOUS
<1>1. waits' = 0 /\ closedIn # "quiet" /\ \A s \in Socket : listens[s] = {}
  BY DEF SocketInv, Told, Connect
<1> QED BY <1>1, OpenSocketInv DEF Connect

LEMMA DelayEndsInv == SocketInv /\ DelayEnds => SocketInv'
<1> SUFFICES ASSUME SocketInv, DelayEnds PROVE SocketInv'
  OBVIOUS
<1>1. waits' = 0 /\ closedIn # "quiet" /\ \A s \in Socket : listens[s] = {}
  BY DEF SocketInv, Latest, Quiet, DelayEnds
<1> QED BY <1>1, OpenSocketInv DEF DelayEnds

LEMMA CloseInv == SocketInv /\ Close => SocketInv'
<1> SUFFICES ASSUME SocketInv, Close PROVE SocketInv'
  OBVIOUS
<1> USE DEF SocketInv, Close
<1>1. TypeOK'
  BY DEF TypeOK
<1>2. Stages'
  BY DEF TypeOK, Stages, Latest
<1>3. Latest' /\ Told'
  BY DEF Latest, Told
<1>4. Quiet'
  BY DEF Quiet, Reconnecting, TypeOK, Stages, Latest, Live
<1> QED BY <1>1, <1>2, <1>3, <1>4

LEMMA NetworkInv == ASSUME SocketInv, NEW s \in Socket, Fails(s) \/ Drops(s) PROVE SocketInv'
<1> USE DEF SocketInv, Fails, Drops
<1>1. TypeOK'
  BY ClientAssumption DEF TypeOK
<1>2. Stages'
  BY DEF TypeOK, Stages
<1>3. Latest' /\ Told'
  BY DEF Latest, Told
<1>4. Quiet'
  BY DEF Quiet, TypeOK, Live
<1> QED BY <1>1, <1>2, <1>3, <1>4

LEMMA OpensInv == ASSUME SocketInv, NEW s \in Socket, Opens(s) PROVE SocketInv'
<1> USE DEF SocketInv, Opens
<1>1. TypeOK'
  BY ClientAssumption DEF TypeOK
<1>2. Stages'
  BY DEF TypeOK, Stages
<1>3. Latest' /\ Told'
  BY DEF Latest, Told, Stages, TypeOK
<1>4. Quiet'
  BY DEF Quiet, Live
<1> QED BY <1>1, <1>2, <1>3, <1>4

(* The count of attempts never passes the last delay.                       *)
LEMMA NextAttemptInRange == TypeOK => NextAttempt \in 0..Delays
  BY ClientAssumption DEF TypeOK, NextAttempt

LEMMA ErrorsInv == ASSUME SocketInv, NEW s \in Socket, Errors(s) PROVE SocketInv'
<1> USE DEF SocketInv, Errors
<1>1. "error" \in listens[s] => listens[s] = {"open", "error", "close"} /\ s = created /\ waits = 0
  BY DEF Stages, Latest
<1>2. TypeOK'
  BY <1>1, NextAttemptInRange, ClientAssumption DEF TypeOK, ScheduleReconnect, LeftAfterError
<1>3. Stages'
  BY <1>1 DEF TypeOK, Stages, Latest, ScheduleReconnect, LeftAfterError
<1>4. Latest'
  BY <1>1 DEF Latest, TypeOK, ScheduleReconnect, LeftAfterError
<1>5. Told'
  BY <1>1 DEF Told, Latest, TypeOK, ScheduleReconnect, LeftAfterError
<1>6. Quiet'
  BY <1>1 DEF Quiet, Latest, TypeOK, Live, Retries, ScheduleReconnect, LeftAfterError
<1> QED BY <1>2, <1>3, <1>4, <1>5, <1>6

LEMMA ClosesInv == ASSUME SocketInv, NEW s \in Socket, Closes(s) PROVE SocketInv'
<1> USE DEF SocketInv, Closes
<1>1. "close" \in listens[s] => listens[s] = {"close"} /\ s = created /\ waits = 0
  BY DEF Stages, Latest
<1>2. TypeOK'
  BY <1>1, NextAttemptInRange, ClientAssumption DEF TypeOK, ScheduleReconnect
<1>3. Stages'
  BY <1>1 DEF TypeOK, Stages, Latest, ScheduleReconnect
<1>4. Latest'
  BY <1>1 DEF Latest, TypeOK, ScheduleReconnect
<1>5. Told'
  BY <1>1 DEF Told, Latest, Stages, TypeOK, ScheduleReconnect, WasClosed
<1>6. Quiet'
  BY <1>1 DEF Quiet, Latest, TypeOK, Live, WasClosed, ScheduleReconnect
<1> QED BY <1>2, <1>3, <1>4, <1>5, <1>6

LEMMA NextInv == SocketInv /\ [Next]_vars => SocketInv'
<1> SUFFICES ASSUME SocketInv, [Next]_vars PROVE SocketInv'
  OBVIOUS
<1>1. CASE UNCHANGED vars
  BY <1>1 DEF vars, SocketInv, TypeOK, Stages, Latest, Told, Quiet, Live
<1>2. CASE Connect
  BY <1>2, ConnectInv
<1>3. CASE DelayEnds
  BY <1>3, DelayEndsInv
<1>4. CASE Close
  BY <1>4, CloseInv
<1>5. CASE \E s \in Socket : Fails(s) \/ Drops(s)
  BY <1>5, NetworkInv
<1>6. CASE \E s \in Socket : SocketEvent(s)
  BY <1>6, OpensInv, ErrorsInv, ClosesInv DEF SocketEvent
<1> QED BY <1>1, <1>2, <1>3, <1>4, <1>5, <1>6 DEF Next

LEMMA ClientInvariant == Spec => []SocketInv
  BY InitInv, NextInv, PTL DEF Spec

-----------------------------------------------------------------------------

LEMMA OneAtATime == SocketInv => OnePursuit
<1> SUFFICES ASSUME SocketInv PROVE OnePursuit
  OBVIOUS
<1>1. \A s \in Pursuits : s = created /\ waits = 0
  BY DEF SocketInv, Stages, Latest, Pursuits, Live
<1>2. CASE Pursuits = {}
  BY <1>2, FS_EmptySet DEF SocketInv, Latest, OnePursuit
<1>3. CASE Pursuits # {}
  <2>1. Pursuits = {created} /\ waits = 0
    BY <1>1, <1>3
  <2>2. Cardinality(Pursuits) = 1
    BY <2>1, FS_Singleton
  <2> QED BY <2>1, <2>2 DEF OnePursuit
<1> QED BY <1>2, <1>3

(* The client pursues one connection at a time, and in state open speaks     *)
(* through a socket that is usable or about to report its end: no event of a *)
(* replaced socket, and no delay, starts a second one.                      *)
THEOREM PursuitSound == Spec => []PursuitIsSound
<1>1. SocketInv => OpenIsUsable
  BY DEF SocketInv, Told, OpenIsUsable, Socket, TypeOK
<1>2. SocketInv => PursuitIsSound
  BY <1>1, OneAtATime DEF PursuitIsSound, SocketInv
<1> QED BY <1>2, ClientInvariant, PTL

(* A client closed while no reconnect was under way never opens a socket     *)
(* again, whatever events are still to come.                                *)
THEOREM QuietCloseHolds == Spec => []QuietCloseIsFinal
<1>1. SocketInv => QuietCloseIsFinal
  BY DEF SocketInv, Quiet, QuietCloseIsFinal
<1> QED BY <1>1, ClientInvariant, PTL

-----------------------------------------------------------------------------
(* The page and the commands: their inductive invariants.                   *)

Early == {"none", "lookup", "dashed"}
Owned == {"connecting", "registering", "drawing", "serving", "joined"}
Leaving == {"undoing", "failing", "over", "failed"}
Owners == {"link", "signaled"}
Receiving == {"join", "get"}
Todos == {<<"client", "engine", "transport">>, <<"engine", "transport">>, <<"transport">>, <<>>}
Status == {"idle", "creating", "resolving", "downloading", "serving", "complete", "error"}
Holder == Attempt \cup {Closing}
Busy(d) == disposal[d].todo # <<>>
Ticketed == {a \in Attempt : ticket[a] > 0}

(* The types, with the parts of the state that PageTypeOK leaves open.       *)
Types ==
  /\ role \in {"owner", "receiver"} /\ mounted \in BOOLEAN
  /\ generation \in Nat /\ current \in {0} \cup Attempt
  /\ kind \in [Attempt -> {"none"} \cup Owners \cup Receiving]
  /\ stage \in [Attempt -> Building \cup {"none", "serving", "joined", "failed", "over"}]
  /\ ticket \in [Attempt -> Nat]
  /\ parts \in [Attempt -> SUBSET {"client", "engine", "transport"}]
  /\ disposal \in [Holder -> [of : {0} \cup Attempt, todo : Todos]]
  /\ room \in [Attempt \cup {Remote} -> {"none", "open", "gone"}]
  /\ transfer \in [Attempt -> {"none", "running", "aborted", "saving", "cleaning", "done", "failed"}]
  /\ panel \in [status : Status, by : {0} \cup Attempt]

(* Generations are handed out one by one, to an attempt or to the closing page. *)
Tickets ==
  /\ \A a \in Attempt : ticket[a] <= generation
  /\ \A a, b \in Attempt : ticket[a] = ticket[b] => a = b \/ ticket[a] = 0
  /\ \A a \in Attempt : stage[a] \in Early => ticket[a] = 0
  /\ \A a \in Attempt : stage[a] \in Early \/ ticket[a] > 0 \/ stage[a] = "over"
  /\ generation <= Cardinality(Ticketed) + (IF mounted THEN 0 ELSE 1)

(* What an attempt is tells where it may be.                                 *)
Sides ==
  \A a \in Attempt :
    /\ kind[a] = "none" <=> stage[a] = "none"
    /\ kind[a] \in Owners => role = "owner"
    /\ kind[a] \in Receiving => role = "receiver"
    /\ stage[a] \in {"lookup", "dashed"} => kind[a] = "get"
    /\ stage[a] = "joined" => kind[a] \in Receiving
    /\ transfer[a] # "none" => stage[a] = "joined"

(* An attempt waits for its own disposal, and the closed page has one; the     *)
(* runtime it closes has been built and is no longer referenced.              *)
Disposals ==
  /\ mounted => ~Busy(Closing)
  /\ \A a \in Attempt : Busy(a) => stage[a] \in {"replacing", "undoing", "failing"}
  /\ \A d \in Holder : Busy(d) =>
       /\ disposal[d].of \in Attempt /\ disposal[d].of # current
       /\ stage[disposal[d].of] \in Owned \cup Leaving

(* The reference goes with the newest generation: only a newest attempt that   *)
(* still asks for its ICE servers leaves an older runtime referenced.         *)
Reference ==
  /\ current # 0 =>
       /\ stage[current] \in Owned
       /\ Newest(current) \/ \E a \in Attempt : Newest(a) /\ stage[a] = "ice"
  /\ \A a \in Attempt : Newest(a) /\ ticket[a] > 0 =>
       /\ stage[a] \in {"replacing", "preparing"} => current = 0
       /\ stage[a] \in Owned => current = a
       /\ stage[a] \notin {"undoing", "over"}

(* An owner's attempts take their generations in the order they start.        *)
InTurn ==
  role = "owner" =>
    /\ \A a \in Attempt : stage[a] # "none" => ticket[a] > 0
    /\ \A a, b \in Attempt : a < b /\ stage[b] # "none" => stage[a] # "none" /\ ticket[a] < ticket[b]
    /\ mounted => \A a \in Attempt : stage[a] # "none" /\ ~Newest(a) => \E b \in Attempt : a < b /\ stage[b] # "none"

(* The panel names the last link that was started, and its stage bears out    *)
(* what the panel says; the room of a share that is shown is open.           *)
Showing ==
  /\ panel.status \in {"creating", "serving"} => panel.by \in Attempt /\ kind[panel.by] = "link"
  /\ panel.status = "creating" => stage[panel.by] \notin {"none", "serving", "failed"}
  /\ panel.status = "serving" => stage[panel.by] = "serving"
  /\ role = "owner" => \A b \in Attempt : b > panel.by => kind[b] \in {"none", "signaled"}
  /\ role = "owner" /\ current # 0 /\ stage[current] \in {"registering", "drawing", "serving"} =>
       room[current] = "open"

(* What is left of a disposal.                                              *)
Left(t) == {t[i] : i \in 1..Len(t)}

(* RuntimesAreHeld, with the parts that a disposal has still to close.        *)
Held(a) ==
  current = a \/ stage[a] = "preparing"
  \/ \A part \in parts[a] : \E d \in Holder : disposal[d].of = a /\ part \in Left(disposal[d].todo)
AreHeld == \A a \in Attempt : Held(a)

PageInv == Types /\ Tickets /\ Sides /\ Disposals /\ Reference /\ InTurn /\ Showing /\ AreHeld

(* What the directory and the commands keep.                                 *)
Runs ==
  [kind : Kind \cup {"none"}, file : File \cup {"none"}, code : Code, at : 1..4,
   end : {"no", "done", "planned", "complete", "failed"}]
ClientTypes ==
  /\ run \in [Command -> Runs]
  /\ tries \in [Command -> 0..1]
  /\ learned \in [Command -> [file : File \cup {"none"}, join : File \cup {NoHint}]]
  /\ applied \in [Command -> 0..2]
Progress ==
  \A k \in Command :
    /\ run[k].kind \in {"publish", "share", "download"} => run[k].file \in File
    /\ run[k].kind # "none" => run[k].at <= Len(Requests(run[k].kind)) + 1
    /\ run[k].end = "no" => applied[k] <= tries[k]
    /\ run[k].end \in {"done", "complete"} =>
         run[k].kind # "none" /\ ~(run[k].at <= Len(Requests(run[k].kind)))
Recorded ==
  \A k \in Command :
    /\ run[k].kind = "publish" /\ run[k].at > 1 => run[k].file \in published
    /\ run[k].kind = "share" /\ run[k].at > 2 => run[k].file \in published
    /\ run[k].kind = "get" /\ run[k].at > 2 /\ run[k].end \in {"no", "complete"} =>
         learned[k].join = learned[k].file
CommandInv == RegistryTypeOK /\ ClientTypes /\ Progress /\ Recorded

-----------------------------------------------------------------------------
LEMMA TodoSteps ==
  ASSUME NEW t \in Todos
  PROVE  /\ t = <<>> => Left(t) = {}
         /\ t # <<>> => /\ Tail(t) \in Todos /\ Head(t) \in {"client", "engine", "transport"}
                        /\ Left(t) = {Head(t)} \cup Left(Tail(t))
<1>1. CASE t = <<>>
  BY <1>1 DEF Left
<1>2. CASE t = <<"transport">>
  <2>1. Head(t) = "transport" /\ Tail(t) = <<>> /\ t # <<>> /\ Len(t) = 1 /\ t[1] = "transport"
    BY <1>2
  <2>2. Left(t) = {"transport"} /\ Left(<<>>) = {}
    BY <2>1 DEF Left
  <2> QED BY <2>1, <2>2 DEF Todos
<1>3. CASE t = <<"engine", "transport">>
  <2>1. /\ Head(t) = "engine" /\ Tail(t) = <<"transport">> /\ t # <<>>
        /\ Len(t) = 2 /\ t[1] = "engine" /\ t[2] = "transport"
    BY <1>3
  <2>2. Left(t) = {"engine", "transport"} /\ Left(<<"transport">>) = {"transport"}
    BY <2>1 DEF Left
  <2> QED BY <2>1, <2>2 DEF Todos
<1>4. CASE t = <<"client", "engine", "transport">>
  <2>1. /\ Head(t) = "client" /\ Tail(t) = <<"engine", "transport">> /\ t # <<>>
        /\ Len(t) = 3 /\ t[1] = "client" /\ t[2] = "engine" /\ t[3] = "transport"
    BY <1>4
  <2>2. Left(t) = {"client", "engine", "transport"}
    BY <2>1 DEF Left
  <2>3. Left(<<"engine", "transport">>) = {"engine", "transport"}
    BY DEF Left
  <2> QED BY <2>1, <2>2, <2>3 DEF Todos
<1> QED BY <1>1, <1>2, <1>3, <1>4 DEF Todos

LEMMA AllLeft == All \in Todos /\ All # <<>> /\ Left(All) = {"client", "engine", "transport"}
<1>1. All = <<"client", "engine", "transport">> /\ Len(All) = 3
  BY DEF All
<1>2. Left(All) = {"client", "engine", "transport"}
  BY <1>1 DEF Left
<1> QED BY <1>1, <1>2 DEF Todos

LEMMA HeldSuffices == Types /\ AreHeld => RuntimesAreHeld
<1> SUFFICES ASSUME Types, AreHeld, NEW a \in Attempt, ~(current = a), ~(stage[a] = "preparing"), NEW part \in parts[a]
             PROVE  \E d \in DOMAIN disposal :
                      disposal[d].of = a /\ \E i \in 1..Len(disposal[d].todo) : disposal[d].todo[i] = part
  BY Zenon DEF RuntimesAreHeld
<1>1. PICK d \in Holder : disposal[d].of = a /\ part \in Left(disposal[d].todo)
  BY DEF AreHeld, Held
<1>2. DOMAIN disposal = Holder
  BY DEF Types
<1>3. \E i \in 1..Len(disposal[d].todo) : disposal[d].todo[i] = part
  BY <1>1 DEF Left
<1> QED BY <1>1, <1>2, <1>3

-----------------------------------------------------------------------------
(* What the steps have in common.                                           *)

Stage == Building \cup {"none", "serving", "joined", "failed", "over"}

(* Attempt a goes on to stage s, the others stay where they are.             *)
Moves(a, s) ==
  /\ stage' = [stage EXCEPT ![a] = s] /\ s \in Stage
  /\ stage'[a] = s
  /\ \A b \in Attempt : b # a => stage'[b] = stage[b]

LEMMA MovesStage ==
  ASSUME Types, NEW a \in Attempt, NEW s \in Stage, stage' = [stage EXCEPT ![a] = s]
  PROVE  Moves(a, s) /\ stage' \in [Attempt -> Stage]
  BY DEF Types, Moves, Stage

LEMMA AttemptIsFinite == IsFiniteSet(Attempt) /\ IsFiniteSet(Ticketed) /\ Cardinality(Ticketed) \in Nat
<1>1. IsFiniteSet(Attempt)
  BY FlowAssumption, FS_Interval DEF Attempt
<1>2. Ticketed \subseteq Attempt
  BY DEF Ticketed
<1> QED BY <1>1, <1>2, FS_Subset, FS_CardinalityType

(* No generation is handed out.                                             *)
LEMMA SameTickets ==
  ASSUME Tickets, UNCHANGED <<generation, ticket, mounted>>,
         \A a \in Attempt : stage'[a] \in Early => stage[a] \in Early,
         \A a \in Attempt : stage'[a] \in Early \/ stage[a] \notin Early \cup {"over"} \/ stage'[a] = "over"
  PROVE  Tickets'
<1>1. Ticketed' = Ticketed
  BY DEF Ticketed
<1> QED BY <1>1 DEF Tickets

(* An attempt without a ticket takes the next generation.                    *)
LEMMA TakesNext ==
  ASSUME PageInv, NEW a \in Attempt, Takes(a), stage[a] \in Early, mounted' = mounted
  PROVE  /\ Tickets' /\ Moves(a, "ice") /\ stage' \in [Attempt -> Stage]
         /\ generation' = generation + 1 /\ generation' \in Nat /\ ticket' \in [Attempt -> Nat]
         /\ ticket'[a] = generation + 1 /\ \A b \in Attempt : b # a => ticket'[b] = ticket[b]
<1>0. Types /\ Tickets
  BY DEF PageInv
<1>1. Moves(a, "ice") /\ stage' \in [Attempt -> Stage]
  BY <1>0, MovesStage DEF Takes, Stage, Building
<1>2. /\ generation' = generation + 1 /\ generation' \in Nat /\ ticket' \in [Attempt -> Nat]
      /\ ticket'[a] = generation + 1 /\ \A b \in Attempt : b # a => ticket'[b] = ticket[b]
  BY <1>0 DEF Takes, Types
<1>3. a \notin Ticketed /\ Ticketed' = Ticketed \cup {a}
  BY <1>0, <1>2 DEF Ticketed, Tickets, Types
<1>4. Cardinality(Ticketed') = Cardinality(Ticketed) + 1
  BY <1>3, AttemptIsFinite, FS_AddElement
<1>5. generation' <= Cardinality(Ticketed') + (IF mounted' THEN 0 ELSE 1)
  BY <1>0, <1>2, <1>4, AttemptIsFinite DEF Tickets, Types
<1>6. \A b \in Attempt : ticket'[b] <= generation'
  BY <1>0, <1>2 DEF Tickets, Types
<1>7. \A b, c \in Attempt : ticket'[b] = ticket'[c] => b = c \/ ticket'[b] = 0
  <2> SUFFICES ASSUME NEW b \in Attempt, NEW c \in Attempt, ticket'[b] = ticket'[c], b # c PROVE ticket'[b] = 0
    OBVIOUS
  <2>1. ticket[b] <= generation /\ ticket[c] <= generation /\ ticket[b] \in Nat /\ ticket[c] \in Nat
    BY <1>0 DEF Tickets, Types
  <2>2. b # a /\ c # a
    BY <1>0, <1>2, <2>1 DEF Types
  <2> QED BY <1>0, <1>2, <2>2 DEF Tickets
<1>8. \A b \in Attempt : /\ stage'[b] \in Early => ticket'[b] = 0
                         /\ stage'[b] \in Early \/ ticket'[b] > 0 \/ stage'[b] = "over"
  BY <1>0, <1>1, <1>2 DEF Tickets, Types, Moves, Early
<1> QED BY <1>1, <1>2, <1>5, <1>6, <1>7, <1>8 DEF Tickets

(* Where no disposal and no reference changes, the runtimes are held as       *)
(* before, if no attempt ends its preparation.                              *)
LEMMA SameHolders ==
  ASSUME AreHeld, UNCHANGED <<current, disposal>>,
         \A a \in Attempt : parts'[a] \subseteq parts[a],
         \A a \in Attempt : stage[a] = "preparing" => stage'[a] = "preparing"
  PROVE  AreHeld'
  BY DEF AreHeld, Held

-----------------------------------------------------------------------------
(* The user starts an attempt.                                              *)

LEMMA StartsWithTicket ==
  ASSUME PageInv, NEW a \in Attempt, StartShare(a) \/ StartJoin(a)
  PROVE  PageInv'
<1>0. /\ Types /\ Tickets /\ Sides /\ Disposals /\ Reference /\ InTurn /\ Showing /\ AreHeld
      /\ Takes(a) /\ stage[a] = "none" /\ mounted /\ \A b \in Attempt : b < a => stage[b] # "none"
      /\ UNCHANGED <<role, mounted, current, parts, disposal, room, transfer>>
  BY DEF PageInv, StartShare, StartJoin, Starts, Attempt
<1>1. PICK k \in Owners \cup Receiving :
        /\ kind' = [kind EXCEPT ![a] = k] /\ (k \in Owners <=> role = "owner")
        /\ panel' \in [status : {"creating", "downloading"}, by : {a}] \/ panel' = panel
        /\ k = "link" => panel' = Shows("creating", a)
        /\ k = "signaled" => panel' = panel
        /\ k \in Receiving => panel' = Shows("downloading", a)
  BY <1>0 DEF StartShare, StartJoin, Starts, Owners, Receiving, Shows
<1>2. /\ Tickets' /\ Moves(a, "ice") /\ stage' \in [Attempt -> Stage]
      /\ generation' = generation + 1 /\ generation' \in Nat /\ ticket' \in [Attempt -> Nat]
      /\ ticket'[a] = generation + 1 /\ \A b \in Attempt : b # a => ticket'[b] = ticket[b]
  BY <1>0, TakesNext DEF Early
<1>k. /\ kind' \in [Attempt -> {"none"} \cup Owners \cup Receiving] /\ kind'[a] = k
      /\ \A b \in Attempt : b # a => kind'[b] = kind[b]
  BY <1>0, <1>1 DEF Types
<1>p. /\ panel' \in [status : Status, by : {0} \cup Attempt]
      /\ \/ panel' = panel /\ k = "signaled"
         \/ panel' = Shows("creating", a) /\ k = "link"
         \/ panel' = Shows("downloading", a) /\ k \in Receiving
  <2>1. CASE k = "link"
    BY <1>0, <1>1, <2>1 DEF Types, Status, Shows
  <2>2. CASE k = "signaled"
    BY <1>0, <1>1, <2>2 DEF Types
  <2>3. CASE k \in Receiving
    BY <1>0, <1>1, <2>3 DEF Types, Status, Shows
  <2> QED BY <2>1, <2>2, <2>3 DEF Owners
<1>3. Types'
  BY <1>0, <1>2, <1>k, <1>p DEF Types, Stage
<1>4. Sides'
  <2> SUFFICES ASSUME NEW b \in Attempt
               PROVE  /\ kind'[b] = "none" <=> stage'[b] = "none"
                      /\ kind'[b] \in Owners => role' = "owner"
                      /\ kind'[b] \in Receiving => role' = "receiver"
                      /\ stage'[b] \in {"lookup", "dashed"} => kind'[b] = "get"
                      /\ stage'[b] = "joined" => kind'[b] \in Receiving
                      /\ transfer'[b] # "none" => stage'[b] = "joined"
    BY DEF Sides
  <2>1. CASE b = a
    BY <1>0, <1>1, <1>2, <1>k, <2>1 DEF Types, Sides, Owners, Receiving, Moves
  <2>2. CASE b # a
    BY <1>0, <1>2, <1>k, <2>2 DEF Sides, Moves
  <2> QED BY <2>1, <2>2
<1>5. Disposals'
  BY <1>0, <1>2 DEF Disposals, Busy, Moves, Owned, Leaving
<1>6. Reference'
  BY <1>0, <1>2 DEF Types, Tickets, Reference, Moves, Owned, Newest
<1>7. InTurn'
  <2> SUFFICES ASSUME role = "owner"
               PROVE  /\ \A b \in Attempt : stage'[b] # "none" => ticket'[b] > 0
                      /\ \A b, c \in Attempt : b < c /\ stage'[c] # "none" =>
                           stage'[b] # "none" /\ ticket'[b] < ticket'[c]
                      /\ \A b \in Attempt : stage'[b] # "none" /\ ticket'[b] # generation' =>
                           \E c \in Attempt : b < c /\ stage'[c] # "none"
    BY <1>0 DEF InTurn, Newest
  <2>1. /\ stage'[a] # "none" /\ ticket'[a] = generation' /\ ticket'[a] > 0
        /\ \A b \in Attempt : b # a => stage'[b] = stage[b] /\ ticket'[b] = ticket[b]
        /\ \A b \in Attempt : ticket[b] <= generation /\ ticket[b] < ticket'[a]
    BY <1>0, <1>2 DEF Types, Tickets, Moves
  <2>2. \A b \in Attempt : stage'[b] # "none" => ticket'[b] > 0
    BY <1>0, <2>1 DEF InTurn
  <2>3. ASSUME NEW b \in Attempt, NEW c \in Attempt, b < c, stage'[c] # "none"
        PROVE  stage'[b] # "none" /\ ticket'[b] < ticket'[c]
    <3>1. b # c /\ (c # a => b # a)
      BY <1>0, <2>1, <2>3 DEF InTurn, Attempt
    <3>2. CASE c = a
      BY <1>0, <2>1, <2>3, <3>1, <3>2
    <3>3. CASE c # a
      BY <1>0, <2>1, <2>3, <3>1, <3>3 DEF InTurn
    <3> QED BY <3>2, <3>3
  <2>4. ASSUME NEW b \in Attempt, stage'[b] # "none", ticket'[b] # generation'
        PROVE  b < a
    <3>1. b # a /\ stage[b] # "none"
      BY <2>1, <2>4
    <3>2. ~(a < b)
      BY <1>0, <3>1 DEF InTurn
    <3> QED BY <3>1, <3>2 DEF Attempt
  <2> QED BY <2>1, <2>2, <2>3, <2>4
<1>8. Showing'
  <2>1. current' # 0 => current # a
    BY <1>0 DEF Reference, Owned
  <2>2. role = "owner" => \A b \in Attempt : b > a => kind'[b] = "none"
    <3> SUFFICES ASSUME role = "owner", NEW b \in Attempt, b > a PROVE kind'[b] = "none"
      OBVIOUS
    <3>1. b # a /\ a < b /\ a \in Nat /\ b \in Nat
      BY DEF Attempt
    <3>2. stage[b] = "none"
      BY <1>0, <3>1 DEF InTurn
    <3> QED BY <1>0, <1>k, <3>1, <3>2 DEF Sides
  <2>3. role = "owner" => \A b \in Attempt : b > panel'.by => kind'[b] \in {"none", "signaled"}
    BY <1>0, <1>1, <1>k, <1>p, <2>2 DEF Showing, Shows, Owners, Receiving
  <2>4. panel'.status \in {"creating", "serving"} =>
          \/ panel' = panel /\ panel'.by # a
          \/ panel'.status = "creating" /\ panel'.by = a /\ kind'[a] = "link"
    <3>1. panel.status \in {"creating", "serving"} => panel.by # a
      BY <1>0 DEF Showing, Sides
    <3> QED BY <1>k, <1>p, <3>1 DEF Shows
  <2> QED BY <1>0, <1>2, <1>k, <2>1, <2>3, <2>4 DEF Types, Showing, Moves, Owned
<1>9. AreHeld'
  BY <1>0, <1>2, SameHolders DEF Moves
<1> QED BY <1>2, <1>3, <1>4, <1>5, <1>6, <1>7, <1>8, <1>9 DEF PageInv

LEMMA StartsLookup ==
  ASSUME PageInv, NEW a \in Attempt, StartGet(a)
  PROVE  PageInv'
<1>0. /\ Types /\ Tickets /\ Sides /\ Disposals /\ Reference /\ InTurn /\ Showing /\ AreHeld
      /\ stage[a] = "none" /\ role = "receiver"
      /\ kind' = [kind EXCEPT ![a] = "get"] /\ stage' = [stage EXCEPT ![a] = "lookup"]
      /\ panel' = Shows("resolving", a)
      /\ UNCHANGED <<role, mounted, generation, current, ticket, parts, disposal, room, transfer>>
  BY DEF PageInv, StartGet, Starts
<1>1. Moves(a, "lookup") /\ stage' \in [Attempt -> Stage]
  BY <1>0, MovesStage DEF Stage, Building
<1>2. Types'
  BY <1>0, <1>1 DEF Types, Stage, Status, Shows, Receiving
<1>3. Tickets'
  BY <1>0, <1>1, SameTickets DEF Moves, Early
<1>4. Sides' /\ Disposals'
  BY <1>0, <1>1 DEF Types, Sides, Disposals, Owners, Receiving, Moves, Busy, Owned, Leaving
<1>5. Reference' /\ InTurn' /\ Showing'
  BY <1>0, <1>1 DEF Types, Tickets, Early, Reference, InTurn, Showing, Moves, Newest, Shows, Owned
<1>6. AreHeld'
  BY <1>0, <1>1, SameHolders DEF Moves
<1> QED BY <1>2, <1>3, <1>4, <1>5, <1>6 DEF PageInv

(* A lookup that finds a session takes the next generation.                  *)
LEMMA LookupFindsKeeps ==
  ASSUME PageInv, NEW a \in Attempt, LookupFinds(a)
  PROVE  PageInv'
<1>0. /\ Types /\ Tickets /\ Sides /\ Disposals /\ Reference /\ InTurn /\ Showing /\ AreHeld
      /\ Takes(a) /\ stage[a] \in {"lookup", "dashed"} /\ panel' = Shows("downloading", a)
      /\ UNCHANGED <<role, mounted, current, kind, parts, disposal, room, transfer>>
  BY DEF PageInv, LookupFinds
<1>1. role = "receiver" /\ kind[a] = "get"
  BY <1>0 DEF Sides, Receiving
<1>2. /\ Tickets' /\ Moves(a, "ice") /\ stage' \in [Attempt -> Stage]
      /\ generation' = generation + 1 /\ generation' \in Nat /\ ticket' \in [Attempt -> Nat]
      /\ ticket'[a] = generation + 1 /\ \A b \in Attempt : b # a => ticket'[b] = ticket[b]
  BY <1>0, TakesNext DEF Early
<1>3. Types'
  BY <1>0, <1>2 DEF Types, Stage, Status, Shows
<1>4. Sides' /\ Disposals'
  BY <1>0, <1>1, <1>2 DEF Types, Sides, Disposals, Owners, Receiving, Moves, Busy, Owned, Leaving
<1>5. Reference'
  BY <1>0, <1>2 DEF Types, Tickets, Reference, Moves, Owned, Newest
<1>6. InTurn' /\ Showing'
  BY <1>0, <1>1 DEF InTurn, Showing, Shows
<1>7. AreHeld'
  BY <1>0, <1>2, SameHolders DEF Moves
<1> QED BY <1>2, <1>3, <1>4, <1>5, <1>6, <1>7 DEF PageInv

LEMMA LookupFindsNothingKeeps ==
  ASSUME PageInv, NEW a \in Attempt, LookupFindsNothing(a)
  PROVE  PageInv'
<1>0. /\ Types /\ Tickets /\ Sides /\ Disposals /\ Reference /\ InTurn /\ Showing /\ AreHeld
      /\ stage[a] \in {"lookup", "dashed"}
      /\ panel' = panel \/ panel' = Shows("error", a)
      /\ UNCHANGED <<role, mounted, generation, current, kind, ticket, parts, disposal, room, transfer>>
  BY DEF PageInv, LookupFindsNothing
<1>1. role = "receiver" /\ kind[a] = "get" /\ ticket[a] = 0
  BY <1>0 DEF Sides, Receiving, Tickets, Early
<1>2. PICK s \in {"dashed", "over"} : Moves(a, s) /\ stage' \in [Attempt -> Stage]
  BY <1>0, MovesStage DEF LookupFindsNothing, Stage, Building
<1>3. Types'
  BY <1>0, <1>2 DEF Types, Stage, Status, Shows
<1>4. Tickets'
  BY <1>0, <1>2, SameTickets DEF Moves, Early
<1>5. Sides' /\ Disposals'
  BY <1>0, <1>1, <1>2 DEF Types, Sides, Disposals, Owners, Receiving, Moves, Busy, Owned, Leaving
<1>6. Reference' /\ InTurn' /\ Showing'
  BY <1>0, <1>1, <1>2 DEF Types, Reference, InTurn, Showing, Moves, Newest, Shows, Owned
<1>7. AreHeld'
  BY <1>0, <1>2, SameHolders DEF Moves
<1> QED BY <1>3, <1>4, <1>5, <1>6, <1>7 DEF PageInv

-----------------------------------------------------------------------------
(* The runtime before is disposed, by the newest attempt only.                *)

LEMMA OtherTickets ==
  ASSUME Types, Tickets, NEW a \in Attempt, NEW b \in Attempt, Newest(a), Newest(b), ticket[a] > 0
  PROVE  a = b
  BY DEF Types, Tickets, Newest

(* A disposal by d that begins: of runtime r, or of none.                    *)
LEMMA DisposalBegins ==
  ASSUME Types, NEW d \in Holder, NEW r \in {0} \cup Attempt, disposal' = Disposing(d, r)
  PROVE  /\ disposal' \in [Holder -> [of : {0} \cup Attempt, todo : Todos]]
         /\ \A e \in Holder : e # d => disposal'[e] = disposal[e]
         /\ r = 0 => disposal'[d].todo = <<>>
         /\ r # 0 => disposal'[d].of = r /\ Left(disposal'[d].todo) = {"client", "engine", "transport"}
         /\ Busy(d)' => disposal'[d].of = r /\ r # 0
<1> DEFINE new == [of |-> r, todo |-> IF r = 0 THEN <<>> ELSE All]
<1>1. disposal' = [disposal EXCEPT ![d] = new]
  BY DEF Disposing
<1>2. new \in [of : {0} \cup Attempt, todo : Todos]
  BY AllLeft DEF Todos
<1>3. disposal \in [Holder -> [of : {0} \cup Attempt, todo : Todos]]
  BY DEF Types
<1>4. new.of = r /\ (r = 0 => new.todo = <<>>) /\ (r # 0 => new.todo = All)
  OBVIOUS
<1> HIDE DEF new
<1>5. disposal'[d] = new
  BY <1>1, <1>3
<1>6. disposal' \in [Holder -> [of : {0} \cup Attempt, todo : Todos]]
  BY <1>1, <1>2, <1>3
<1>7. \A e \in Holder : e # d => disposal'[e] = disposal[e]
  BY <1>1, <1>3
<1> QED BY <1>4, <1>5, <1>6, <1>7, AllLeft DEF Busy

LEMMA IceKnownKeeps ==
  ASSUME PageInv, NEW a \in Attempt, IceKnown(a)
  PROVE  PageInv'
<1>0. /\ Types /\ Tickets /\ Sides /\ Disposals /\ Reference /\ InTurn /\ Showing /\ AreHeld
      /\ stage[a] = "ice" /\ a \in Holder /\ ticket[a] > 0
      /\ UNCHANGED <<role, mounted, generation, kind, ticket, parts, room, transfer, panel>>
  BY DEF PageInv, IceKnown, Holder, Tickets, Early
<1>1. CASE ~Newest(a) /\ stage' = [stage EXCEPT ![a] = "over"] /\ UNCHANGED <<current, disposal>>
  <2>1. Moves(a, "over") /\ stage' \in [Attempt -> Stage]
    BY <1>0, <1>1, MovesStage DEF Stage
  <2>2. Types' /\ Tickets'
    BY <1>0, <1>1, <2>1, SameTickets DEF Types, Moves, Stage, Early
  <2>3. Sides' /\ Disposals'
    BY <1>0, <1>1, <2>1 DEF Types, Sides, Disposals, Moves, Busy, Owned, Leaving
  <2>4. Reference'
    <3>1. \A b \in Attempt : Newest(b) => b # a
      BY <1>1
    <3> QED BY <1>0, <1>1, <2>1, <3>1 DEF Reference, Moves, Newest, Owned
  <2>5. InTurn' /\ Showing'
    BY <1>0, <1>1, <2>1 DEF Types, InTurn, Showing, Moves, Newest, Owned
  <2>6. AreHeld'
    BY <1>0, <1>1, <2>1, SameHolders DEF Moves
  <2> QED BY <2>2, <2>3, <2>4, <2>5, <2>6 DEF PageInv
<1>2. CASE Newest(a) /\ stage' = [stage EXCEPT ![a] = "replacing"] /\ disposal' = Disposing(a, current) /\ current' = 0
  <2>1. Moves(a, "replacing") /\ stage' \in [Attempt -> Stage]
    BY <1>0, <1>2, MovesStage DEF Stage, Building
  <2>2. /\ disposal' \in [Holder -> [of : {0} \cup Attempt, todo : Todos]] /\ ~Busy(a)
        /\ \A d \in Holder : d # a => disposal'[d] = disposal[d]
        /\ current # 0 => disposal'[a].of = current /\ Left(disposal'[a].todo) = {"client", "engine", "transport"}
        /\ Busy(a)' => disposal'[a].of = current /\ current # 0
    BY <1>0, <1>2, DisposalBegins DEF Types, Disposals
  <2>3. current # a
    BY <1>0 DEF Reference, Owned, Attempt
  <2>4. Types' /\ Tickets'
    BY <1>0, <1>2, <2>1, <2>2, SameTickets DEF Types, Moves, Stage, Early
  <2>5. Sides'
    BY <1>0, <2>1 DEF Types, Sides, Moves
  <2>6. Disposals'
    <3>1. mounted' => ~Busy(Closing)'
      BY <1>0, <2>2 DEF Disposals, Busy, Closing, Attempt, Holder
    <3>2. \A b \in Attempt : Busy(b)' => stage'[b] \in {"replacing", "undoing", "failing"}
      BY <1>0, <2>1, <2>2 DEF Disposals, Busy, Moves, Holder
    <3>3. ASSUME NEW d \in Holder, Busy(d)'
          PROVE  disposal'[d].of \in Attempt /\ disposal'[d].of # 0 /\ stage'[disposal'[d].of] \in Owned \cup Leaving
      <4>1. CASE d = a
        BY <1>0, <2>1, <2>2, <2>3, <3>3, <4>1 DEF Types, Reference, Moves
      <4>2. CASE d # a
        <5>1. disposal[d].of \in Attempt /\ stage[disposal[d].of] \in Owned \cup Leaving
          BY <1>0, <2>2, <3>3, <4>2 DEF Disposals, Busy
        <5>2. disposal[d].of # a
          BY <1>0, <5>1 DEF Owned, Leaving
        <5> QED BY <2>1, <2>2, <4>2, <5>1, <5>2 DEF Moves, Attempt
      <4> QED BY <4>1, <4>2
    <3> QED BY <1>2, <3>1, <3>2, <3>3 DEF Disposals
  <2>7. Reference'
    <3>1. \A b \in Attempt : Newest(b) /\ ticket[b] > 0 => b = a
      BY <1>0, <1>2, OtherTickets
    <3> QED BY <1>0, <1>2, <2>1, <3>1 DEF Reference, Moves, Newest, Owned
  <2>8. InTurn' /\ Showing'
    BY <1>0, <1>2, <2>1 DEF Types, InTurn, Showing, Moves, Newest, Owned
  <2>9. AreHeld'
    <3> SUFFICES ASSUME NEW b \in Attempt PROVE Held(b)'
      BY DEF AreHeld
    <3>1. Held(b)
      BY <1>0 DEF AreHeld
    <3>2. CASE current = b
      <4>1. parts'[b] \subseteq {"client", "engine", "transport"} /\ b # 0
        BY <1>0 DEF Types, Attempt
      <4> QED BY <1>0, <2>2, <3>2, <4>1 DEF Held
    <3>3. CASE stage[b] = "preparing"
      BY <1>0, <2>1, <3>3 DEF Held, Moves
    <3>4. CASE \A part \in parts[b] : \E d \in Holder : disposal[d].of = b /\ part \in Left(disposal[d].todo)
      <4>1. ASSUME NEW part \in parts[b]
            PROVE  \E d \in Holder : disposal'[d].of = b /\ part \in Left(disposal'[d].todo)
        <5>1. PICK d \in Holder : disposal[d].of = b /\ part \in Left(disposal[d].todo)
          BY <3>4
        <5>2. d # a
          BY <2>2, <5>1, TodoSteps DEF Busy, Todos
        <5> QED BY <2>2, <5>1, <5>2
      <4> QED BY <1>0, <4>1 DEF Held
    <3> QED BY <3>1, <3>2, <3>3, <3>4 DEF Held
  <2> QED BY <2>4, <2>5, <2>6, <2>7, <2>8, <2>9 DEF PageInv
<1> QED BY <1>1, <1>2 DEF IceKnown, Replaces

(* The attempt that waited for it creates its first parts.                   *)
LEMMA ReplacedKeeps ==
  ASSUME PageInv, NEW a \in Attempt, Replaced(a)
  PROVE  PageInv'
<1>0. /\ Types /\ Tickets /\ Sides /\ Disposals /\ Reference /\ InTurn /\ Showing /\ AreHeld
      /\ stage[a] = "replacing" /\ ~Busy(a) /\ ticket[a] > 0
      /\ UNCHANGED <<role, mounted, generation, current, kind, ticket, disposal, room, transfer, panel>>
  BY DEF PageInv, Replaced, Tickets, Early, Busy
<1>1. PICK s \in {"preparing", "over"} :
        /\ Moves(a, s) /\ stage' \in [Attempt -> Stage]
        /\ s = "preparing" => Newest(a) /\ parts' = [parts EXCEPT ![a] = FirstParts]
        /\ s = "over" => ~Newest(a) /\ parts' = parts
  BY <1>0, MovesStage DEF Replaced, Stage, Building
<1>2. parts' \in [Attempt -> SUBSET {"client", "engine", "transport"}] /\ \A b \in Attempt : b # a => parts'[b] = parts[b]
  <2>1. CASE s = "preparing"
    BY <1>0, <1>1, <2>1 DEF Types, FirstParts
  <2>2. CASE s = "over"
    BY <1>0, <1>1, <2>2 DEF Types
  <2> QED BY <2>1, <2>2
<1>3. Types' /\ Tickets'
  BY <1>0, <1>1, <1>2, SameTickets DEF Types, Moves, Stage, Early
<1>4. Sides' /\ InTurn' /\ Showing'
  BY <1>0, <1>1 DEF Types, Sides, InTurn, Showing, Moves, Newest, Owned
<1>5. Disposals'
  BY <1>0, <1>1 DEF Disposals, Busy, Moves, Owned, Leaving
<1>6. Reference'
  <2>1. \A b \in Attempt : Newest(b) /\ ticket[b] > 0 => b # a \/ s = "preparing"
    BY <1>1
  <2>2. s = "preparing" => current = 0
    BY <1>0, <1>1 DEF Reference
  <2> QED BY <1>0, <1>1, <2>1, <2>2 DEF Reference, Moves, Newest, Owned
<1>7. AreHeld'
  <2> SUFFICES ASSUME NEW b \in Attempt PROVE Held(b)'
    BY DEF AreHeld
  <2>1. Held(b)
    BY <1>0 DEF AreHeld
  <2> QED BY <1>0, <1>1, <1>2, <2>1 DEF Held, Moves
<1> QED BY <1>3, <1>4, <1>5, <1>6, <1>7 DEF PageInv

(* The newest attempt completes its runtime, and the page refers to it.       *)
LEMMA BuiltKeeps ==
  ASSUME PageInv, NEW a \in Attempt, stage[a] = "preparing", Newest(a),
         stage' = [stage EXCEPT ![a] = "connecting"],
         parts' = [parts EXCEPT ![a] = {"client", "engine", "transport"}], current' = a,
         UNCHANGED <<role, mounted, generation, kind, ticket, disposal, room, transfer, panel>>
  PROVE  PageInv'
<1>0. /\ Types /\ Tickets /\ Sides /\ Disposals /\ Reference /\ InTurn /\ Showing /\ AreHeld
      /\ ticket[a] > 0 /\ a # 0
  BY DEF PageInv, Tickets, Early, Attempt
<1>1. Moves(a, "connecting") /\ stage' \in [Attempt -> Stage]
  BY <1>0, MovesStage DEF Stage, Building
<1>2. parts' \in [Attempt -> SUBSET {"client", "engine", "transport"}] /\ \A b \in Attempt : b # a => parts'[b] = parts[b]
  BY <1>0 DEF Types
<1>3. current = 0
  BY <1>0 DEF Reference
<1>4. \A b \in Attempt : Newest(b) /\ ticket[b] > 0 => b = a
  BY <1>0, OtherTickets
<1>5. Types' /\ Tickets'
  BY <1>0, <1>1, <1>2, SameTickets DEF Types, Moves, Stage, Early
<1>6. Sides' /\ InTurn' /\ Showing'
  BY <1>0, <1>1 DEF Types, Sides, InTurn, Showing, Moves, Newest
<1>7. Disposals'
  BY <1>0, <1>1 DEF Disposals, Busy, Moves, Owned, Leaving
<1>8. Reference'
  BY <1>0, <1>1, <1>4 DEF Reference, Moves, Newest, Owned
<1>9. AreHeld'
  <2> SUFFICES ASSUME NEW b \in Attempt PROVE Held(b)'
    BY DEF AreHeld
  <2>1. Held(b)
    BY <1>0 DEF AreHeld
  <2>2. b = a \/ current # b
    BY <1>3 DEF Attempt
  <2> QED BY <1>0, <1>1, <1>2, <2>1, <2>2 DEF Held, Moves
<1> QED BY <1>5, <1>6, <1>7, <1>8, <1>9 DEF PageInv

(* An attempt that is outdated, or that fails, gives its runtime up.          *)
LEMMA GivesUpKeeps ==
  ASSUME PageInv, NEW a \in Attempt, NEW outcome \in {"undoing", "failing"}, GivesUp(a, outcome),
         stage[a] \in {"preparing", "connecting", "registering", "drawing"},
         outcome = "undoing" => ~Newest(a),
         UNCHANGED <<role, mounted, generation, kind, ticket, parts, room, transfer, panel>>
  PROVE  PageInv'
<1>0. /\ Types /\ Tickets /\ Sides /\ Disposals /\ Reference /\ InTurn /\ Showing /\ AreHeld
      /\ a # 0 /\ a \in Holder /\ a # Closing /\ ~Busy(a) /\ transfer[a] = "none"
      /\ disposal' = Disposing(a, a)
  BY DEF PageInv, Disposals, Attempt, Holder, Closing, GivesUp, Sides
<1>1. Moves(a, outcome) /\ stage' \in [Attempt -> Stage]
  BY <1>0, MovesStage DEF Stage, Building, GivesUp
<1>2. /\ disposal' \in [Holder -> [of : {0} \cup Attempt, todo : Todos]]
      /\ \A d \in Holder : d # a => disposal'[d] = disposal[d]
      /\ disposal'[a].of = a /\ Left(disposal'[a].todo) = {"client", "engine", "transport"}
  BY <1>0, DisposalBegins
<1>3. /\ current' \in {0} \cup Attempt /\ current' # a
      /\ current' # 0 => current' = current
      /\ \A b \in Attempt : b # a /\ current = b => current' = b
      /\ current = 0 => current' = 0
  BY <1>0 DEF GivesUp, Forgotten, Types
<1>4. Types' /\ Tickets'
  BY <1>0, <1>1, <1>2, <1>3, SameTickets DEF Types, Moves, Stage, Early
<1>5. Sides'
  BY <1>0, <1>1 DEF Types, Sides, Moves
<1>6. InTurn'
  BY <1>0, <1>1 DEF Types, InTurn, Moves, Newest
<1>7. Disposals'
  <2>1. mounted' => ~Busy(Closing)'
    BY <1>0, <1>2 DEF Disposals, Busy, Holder
  <2>2. \A b \in Attempt : Busy(b)' => stage'[b] \in {"replacing", "undoing", "failing"}
    BY <1>0, <1>1, <1>2 DEF Disposals, Busy, Moves, Holder
  <2>3. ASSUME NEW d \in Holder, Busy(d)'
        PROVE  /\ disposal'[d].of \in Attempt /\ disposal'[d].of # current'
               /\ stage'[disposal'[d].of] \in Owned \cup Leaving
    <3>1. CASE d = a
      BY <1>0, <1>1, <1>2, <1>3, <3>1 DEF Moves, Leaving
    <3>2. CASE d # a
      <4>1. /\ disposal'[d] = disposal[d]
            /\ disposal[d].of \in Attempt /\ stage[disposal[d].of] \in Owned \cup Leaving /\ disposal[d].of # current
        BY <1>0, <1>2, <2>3, <3>2 DEF Disposals, Busy
      <4>2. stage'[disposal[d].of] \in Owned \cup Leaving
        BY <1>1, <4>1 DEF Moves, Leaving
      <4>3. disposal[d].of # current'
        BY <1>3, <4>1 DEF Attempt
      <4> QED BY <4>1, <4>2, <4>3
    <3> QED BY <3>1, <3>2
  <2> QED BY <2>1, <2>2, <2>3 DEF Disposals
<1>8. Reference'
  <2>1. current' # 0 =>
          /\ stage'[current'] \in Owned
          /\ Newest(current') \/ \E b \in Attempt : Newest(b) /\ stage'[b] = "ice"
    <3> SUFFICES ASSUME current' # 0
                 PROVE  /\ stage'[current'] \in Owned
                        /\ Newest(current') \/ \E b \in Attempt : Newest(b) /\ stage'[b] = "ice"
      OBVIOUS
    <3>1. current' = current /\ current # a /\ current # 0 /\ current \in Attempt
      BY <1>0, <1>3 DEF Types
    <3>2. stage'[current'] \in Owned
      BY <1>0, <1>1, <3>1 DEF Reference, Moves
    <3>3. Newest(current) \/ \E b \in Attempt : Newest(b) /\ stage[b] = "ice"
      BY <1>0, <3>1 DEF Reference
    <3>4. \A b \in Attempt : stage[b] = "ice" => stage'[b] = "ice"
      BY <1>1 DEF Moves
    <3> QED BY <3>1, <3>2, <3>3, <3>4
  <2>2. ASSUME NEW b \in Attempt, Newest(b), ticket[b] > 0
        PROVE  /\ stage'[b] \in {"replacing", "preparing"} => current' = 0
               /\ stage'[b] \in Owned => current' = b
               /\ stage'[b] \notin {"undoing", "over"}
    <3>1. CASE b = a
      BY <1>1, <2>2, <3>1 DEF Moves, Owned
    <3>2. CASE b # a
      BY <1>0, <1>1, <1>3, <2>2, <3>2 DEF Reference, Moves
    <3> QED BY <3>1, <3>2
  <2> QED BY <2>1, <2>2 DEF Reference, Newest
<1>9. Showing'
  BY <1>0, <1>1, <1>3 DEF Types, Showing, Moves
<1>10. AreHeld'
  <2> SUFFICES ASSUME NEW b \in Attempt PROVE Held(b)'
    BY DEF AreHeld
  <2>1. Held(b)
    BY <1>0 DEF AreHeld
  <2>2. CASE b = a
    <3>1. parts'[a] \subseteq {"client", "engine", "transport"}
      BY <1>0 DEF Types
    <3> QED BY <1>0, <1>2, <2>2, <3>1 DEF Held
  <2>3. CASE b # a /\ (current = b \/ stage[b] = "preparing")
    BY <1>1, <1>3, <2>3 DEF Held, Moves
  <2>4. CASE b # a /\ \A part \in parts[b] : \E d \in Holder : disposal[d].of = b /\ part \in Left(disposal[d].todo)
    <3>1. ASSUME NEW part \in parts[b]
          PROVE  \E d \in Holder : disposal'[d].of = b /\ part \in Left(disposal'[d].todo)
      <4>1. PICK d \in Holder : disposal[d].of = b /\ part \in Left(disposal[d].todo)
        BY <2>4
      <4>2. d # a
        BY <1>0, <4>1, TodoSteps DEF Busy, Todos
      <4> QED BY <1>2, <4>1, <4>2
    <3> QED BY <1>0, <3>1 DEF Held
  <2> QED BY <2>1, <2>2, <2>3, <2>4 DEF Held
<1> QED BY <1>4, <1>5, <1>6, <1>7, <1>8, <1>9, <1>10 DEF PageInv

LEMMA PreparedKeeps ==
  ASSUME PageInv, NEW a \in Attempt, Prepared(a) \/ Throws(a)
  PROVE  PageInv'
<1>1. CASE Throws(a)
  BY <1>1, GivesUpKeeps DEF Throws
<1>2. CASE Prepared(a) /\ ~Builds(a) /\ GivesUp(a, "undoing") /\ UNCHANGED parts
  BY <1>2, GivesUpKeeps DEF Prepared, Builds
<1>3. CASE /\ Prepared(a) /\ Builds(a) /\ UNCHANGED disposal /\ stage' = [stage EXCEPT ![a] = "connecting"]
           /\ parts' = [parts EXCEPT ![a] = {"client", "engine", "transport"}] /\ current' = a
  BY <1>3, BuiltKeeps DEF Prepared, Builds
<1> QED BY <1>1, <1>2, <1>3 DEF Prepared

(* The referenced runtime goes on: connected, registered, drawn.              *)
LEMMA GoesOnKeeps ==
  ASSUME PageInv, NEW a \in Attempt, NEW s \in {"registering", "drawing", "serving", "joined"},
         stage[a] \in {"connecting", "registering", "drawing"}, IsCurrentRuntime(a),
         stage' = [stage EXCEPT ![a] = s],
         s = "joined" => kind[a] \in Receiving,
         room' \in [Attempt \cup {Remote} -> {"none", "open", "gone"}],
         role = "owner" => room'[a] = "open",
         IF s = "serving" /\ kind[a] = "link" THEN panel' = Shows("serving", a) ELSE panel' = panel,
         UNCHANGED <<role, mounted, generation, current, kind, ticket, parts, disposal, transfer>>
  PROVE  PageInv'
<1>0. /\ Types /\ Tickets /\ Sides /\ Disposals /\ Reference /\ InTurn /\ Showing /\ AreHeld
      /\ current = a /\ Newest(a) /\ a # 0 /\ ticket[a] > 0 /\ transfer[a] = "none" /\ stage[a] # "preparing"
  BY DEF PageInv, IsCurrentRuntime, Attempt, Tickets, Early, Sides
<1>1. Moves(a, s) /\ stage' \in [Attempt -> Stage]
  BY <1>0, MovesStage DEF Stage, Building
<1>2. panel' \in [status : Status, by : {0} \cup Attempt]
  BY <1>0 DEF Types, Shows, Status
<1>3. Types' /\ Tickets'
  BY <1>0, <1>1, <1>2, SameTickets DEF Types, Moves, Stage, Early
<1>4. Sides'
  BY <1>0, <1>1 DEF Types, Sides, Moves
<1>5. Disposals'
  BY <1>0, <1>1 DEF Disposals, Busy, Moves, Owned, Leaving
<1>6. Reference'
  BY <1>0, <1>1 DEF Reference, Moves, Newest, Owned
<1>7. InTurn'
  BY <1>0, <1>1 DEF Types, InTurn, Moves, Newest
<1>8. Showing'
  <2>1. role = "owner" => \A b \in Attempt : b > a => kind[b] = "none"
    <3> SUFFICES ASSUME role = "owner", NEW b \in Attempt, b > a, stage[b] # "none" PROVE FALSE
      BY <1>0 DEF Sides
    <3>1. a < b /\ a \in Nat /\ b \in Nat
      BY DEF Attempt
    <3>2. ticket[a] < ticket[b]
      BY <1>0, <3>1 DEF InTurn
    <3>3. ticket[b] <= generation /\ ticket[a] = generation /\ ticket[b] \in Nat /\ generation \in Nat
      BY <1>0 DEF Tickets, Newest, Types
    <3> QED BY <3>2, <3>3
  <2>2. role' = "owner" /\ current' # 0 /\ stage'[current'] \in {"registering", "drawing", "serving"} =>
          room'[current'] = "open"
    BY <1>0
  <2>3. CASE s = "serving" /\ kind[a] = "link"
    <3>1. panel'.status = "serving" /\ panel'.by = a /\ stage'[a] = "serving"
      BY <1>1, <2>3 DEF Shows, Moves
    <3>2. role' = "owner" => \A b \in Attempt : b > panel'.by => kind'[b] \in {"none", "signaled"}
      BY <1>0, <2>1, <3>1
    <3> QED BY <1>0, <2>2, <2>3, <3>1, <3>2 DEF Showing
  <2>4. CASE ~(s = "serving" /\ kind[a] = "link")
    <3>1. panel' = panel
      BY <2>4
    <3>2. panel.status = "creating" => stage'[panel.by] \notin {"none", "serving", "failed"}
      <4>1. CASE panel.by = a
        BY <1>0, <1>1, <2>4, <4>1 DEF Showing, Moves
      <4>2. CASE panel.by # a
        BY <1>0, <1>1, <4>2 DEF Showing, Moves
      <4> QED BY <4>1, <4>2
    <3>3. panel.status = "serving" => stage'[panel.by] = "serving"
      BY <1>0, <1>1 DEF Showing, Moves
    <3> QED BY <1>0, <2>2, <3>1, <3>2, <3>3 DEF Showing
  <2> QED BY <2>3, <2>4
<1>9. AreHeld'
  BY <1>0, <1>1, SameHolders DEF Moves
<1> QED BY <1>3, <1>4, <1>5, <1>6, <1>7, <1>8, <1>9 DEF PageInv

LEMMA OutdatedReference ==
  ASSUME PageInv, NEW a \in Attempt, ~IsCurrentRuntime(a), stage[a] \in {"connecting", "registering", "drawing"}
  PROVE  ~Newest(a)
  BY DEF PageInv, Tickets, Early, Reference, Owned, IsCurrentRuntime

LEMMA ConnectedKeeps ==
  ASSUME PageInv, NEW a \in Attempt, Connected(a)
  PROVE  PageInv'
<1>0. stage[a] = "connecting" /\ UNCHANGED <<role, mounted, generation, kind, ticket, parts, transfer, panel>>
  BY DEF Connected
<1>1. CASE IsCurrentRuntime(a)
  <2>1. /\ stage' = [stage EXCEPT ![a] = AfterConnect(a)] /\ UNCHANGED <<current, disposal>>
        /\ room' = IF role = "owner" THEN [room EXCEPT ![a] = "open"] ELSE room
    BY <1>1 DEF Connected
  <2>2. room \in [Attempt \cup {Remote} -> {"none", "open", "gone"}]
    BY DEF PageInv, Types
  <2>3. room' \in [Attempt \cup {Remote} -> {"none", "open", "gone"}] /\ (role = "owner" => room'[a] = "open")
    BY <2>1, <2>2
  <2>4. AfterConnect(a) \in {"registering", "drawing", "joined"}
    BY DEF AfterConnect
  <2>5. AfterConnect(a) = "joined" => kind[a] \in Receiving
    <3>1. kind[a] # "none" /\ kind[a] \in {"none"} \cup Owners \cup Receiving
      BY <1>0 DEF PageInv, Types, Sides
    <3> QED BY <3>1 DEF AfterConnect, Owners
  <2> QED BY <1>0, <1>1, <2>1, <2>3, <2>4, <2>5, GoesOnKeeps
<1>2. CASE ~IsCurrentRuntime(a)
  <2>1. GivesUp(a, "undoing") /\ UNCHANGED room
    BY <1>2 DEF Connected
  <2> QED BY <1>0, <1>2, <2>1, OutdatedReference, GivesUpKeeps
<1> QED BY <1>1, <1>2

LEMMA OwnersAttempt ==
  ASSUME PageInv, NEW a \in Attempt, stage[a] \in {"registering", "drawing"}, IsCurrentRuntime(a), role = "owner"
  PROVE  room[a] = "open"
  BY DEF PageInv, Showing, IsCurrentRuntime, Attempt

LEMMA RegisteredKeeps ==
  ASSUME PageInv, NEW a \in Attempt, Registered(a)
  PROVE  PageInv'
<1>0. stage[a] = "registering" /\ UNCHANGED <<role, mounted, generation, kind, ticket, parts, room, transfer, panel>>
  BY DEF Registered
<1>1. CASE IsCurrentRuntime(a)
  <2>1. stage' = [stage EXCEPT ![a] = "drawing"] /\ UNCHANGED <<current, disposal>>
    BY <1>1 DEF Registered
  <2>2. room \in [Attempt \cup {Remote} -> {"none", "open", "gone"}]
    BY DEF PageInv, Types
  <2>3. room' \in [Attempt \cup {Remote} -> {"none", "open", "gone"}] /\ (role = "owner" => room'[a] = "open")
    BY <1>0, <1>1, <2>2, OwnersAttempt
  <2> QED BY <1>0, <1>1, <2>1, <2>3, GoesOnKeeps
<1>2. CASE ~IsCurrentRuntime(a)
  <2>1. GivesUp(a, "undoing")
    BY <1>2 DEF Registered
  <2> QED BY <1>0, <1>2, <2>1, OutdatedReference, GivesUpKeeps
<1> QED BY <1>1, <1>2

LEMMA DrawnKeeps ==
  ASSUME PageInv, NEW a \in Attempt, Drawn(a)
  PROVE  PageInv'
<1>0. stage[a] = "drawing" /\ UNCHANGED <<role, mounted, generation, kind, ticket, parts, room, transfer>>
  BY DEF Drawn
<1>1. CASE IsCurrentRuntime(a)
  <2>1. /\ stage' = [stage EXCEPT ![a] = "serving"] /\ UNCHANGED <<current, disposal>>
        /\ panel' = IF kind[a] = "link" THEN Shows("serving", a) ELSE panel
    BY <1>1 DEF Drawn, Serves
  <2>2. room \in [Attempt \cup {Remote} -> {"none", "open", "gone"}]
    BY DEF PageInv, Types
  <2>3. room' \in [Attempt \cup {Remote} -> {"none", "open", "gone"}] /\ (role = "owner" => room'[a] = "open")
    BY <1>0, <1>1, <2>2, OwnersAttempt
  <2> QED BY <1>0, <1>1, <2>1, <2>3, GoesOnKeeps
<1>2. CASE ~IsCurrentRuntime(a)
  <2>1. GivesUp(a, "undoing") /\ UNCHANGED panel
    BY <1>2 DEF Drawn, Serves
  <2> QED BY <1>0, <1>2, <2>1, OutdatedReference, GivesUpKeeps
<1> QED BY <1>1, <1>2

(* The attempt whose runtime is closed reports its error, if it is the newest. *)
LEMMA GivenUpKeeps ==
  ASSUME PageInv, NEW a \in Attempt, GivenUp(a)
  PROVE  PageInv'
<1>0. /\ Types /\ Tickets /\ Sides /\ Disposals /\ Reference /\ InTurn /\ Showing /\ AreHeld
      /\ stage[a] \in {"undoing", "failing"} /\ ~Busy(a) /\ a # 0 /\ ticket[a] > 0 /\ transfer[a] = "none"
      /\ UNCHANGED <<role, mounted, generation, current, kind, ticket, parts, disposal, room, transfer>>
  BY DEF PageInv, GivenUp, Busy, Attempt, Tickets, Early, Sides
<1>1. PICK s \in {"over", "failed"} :
        /\ Moves(a, s) /\ stage' \in [Attempt -> Stage]
        /\ s = "over" => ~Newest(a) \/ stage[a] = "undoing"
        /\ s = "failed" => Newest(a) /\ stage[a] = "failing"
        /\ panel' = IF s = "failed" /\ kind[a] = "link" THEN Shows("error", a) ELSE panel
  <2>1. CASE stage[a] = "failing" /\ Newest(a)
    BY <1>0, <2>1, MovesStage DEF GivenUp, Stage
  <2>2. CASE ~(stage[a] = "failing" /\ Newest(a))
    BY <1>0, <2>2, MovesStage DEF GivenUp, Stage
  <2> QED BY <2>1, <2>2
<1>2. s = "over" => ~Newest(a)
  BY <1>0, <1>1 DEF Reference
<1>3. Types'
  <2>1. panel' \in [status : Status, by : {0} \cup Attempt]
    BY <1>0, <1>1 DEF Types, Shows, Status
  <2> QED BY <1>0, <1>1, <2>1 DEF Types, Stage
<1>4. Tickets' /\ Sides'
  BY <1>0, <1>1, SameTickets DEF Types, Sides, Moves, Early
<1>5. Disposals'
  BY <1>0, <1>1 DEF Disposals, Busy, Moves, Owned, Leaving
<1>6. Reference'
  <2>1. current # a
    BY <1>0 DEF Reference, Owned
  <2> QED BY <1>0, <1>1, <1>2, <2>1 DEF Reference, Moves, Newest, Owned
<1>7. InTurn'
  BY <1>0, <1>1 DEF Types, InTurn, Moves, Newest
<1>8. Showing'
  <2>1. current' # 0 => current # a
    BY <1>0 DEF Reference, Owned
  <2>2. CASE s = "failed" /\ kind[a] = "link"
    <3>1. panel'.status = "error" /\ panel'.by = a
      BY <1>1, <2>2 DEF Shows
    <3>2. role = "owner" => \A b \in Attempt : b > a => kind[b] = "none"
      <4> SUFFICES ASSUME role = "owner", NEW b \in Attempt, b > a, stage[b] # "none" PROVE FALSE
        BY <1>0 DEF Sides
      <4>1. a < b /\ a \in Nat /\ b \in Nat
        BY DEF Attempt
      <4>2. ticket[a] < ticket[b]
        BY <1>0, <4>1 DEF InTurn
      <4>3. ticket[b] <= generation /\ ticket[a] = generation /\ ticket[b] \in Nat /\ generation \in Nat
        BY <1>0, <1>1, <2>2 DEF Tickets, Newest, Types
      <4> QED BY <4>2, <4>3
    <3> QED BY <1>0, <1>1, <2>1, <3>1, <3>2 DEF Types, Showing, Moves
  <2>3. CASE ~(s = "failed" /\ kind[a] = "link")
    <3>1. panel' = panel
      BY <1>1, <2>3
    <3>2. panel.status = "creating" => stage'[panel.by] \notin {"none", "serving", "failed"}
      <4>1. CASE panel.by = a
        BY <1>0, <1>1, <2>3, <4>1 DEF Showing, Moves
      <4>2. CASE panel.by # a
        BY <1>0, <1>1, <4>2 DEF Showing, Moves
      <4> QED BY <4>1, <4>2
    <3>3. panel.status = "serving" => stage'[panel.by] = "serving"
      BY <1>0, <1>1 DEF Showing, Moves
    <3> QED BY <1>0, <1>1, <2>1, <3>1, <3>2, <3>3 DEF Types, Showing, Moves
  <2> QED BY <2>2, <2>3
<1>9. AreHeld'
  BY <1>0, <1>1, SameHolders DEF Moves
<1> QED BY <1>3, <1>4, <1>5, <1>6, <1>7, <1>8, <1>9 DEF PageInv

(* The page is closed: its runtime is disposed, every attempt is outdated.    *)
LEMMA UnmountKeeps ==
  ASSUME PageInv, Unmount
  PROVE  PageInv'
<1>0. /\ Types /\ Tickets /\ Sides /\ Disposals /\ Reference /\ InTurn /\ Showing /\ AreHeld
      /\ mounted /\ mounted' = FALSE /\ generation' = generation + 1 /\ current' = 0
      /\ disposal' = Disposing(Closing, current) /\ Closing \in Holder /\ ~Busy(Closing)
      /\ UNCHANGED <<role, kind, stage, ticket, parts, room, transfer, panel>>
  BY DEF PageInv, Unmount, Holder, Disposals
<1>1. /\ disposal' \in [Holder -> [of : {0} \cup Attempt, todo : Todos]]
      /\ \A d \in Holder : d # Closing => disposal'[d] = disposal[d]
      /\ current # 0 => /\ disposal'[Closing].of = current
                        /\ Left(disposal'[Closing].todo) = {"client", "engine", "transport"}
      /\ Busy(Closing)' => disposal'[Closing].of = current /\ current # 0
  BY <1>0, DisposalBegins DEF Types
<1>2. Types'
  <2>1. generation' \in Nat /\ current' \in {0} \cup Attempt
    BY <1>0 DEF Types
  <2>2. mounted' \in BOOLEAN
    BY <1>0, Zenon
  <2> QED BY <1>0, <1>1, <2>1, <2>2, Zenon DEF Types
<1>3. Tickets'
  <2>1. Ticketed' = Ticketed
    BY <1>0 DEF Ticketed
  <2>2. generation' <= Cardinality(Ticketed') + (IF mounted' THEN 0 ELSE 1)
    BY <1>0, <2>1, AttemptIsFinite DEF Tickets, Types
  <2>3. \A a \in Attempt : ticket'[a] <= generation'
    BY <1>0 DEF Tickets, Types
  <2> QED BY <1>0, <2>2, <2>3 DEF Tickets
<1>4. Sides' /\ InTurn' /\ Showing'
  BY <1>0 DEF Sides, InTurn, Showing
<1>5. Disposals'
  <2>1. \A a \in Attempt : disposal'[a] = disposal[a]
    BY <1>1 DEF Holder, Closing, Attempt
  <2>2. \A a \in Attempt : Busy(a)' => stage'[a] \in {"replacing", "undoing", "failing"}
    BY <1>0, <2>1 DEF Disposals, Busy
  <2>3. ASSUME NEW d \in Holder, Busy(d)'
        PROVE  disposal'[d].of \in Attempt /\ disposal'[d].of # 0 /\ stage'[disposal'[d].of] \in Owned \cup Leaving
    <3>1. CASE d = Closing
      BY <1>0, <1>1, <2>3, <3>1 DEF Types, Reference
    <3>2. CASE d # Closing
      BY <1>0, <1>1, <2>3, <3>2 DEF Disposals, Busy, Attempt
    <3> QED BY <3>1, <3>2
  <2> QED BY <1>0, <2>2, <2>3 DEF Disposals
<1>6. Reference'
  <2>1. \A a \in Attempt : ticket'[a] # generation'
    BY <1>0 DEF Types, Tickets
  <2> QED BY <1>0, <2>1 DEF Reference, Newest
<1>7. AreHeld'
  <2> SUFFICES ASSUME NEW b \in Attempt PROVE Held(b)'
    BY DEF AreHeld
  <2>1. Held(b)
    BY <1>0 DEF AreHeld
  <2>2. CASE current = b
    <3>1. parts'[b] \subseteq {"client", "engine", "transport"} /\ b # 0
      BY <1>0 DEF Types, Attempt
    <3> QED BY <1>0, <1>1, <2>2, <3>1 DEF Held
  <2>3. CASE stage[b] = "preparing"
    BY <1>0, <2>3 DEF Held
  <2>4. CASE \A part \in parts[b] : \E d \in Holder : disposal[d].of = b /\ part \in Left(disposal[d].todo)
    <3>1. ASSUME NEW part \in parts[b]
          PROVE  \E d \in Holder : disposal'[d].of = b /\ part \in Left(disposal'[d].todo)
      <4>1. PICK d \in Holder : disposal[d].of = b /\ part \in Left(disposal[d].todo)
        BY <2>4
      <4>2. d # Closing
        BY <1>0, <4>1, TodoSteps DEF Busy, Todos
      <4> QED BY <1>1, <4>1, <4>2
    <3> QED BY <1>0, <3>1 DEF Held
  <2> QED BY <2>1, <2>2, <2>3, <2>4 DEF Held
<1> QED BY <1>2, <1>3, <1>4, <1>5, <1>6, <1>7 DEF PageInv

(* A disposal closes one part.                                              *)
LEMMA PartReleasedKeeps ==
  ASSUME PageInv, NEW d \in Holder, PartReleased(d)
  PROVE  PageInv'
<1> DEFINE r == disposal[d].of
           part == Head(disposal[d].todo)
<1>0. /\ Types /\ Tickets /\ Sides /\ Disposals /\ Reference /\ InTurn /\ Showing /\ AreHeld
      /\ Busy(d) /\ r \in Attempt /\ r # current /\ disposal[d].todo \in Todos
      /\ disposal' = [disposal EXCEPT ![d].todo = Tail(@)]
      /\ parts' = [parts EXCEPT ![r] = @ \ {part}]
      /\ room' = IF part = "client" /\ room[r] = "open" THEN [room EXCEPT ![r] = "gone"] ELSE room
      /\ UNCHANGED <<role, mounted, generation, current, kind, stage, ticket, transfer, panel>>
  BY DEF PageInv, PartReleased, Busy, Disposals, Types
<1>1. /\ Tail(disposal[d].todo) \in Todos
      /\ Left(disposal[d].todo) = {part} \cup Left(Tail(disposal[d].todo))
  BY <1>0, TodoSteps DEF Busy
<1>2. /\ disposal' \in [Holder -> [of : {0} \cup Attempt, todo : Todos]]
      /\ \A e \in Holder : e # d => disposal'[e] = disposal[e]
      /\ disposal'[d].of = r /\ disposal'[d].todo = Tail(disposal[d].todo)
  BY <1>0, <1>1 DEF Types
<1>3. /\ parts' \in [Attempt -> SUBSET {"client", "engine", "transport"}]
      /\ \A b \in Attempt : b # r => parts'[b] = parts[b]
      /\ parts'[r] = parts[r] \ {part}
  BY <1>0 DEF Types
<1>4. /\ room' \in [Attempt \cup {Remote} -> {"none", "open", "gone"}]
      /\ \A b \in Attempt : b # r => room'[b] = room[b]
  BY <1>0 DEF Types
<1> HIDE DEF r, part
<1>5. Types' /\ Tickets'
  BY <1>0, <1>2, <1>3, <1>4, SameTickets DEF Types
<1>6. Sides' /\ InTurn' /\ Reference'
  BY <1>0 DEF Sides, InTurn, Reference, Newest
<1>7. Showing'
  BY <1>0, <1>4 DEF Types, Showing
<1>8. Disposals'
  <2>1. \A e \in Holder : disposal'[e].of = disposal[e].of /\ (Busy(e)' => Busy(e))
    BY <1>0, <1>2 DEF Busy, r
  <2> QED BY <1>0, <2>1 DEF Disposals, Holder
<1>9. AreHeld'
  <2> SUFFICES ASSUME NEW b \in Attempt, ~(current = b), ~(stage[b] = "preparing"), NEW p \in parts'[b]
               PROVE  \E e \in Holder : disposal'[e].of = b /\ p \in Left(disposal'[e].todo)
    BY <1>0 DEF AreHeld, Held
  <2>1. p \in parts[b]
    BY <1>3
  <2>2. PICK e \in Holder : disposal[e].of = b /\ p \in Left(disposal[e].todo)
    BY <1>0, <2>1 DEF AreHeld, Held
  <2>3. CASE e # d
    BY <1>2, <2>2, <2>3
  <2>4. CASE e = d
    <3>1. b = r
      BY <2>2, <2>4 DEF r
    <3>2. p # part
      BY <1>3, <3>1
    <3>3. p \in Left(disposal'[d].todo)
      BY <1>1, <1>2, <2>2, <2>4, <3>2
    <3> QED BY <1>2, <3>1, <3>3
  <2> QED BY <2>3, <2>4
<1> QED BY <1>5, <1>6, <1>7, <1>8, <1>9 DEF PageInv

(* What a transfer, the remote owner, or somebody else does leaves the        *)
(* attempts alone.                                                          *)
LEMMA AsidePageKeeps ==
  ASSUME PageInv, UNCHANGED <<role, mounted, generation, current, kind, stage, ticket, disposal>>,
         parts' \in [Attempt -> SUBSET {"client", "engine", "transport"}],
         \A a \in Attempt : parts'[a] \subseteq parts[a],
         room' \in [Attempt \cup {Remote} -> {"none", "open", "gone"}],
         transfer' \in [Attempt -> {"none", "running", "aborted", "saving", "cleaning", "done", "failed"}],
         \A a \in Attempt : transfer'[a] # "none" => stage[a] = "joined",
         panel' \in [status : Status, by : {0} \cup Attempt],
         \/ room' = room /\ panel' = panel
         \/ role = "receiver" /\ panel'.status \notin {"creating", "serving"}
         \/ role = "receiver" /\ panel' = panel
  PROVE  PageInv'
<1>0. Types /\ Tickets /\ Sides /\ Disposals /\ Reference /\ InTurn /\ Showing /\ AreHeld
  BY DEF PageInv
<1>1. Types' /\ Tickets'
  BY <1>0, SameTickets DEF Types
<1>2. Sides' /\ Disposals' /\ Reference' /\ InTurn'
  BY <1>0 DEF Sides, Disposals, Reference, InTurn, Busy, Newest
<1>3. Showing'
  <2>1. CASE room' = room /\ panel' = panel
    BY <1>0, <2>1 DEF Showing
  <2>2. CASE role = "receiver" /\ panel'.status \notin {"creating", "serving"}
    BY <1>0, <2>2 DEF Showing
  <2>3. CASE role = "receiver" /\ panel' = panel
    BY <1>0, <2>3 DEF Showing
  <2> QED BY <2>1, <2>2, <2>3
<1>4. AreHeld'
  BY <1>0, SameHolders
<1> QED BY <1>1, <1>2, <1>3, <1>4 DEF PageInv

LEMMA TransferKeeps ==
  ASSUME PageInv, NEW a \in Attempt, TransferStarts(a) \/ TransferTurns(a) \/ TransferEnds(a) \/ JoinRefused(a)
  PROVE  PageInv'
<1>0. Types /\ Sides /\ UNCHANGED <<role, mounted, generation, current, kind, stage, ticket, disposal, room>>
  BY DEF PageInv, TransferStarts, TransferTurns, TransferEnds, TransferSaves, TransferFails, TransferCleaned, JoinRefused
<1>1. stage[a] = "joined" /\ role = "receiver"
  <2>1. stage[a] = "joined"
    BY <1>0 DEF Sides, TransferStarts, OwnerChannelOpens, TransferTurns, TransferEnds, TransferSaves, TransferFails,
                TransferCleaned, JoinRefused
  <2> QED BY <1>0, <2>1 DEF Sides
<1>2. /\ parts' \in [Attempt -> SUBSET {"client", "engine", "transport"}]
      /\ \A b \in Attempt : parts'[b] \subseteq parts[b]
  <2>1. parts' = parts \/ parts' = [parts EXCEPT ![a] = @ \ {"engine"}]
    BY DEF TransferStarts, TransferTurns, TransferEnds, TransferSaves, TransferFails, TransferCleaned, JoinRefused
  <2> QED BY <1>0, <2>1 DEF Types
<1>3. /\ transfer' \in [Attempt -> {"none", "running", "aborted", "saving", "cleaning", "done", "failed"}]
      /\ \A b \in Attempt : transfer'[b] # "none" => stage[b] = "joined"
  <2>1. PICK t \in {"running", "aborted", "saving", "cleaning", "done", "failed"} :
          transfer' = transfer \/ transfer' = [transfer EXCEPT ![a] = t]
    BY DEF TransferStarts, TransferTurns, TransferEnds, TransferSaves, TransferFails, TransferCleaned, JoinRefused
  <2> QED BY <1>0, <1>1, <2>1 DEF Types, Sides
<1>4. /\ panel' \in [status : Status, by : {0} \cup Attempt]
      /\ panel' = panel \/ panel'.status \notin {"creating", "serving"}
  <2>1. \/ panel' = panel
        \/ panel' = Shows("downloading", a) \/ panel' = Shows("complete", a)
        \/ panel' = [panel EXCEPT !.status = "error"]
    BY DEF TransferStarts, TransferTurns, TransferEnds, TransferSaves, TransferFails, TransferCleaned, JoinRefused
  <2> QED BY <1>0, <2>1 DEF Types, Status, Shows
<1>5. room' \in [Attempt \cup {Remote} -> {"none", "open", "gone"}]
  BY <1>0 DEF Types
<1> QED BY <1>0, <1>1, <1>2, <1>3, <1>4, <1>5, AsidePageKeeps

LEMMA RemoteLeavesKeeps ==
  ASSUME PageInv, RemoteLeaves
  PROVE  PageInv'
<1>0. /\ Types /\ Sides /\ role = "receiver"
      /\ room' = [room EXCEPT ![Remote] = "gone"]
      /\ UNCHANGED <<role, mounted, generation, current, kind, stage, ticket, parts, disposal, transfer, panel>>
  BY DEF PageInv, RemoteLeaves
<1>1. room' \in [Attempt \cup {Remote} -> {"none", "open", "gone"}]
  BY <1>0 DEF Types
<1> QED BY <1>0, <1>1, AsidePageKeeps DEF Types, Sides

LEMMA OthersKeepPage ==
  ASSUME PageInv, UNCHANGED page
  PROVE  PageInv'
<1>0. /\ Types /\ Sides
      /\ UNCHANGED <<role, mounted, generation, current, kind, stage, ticket, parts, disposal, room, transfer, panel>>
  BY DEF PageInv, page
<1> QED BY <1>0, AsidePageKeeps DEF Types, Sides

-----------------------------------------------------------------------------
(* The page, whatever it does.                                              *)

LEMMA PageStarts == PageInit => PageInv
<1> SUFFICES ASSUME PageInit PROVE PageInv
  OBVIOUS
<1>1. Types
  <2>1. <<>> \in Todos
    BY DEF Todos
  <2>2. disposal \in [Holder -> [of : {0} \cup Attempt, todo : Todos]]
    BY <2>1 DEF PageInit, Holder, NoDisposal
  <2>3. mounted \in BOOLEAN
    BY Zenon DEF PageInit
  <2> QED BY <2>2, <2>3 DEF PageInit, Types, Shows, Status
<1>2. Tickets
  BY AttemptIsFinite DEF PageInit, Tickets, Early
<1>3. \A d \in Holder : ~Busy(d)
  BY DEF PageInit, NoDisposal, Busy, Holder
<1>4. Disposals
  BY <1>3 DEF Disposals, Holder
<1>5. Sides /\ Reference /\ InTurn /\ Showing /\ AreHeld
  BY DEF PageInit, Sides, Owners, Receiving, Reference, InTurn, Showing, Shows, AreHeld, Held
<1> QED BY <1>1, <1>2, <1>4, <1>5 DEF PageInv

LEMMA PageMovesKeep ==
  ASSUME PageInv, (\E a \in Attempt : UserStep(a)) \/ PageStep
  PROVE  PageInv'
<1>1. ASSUME NEW a \in Attempt, UserStep(a) PROVE PageInv'
  BY <1>1, StartsWithTicket, StartsLookup DEF UserStep
<1>2. ASSUME NEW a \in Attempt, AttemptStep(a) PROVE PageInv'
  BY <1>2, LookupFindsKeeps, LookupFindsNothingKeeps, IceKnownKeeps, ReplacedKeeps, PreparedKeeps, ConnectedKeeps,
     RegisteredKeeps, DrawnKeeps, GivenUpKeeps DEF AttemptStep
<1>3. ASSUME NEW a \in Attempt, TransferStarts(a) \/ TransferTurns(a) \/ TransferEnds(a) \/ JoinRefused(a) PROVE PageInv'
  BY <1>3, TransferKeeps
<1>4. ASSUME NEW d \in Holder, PartReleased(d) PROVE PageInv'
  BY <1>4, PartReleasedKeeps
<1>5. Unmount \/ RemoteLeaves => PageInv'
  BY UnmountKeeps, RemoteLeavesKeeps
<1> QED BY <1>1, <1>2, <1>3, <1>4, <1>5 DEF PageStep, Holder

-----------------------------------------------------------------------------
(* The commands and their coordinator.                                       *)

LEMMA RequestsOf ==
  /\ Requests("node") = <<"workspace", "register", "heartbeat">> /\ Requests("publish") = <<"publish">>
  /\ Requests("files") = <<"list">> /\ Requests("share") = <<"workspace", "publish", "share">>
  /\ Requests("get") = <<"resolve", "candidates">> /\ Requests("download") = <<"candidatesOf">>
  /\ \A kind1 \in Kind : Len(Requests(kind1)) \in 1..3
<1>1. /\ Requests("node") = <<"workspace", "register", "heartbeat">> /\ Requests("publish") = <<"publish">>
      /\ Requests("files") = <<"list">> /\ Requests("share") = <<"workspace", "publish", "share">>
      /\ Requests("get") = <<"resolve", "candidates">> /\ Requests("download") = <<"candidatesOf">>
  BY DEF Requests
<1>2. \A kind1 \in Kind : Len(Requests(kind1)) \in 1..3
  BY <1>1 DEF Kind
<1> QED BY <1>1, <1>2

(* What is asked, by which command, and when.                               *)
LEMMA Asked ==
  ASSUME CommandInv, NEW k \in Command, Asking(k)
  PROVE  /\ run[k].kind \in Kind /\ run[k].end = "no" /\ run[k].at \in 1..3 /\ run[k].at <= Len(Requests(run[k].kind))
         /\ Request(k) \in {"publish", "share", "candidatesOf"} => run[k].file \in File
         /\ run[k].kind = "publish" => run[k].at = 1 /\ Request(k) = "publish"
         /\ run[k].kind = "share" /\ run[k].at = 2 => Request(k) = "publish"
         /\ run[k].kind = "get" => run[k].at <= 2
<1>1. /\ run[k] \in Runs
      /\ run[k].kind # "none" /\ run[k].end = "no" /\ run[k].at <= Len(Requests(run[k].kind))
      /\ run[k].kind \in {"publish", "share", "download"} => run[k].file \in File
  BY DEF CommandInv, ClientTypes, Progress, Asking, Running
<1>2. run[k].kind \in Kind /\ run[k].at \in 1..3
  <2>1. run[k].kind \in Kind /\ run[k].at \in 1..4
    BY <1>1 DEF Runs
  <2>2. Len(Requests(run[k].kind)) \in 1..3
    BY <2>1, RequestsOf
  <2> DEFINE at == run[k].at
             most == Len(Requests(run[k].kind))
  <2>3. at \in 1..4 /\ most \in 1..3 /\ at <= most
    BY <1>1, <2>1, <2>2
  <2> HIDE DEF at, most
  <2>4. at \in 1..3
    BY <2>3
  <2> QED BY <2>1, <2>4 DEF at
<1>3. Request(k) = Requests(run[k].kind)[run[k].at]
  BY DEF Request
<1>4. CASE run[k].kind = "node"
  BY <1>1, <1>2, <1>3, <1>4, RequestsOf
<1>5. CASE run[k].kind = "files"
  BY <1>1, <1>2, <1>3, <1>5, RequestsOf
<1>6. CASE run[k].kind = "publish"
  BY <1>1, <1>2, <1>3, <1>6, RequestsOf
<1>7. CASE run[k].kind = "share"
  BY <1>1, <1>2, <1>3, <1>7, RequestsOf
<1>8. CASE run[k].kind = "get"
  BY <1>1, <1>2, <1>3, <1>8, RequestsOf
<1>9. CASE run[k].kind = "download"
  BY <1>1, <1>2, <1>3, <1>9, RequestsOf
<1> QED BY <1>2, <1>4, <1>5, <1>6, <1>7, <1>8, <1>9 DEF Kind

(* A request that is carried out adds to the directory.                      *)
LEMMA ApplyKeeps ==
  ASSUME CommandInv, NEW k \in Command, Asking(k), Apply(k)
  PROVE  /\ RegistryTypeOK' /\ published \subseteq published'
         /\ Request(k) = "publish" => run[k].file \in published'
<1>1. /\ RegistryTypeOK /\ run[k].file \in File \cup {"none"}
      /\ Request(k) \in {"publish", "share"} => run[k].file \in File
  BY Asked DEF CommandInv, ClientTypes, Runs
<1>2. hint' \in File \cup {NoHint}
  BY <1>1 DEF Apply, RegistryTypeOK, NoHint
<1>3. published' \subseteq File /\ published \subseteq published' /\ (Request(k) = "publish" => run[k].file \in published')
  BY <1>1 DEF Apply, RegistryTypeOK
<1>4. byCode' \in [Code -> {NoShare} \cup [file : File, by : {"page", "node"}]]
  BY <1>1 DEF Apply, RegistryTypeOK, Put, Share
<1> QED BY <1>2, <1>3, <1>4 DEF RegistryTypeOK

(* One command changes, the directory only grows.                            *)
LEMMA OneCommand ==
  ASSUME CommandInv, NEW k \in Command, RegistryTypeOK', published \subseteq published', ClientTypes',
         \A j \in Command : j # k => /\ run'[j] = run[j] /\ tries'[j] = tries[j]
                                     /\ learned'[j] = learned[j] /\ applied'[j] = applied[j],
         run'[k].kind \in {"publish", "share", "download"} => run'[k].file \in File,
         run'[k].kind # "none" => run'[k].at <= Len(Requests(run'[k].kind)) + 1,
         run'[k].end = "no" => applied'[k] <= tries'[k],
         run'[k].end \in {"done", "complete"} =>
           run'[k].kind # "none" /\ ~(run'[k].at <= Len(Requests(run'[k].kind))),
         run'[k].kind = "publish" /\ run'[k].at > 1 => run'[k].file \in published',
         run'[k].kind = "share" /\ run'[k].at > 2 => run'[k].file \in published',
         run'[k].kind = "get" /\ run'[k].at > 2 /\ run'[k].end \in {"no", "complete"} =>
           learned'[k].join = learned'[k].file
  PROVE  CommandInv'
<1>1. Progress /\ Recorded
  BY DEF CommandInv
<1>2. Progress'
  BY <1>1 DEF Progress
<1>3. Recorded'
  BY <1>1 DEF Recorded
<1> QED BY <1>2, <1>3 DEF CommandInv

LEMMA CommandsStart == RegistryInit /\ ClientInit => CommandInv
<1> SUFFICES ASSUME RegistryInit, ClientInit PROVE CommandInv
  OBVIOUS
<1>1. RegistryTypeOK
  BY FlowAssumption DEF RegistryInit, RegistryTypeOK
<1>2. ClientTypes
  BY FlowAssumption DEF ClientInit, ClientTypes, Runs, Idle, Nothing, NoHint
<1>3. Progress /\ Recorded
  BY DEF ClientInit, Progress, Recorded, Idle
<1> QED BY <1>1, <1>2, <1>3 DEF CommandInv

LEMMA UserCommandKeeps ==
  ASSUME CommandInv, NEW k \in Command, UserCommand(k)
  PROVE  CommandInv'
<1>1. PICK kind1 \in Kind, file \in File \cup {"none"}, code \in Code :
        /\ StartCommand(k, kind1, file, code)
        /\ kind1 \in {"publish", "share", "download"} => file \in File
  BY FlowAssumption DEF UserCommand, Kind
<1>2. /\ ClientTypes /\ run[k] = Idle
      /\ run' = [run EXCEPT ![k].kind = kind1, ![k].file = file, ![k].code = code]
      /\ UNCHANGED <<tries, learned, applied, byCode, published, hint>>
  BY <1>1 DEF StartCommand, CommandInv, registry
<1>3. /\ run'[k].kind = kind1 /\ run'[k].file = file /\ run'[k].at = 1 /\ run'[k].end = "no"
      /\ \A j \in Command : j # k => run'[j] = run[j]
      /\ run' \in [Command -> Runs]
  <2> DEFINE new == [run[k] EXCEPT !.kind = kind1, !.file = file, !.code = code]
  <2>1. run \in [Command -> Runs] /\ run[k] \in Runs /\ run[k].at = 1 /\ run[k].end = "no"
    BY <1>2 DEF ClientTypes, Idle
  <2>2. new \in Runs /\ new.kind = kind1 /\ new.file = file /\ new.at = 1 /\ new.end = "no"
    BY <2>1 DEF Runs
  <2>3. run' = [run EXCEPT ![k] = new]
    BY <1>2
  <2> HIDE DEF new
  <2> QED BY <2>1, <2>2, <2>3
<1>4. RegistryTypeOK' /\ ClientTypes'
  BY <1>2, <1>3 DEF CommandInv, RegistryTypeOK, ClientTypes
<1>5. applied[k] <= tries[k]
  BY <1>2 DEF CommandInv, Progress, Idle
<1>6. 1 <= Len(Requests(kind1)) + 1
  BY RequestsOf
<1> QED BY <1>1, <1>2, <1>3, <1>4, <1>5, <1>6, OneCommand

(* The command ends, in whatever way.                                       *)
LEMMA OnlyEnds ==
  ASSUME ClientTypes, NEW k \in Command, NEW end \in {"complete", "failed"}, run' = [run EXCEPT ![k].end = end]
  PROVE  /\ run'[k].kind = run[k].kind /\ run'[k].file = run[k].file /\ run'[k].at = run[k].at /\ run'[k].end = end
         /\ \A j \in Command : j # k => run'[j] = run[j]
         /\ run' \in [Command -> Runs]
<1> DEFINE new == [run[k] EXCEPT !.end = end]
<1>1. run \in [Command -> Runs] /\ run[k] \in Runs
  BY DEF ClientTypes
<1>2. /\ new \in Runs /\ new.kind = run[k].kind /\ new.file = run[k].file
      /\ new.at = run[k].at /\ new.end = end
  BY <1>1 DEF Runs
<1>3. run' = [run EXCEPT ![k] = new]
  OBVIOUS
<1> HIDE DEF new
<1> QED BY <1>1, <1>2, <1>3

LEMMA RefusedKeeps ==
  ASSUME CommandInv, NEW k \in Command, Refused(k)
  PROVE  CommandInv'
<1>1. /\ ClientTypes /\ Recorded /\ Progress /\ run' = [run EXCEPT ![k].end = "failed"]
      /\ UNCHANGED <<tries, learned, applied, byCode, published, hint>>
  BY DEF Refused, CommandInv, registry
<1>2. /\ run'[k].kind = run[k].kind /\ run'[k].file = run[k].file /\ run'[k].at = run[k].at /\ run'[k].end = "failed"
      /\ \A j \in Command : j # k => run'[j] = run[j]
      /\ run' \in [Command -> Runs]
  BY <1>1, OnlyEnds
<1>3. RegistryTypeOK' /\ ClientTypes'
  BY <1>1, <1>2 DEF CommandInv, RegistryTypeOK, ClientTypes
<1> QED BY <1>1, <1>2, <1>3, OneCommand DEF Recorded, Progress

LEMMA JoinEndsKeeps ==
  ASSUME CommandInv, NEW k \in Command, JoinEnds(k)
  PROVE  CommandInv'
<1>1. PICK end \in {"complete", "failed"} :
        /\ ClientTypes /\ Recorded /\ Progress /\ run' = [run EXCEPT ![k].end = end]
        /\ UNCHANGED <<tries, learned, applied, byCode, published, hint>>
  BY DEF JoinEnds, CommandInv, registry
<1>2. /\ run'[k].kind = run[k].kind /\ run'[k].file = run[k].file /\ run'[k].at = run[k].at /\ run'[k].end = end
      /\ \A j \in Command : j # k => run'[j] = run[j]
      /\ run' \in [Command -> Runs]
  BY <1>1, OnlyEnds
<1>3. RegistryTypeOK' /\ ClientTypes'
  BY <1>1, <1>2 DEF CommandInv, RegistryTypeOK, ClientTypes
<1>4. run[k].kind # "none" /\ run[k].end = "no" /\ ~(run[k].at <= Len(Requests(run[k].kind)))
  BY DEF JoinEnds, Joining, Asking, Running
<1> QED BY <1>1, <1>2, <1>3, <1>4, OneCommand DEF Recorded, Progress

(* A request without an answer may have been carried out.                    *)
LEMMA UnansweredKeeps ==
  ASSUME CommandInv, NEW k \in Command, Unanswered(k)
  PROVE  CommandInv'
<1>1. /\ ClientTypes /\ Recorded /\ Progress /\ RegistryTypeOK /\ Asking(k) /\ run[k].end = "no"
      /\ tries' = [tries EXCEPT ![k] = 1] /\ run' = [run EXCEPT ![k] = Repeats(k)] /\ learned' = learned
      /\ \/ Apply(k) /\ applied' = [applied EXCEPT ![k] = @ + 1]
         \/ UNCHANGED <<applied, byCode, published, hint>>
  BY DEF Unanswered, CommandInv, registry, Asking, Running
<1>2. /\ Repeats(k) \in Runs
      /\ Repeats(k).kind = run[k].kind /\ Repeats(k).file = run[k].file /\ Repeats(k).at = run[k].at
      /\ Repeats(k).end = IF tries[k] = 0 THEN "no" ELSE "failed"
  BY <1>1 DEF Repeats, ClientTypes, Runs
<1>3. /\ run'[k] = Repeats(k) /\ tries'[k] = 1
      /\ \A j \in Command : j # k => run'[j] = run[j] /\ tries'[j] = tries[j] /\ applied'[j] = applied[j]
  BY <1>1 DEF ClientTypes
<1>4. RegistryTypeOK' /\ published \subseteq published'
  <2>1. CASE Apply(k)
    BY <1>1, <2>1, ApplyKeeps
  <2>2. CASE UNCHANGED <<byCode, published, hint>>
    BY <1>1, <2>2 DEF RegistryTypeOK
  <2> QED BY <1>1, <2>1, <2>2
<1>5. /\ applied[k] <= tries[k] /\ tries[k] \in 0..1 /\ applied[k] \in 0..2
      /\ applied'[k] = applied[k] + 1 \/ applied'[k] = applied[k]
  BY <1>1 DEF Progress, ClientTypes
<1>6. applied'[k] \in 0..2 /\ (tries[k] = 0 => applied'[k] <= 1)
  BY <1>5
<1>7. ClientTypes'
  <2>1. run' \in [Command -> Runs]
    BY <1>1, <1>2 DEF ClientTypes
  <2>2. tries' \in [Command -> 0..1] /\ applied' \in [Command -> 0..2]
    BY <1>1, <1>6 DEF ClientTypes
  <2> QED BY <1>1, <2>1, <2>2 DEF ClientTypes
<1> HIDE DEF Repeats
<1>8. /\ run'[k].kind = run[k].kind /\ run'[k].file = run[k].file /\ run'[k].at = run[k].at
      /\ run'[k].end \in {"no", "failed"} /\ (run'[k].end = "no" => applied'[k] <= tries'[k])
  BY <1>2, <1>3, <1>6
<1>9. run[k].file \in published => run'[k].file \in published'
  BY <1>4, <1>8
<1> QED BY <1>1, <1>3, <1>4, <1>7, <1>8, <1>9, OneCommand DEF Recorded, Progress

(* What an answer tells a command.                                           *)
LEMMA HeardTypes ==
  ASSUME CommandInv, NEW k \in Command, Asking(k)
  PROVE  Heard(k) \in [file : File \cup {"none"}, join : File \cup {NoHint}]
<1>1. /\ learned[k] \in [file : File \cup {"none"}, join : File \cup {NoHint}]
      /\ byCode[run[k].code].file \in File \cup {"none"} /\ hint \in File \cup {NoHint}
  <2>1. /\ learned[k] \in [file : File \cup {"none"}, join : File \cup {NoHint}] /\ run[k].code \in Code
        /\ byCode[run[k].code] \in {NoShare} \cup [file : File, by : {"page", "node"}] /\ hint \in File \cup {NoHint}
    BY DEF CommandInv, ClientTypes, RegistryTypeOK, Runs
  <2> QED BY <2>1 DEF NoShare
<1>2. JoinHint(run[k].code) \in File \cup {NoHint}
  BY <1>1 DEF JoinHint
<1>3. Request(k) = "candidatesOf" => run[k].file \in File
  BY Asked
<1>4. CASE Request(k) = "resolve"
  BY <1>1, <1>4 DEF Heard
<1>5. CASE Request(k) = "candidates"
  BY <1>1, <1>2, <1>5 DEF Heard
<1>6. CASE Request(k) = "candidatesOf"
  BY <1>1, <1>3, <1>6 DEF Heard
<1>7. CASE Request(k) \notin {"resolve", "candidates", "candidatesOf"}
  BY <1>1, <1>7 DEF Heard
<1> QED BY <1>4, <1>5, <1>6, <1>7

LEMMA AnsweredKeeps ==
  ASSUME CommandInv, NEW k \in Command, Answered(k)
  PROVE  CommandInv'
<1> DEFINE got == Heard(k)
           last == run[k].at = Len(Requests(run[k].kind))
           end == IF last THEN AfterLast(k, got) ELSE "no"
<1>1. /\ ClientTypes /\ Recorded /\ Progress /\ Asking(k) /\ Apply(k)
      /\ tries' = [tries EXCEPT ![k] = 0] /\ applied' = [applied EXCEPT ![k] = 0]
      /\ learned' = [learned EXCEPT ![k] = got]
      /\ run' = [run EXCEPT ![k].at = @ + 1, ![k].end = end]
  BY DEF Answered, CommandInv
<1>2. got \in [file : File \cup {"none"}, join : File \cup {NoHint}]
  BY <1>1, HeardTypes
<1>3. /\ AfterLast(k, got) \in {"no", "done", "planned", "failed"}
      /\ run[k].kind = "get" /\ AfterLast(k, got) = "no" => got.join = got.file
  BY <1>2 DEF AfterLast, Matches
<1>4. /\ run[k].kind \in Kind /\ run[k].end = "no" /\ run[k].at \in 1..3 /\ run[k].at <= Len(Requests(run[k].kind))
      /\ Len(Requests(run[k].kind)) \in 1..3
      /\ run[k].kind = "publish" => run[k].at = 1 /\ Request(k) = "publish"
      /\ run[k].kind = "share" /\ run[k].at = 2 => Request(k) = "publish"
      /\ run[k].kind = "get" => run[k].at <= 2 /\ Len(Requests(run[k].kind)) = 2
  BY <1>1, Asked, RequestsOf
<1>5. RegistryTypeOK' /\ published \subseteq published' /\ (Request(k) = "publish" => run[k].file \in published')
  BY <1>1, ApplyKeeps
<1>6. end \in {"no", "done", "planned", "failed"} /\ (end = "done" => last)
  BY <1>3
<1>7. run[k].kind = "get" /\ run[k].at = 2 /\ end \in {"no", "complete"} => got.join = got.file
  BY <1>3, <1>4, <1>6
<1> HIDE DEF got, end
<1>8. /\ run'[k].kind = run[k].kind /\ run'[k].file = run[k].file /\ run'[k].at = run[k].at + 1 /\ run'[k].end = end
      /\ \A j \in Command : j # k => /\ run'[j] = run[j] /\ tries'[j] = tries[j]
                                     /\ learned'[j] = learned[j] /\ applied'[j] = applied[j]
      /\ tries'[k] = 0 /\ applied'[k] = 0 /\ learned'[k] = got
  BY <1>1 DEF ClientTypes
<1>9. ClientTypes'
  <2>1. run' \in [Command -> Runs]
    <3> DEFINE new == [run[k] EXCEPT !.at = @ + 1, !.end = end]
    <3>1. run[k] \in Runs /\ run[k].at + 1 \in 1..4
      BY <1>1, <1>4 DEF ClientTypes
    <3>2. new \in Runs
      BY <1>6, <3>1 DEF Runs
    <3>3. run' = [run EXCEPT ![k] = new]
      BY <1>1
    <3> HIDE DEF new
    <3> QED BY <1>1, <3>2, <3>3 DEF ClientTypes
  <2>2. tries' \in [Command -> 0..1] /\ applied' \in [Command -> 0..2]
    BY <1>1 DEF ClientTypes
  <2>3. learned' \in [Command -> [file : File \cup {"none"}, join : File \cup {NoHint}]]
    BY <1>1, <1>2 DEF ClientTypes
  <2> QED BY <2>1, <2>2, <2>3 DEF ClientTypes
<1>10. run'[k].kind \in {"publish", "share", "download"} => run'[k].file \in File
  BY <1>1, <1>8 DEF Progress
<1>11. /\ run'[k].at <= Len(Requests(run'[k].kind)) + 1
       /\ run'[k].end \in {"done", "complete"} =>
            run'[k].kind # "none" /\ ~(run'[k].at <= Len(Requests(run'[k].kind)))
  BY <1>4, <1>6, <1>8 DEF Kind
<1>12. /\ run'[k].kind = "publish" /\ run'[k].at > 1 => run'[k].file \in published'
       /\ run'[k].kind = "share" /\ run'[k].at > 2 => run'[k].file \in published'
  <2>1. CASE run[k].kind = "publish"
    BY <1>4, <1>5, <1>8, <2>1
  <2>2. CASE run[k].kind = "share" /\ run[k].at = 2
    BY <1>4, <1>5, <1>8, <2>2
  <2>3. CASE run[k].kind = "share" /\ run[k].at # 2
    BY <1>1, <1>4, <1>5, <1>8, <2>3 DEF Recorded
  <2> QED BY <1>8, <2>1, <2>2, <2>3
<1>13. run'[k].kind = "get" /\ run'[k].at > 2 /\ run'[k].end \in {"no", "complete"} =>
         learned'[k].join = learned'[k].file
  BY <1>4, <1>7, <1>8
<1> QED BY <1>5, <1>8, <1>9, <1>10, <1>11, <1>12, <1>13, OneCommand

(* What a page does at the registry leaves the commands as they are.          *)
LEMMA OthersKeepCommands ==
  ASSUME CommandInv, UNCHANGED clients,
         \/ UNCHANGED registry
         \/ \E a \in Attempt : byCode' = Put(a, PageFile, "page")  /\ UNCHANGED <<published, hint>>
         \/ \E c \in Code : Expire(c)
  PROVE  CommandInv'
<1>1. UNCHANGED <<run, tries, learned, applied, published, hint>>
  BY DEF clients, registry, Expire
<1>2. byCode' \in [Code -> {NoShare} \cup [file : File, by : {"page", "node"}]]
  <2>1. byCode \in [Code -> {NoShare} \cup [file : File, by : {"page", "node"}]]
    BY DEF CommandInv, RegistryTypeOK
  <2>2. CASE UNCHANGED registry
    BY <2>1, <2>2 DEF registry
  <2>3. ASSUME NEW a \in Attempt, byCode' = Put(a, PageFile, "page")
        PROVE  byCode' \in [Code -> {NoShare} \cup [file : File, by : {"page", "node"}]]
    BY <2>1, <2>3, FlowAssumption DEF Put, Share
  <2>4. ASSUME NEW c \in Code, Expire(c)
        PROVE  byCode' \in [Code -> {NoShare} \cup [file : File, by : {"page", "node"}]]
    BY <2>1, <2>4 DEF Expire
  <2> QED BY <2>2, <2>3, <2>4
<1> QED BY <1>1, <1>2 DEF CommandInv, RegistryTypeOK, ClientTypes, Progress, Recorded, Running

LEMMA PageAtRegistry ==
  ASSUME (\E a \in Attempt : UserStep(a)) \/ PageStep
  PROVE  \/ UNCHANGED registry
         \/ \E a \in Attempt : byCode' = Put(a, PageFile, "page") /\ UNCHANGED <<published, hint>>
<1>1. ASSUME NEW a \in Attempt, UserStep(a) PROVE UNCHANGED registry
  BY <1>1 DEF UserStep, StartShare, StartJoin, StartGet
<1>2. ASSUME NEW a \in Attempt, AttemptStep(a), ~Registered(a) PROVE UNCHANGED registry
  BY <1>2 DEF AttemptStep, LookupFinds, LookupFindsNothing, IceKnown, Replaced, Prepared, Connected, Drawn, Throws, GivenUp
<1>3. ASSUME NEW a \in Attempt, Registered(a)
      PROVE  UNCHANGED registry \/ (byCode' = Put(a, PageFile, "page") /\ UNCHANGED <<published, hint>>)
  BY <1>3 DEF Registered, registry
<1>4. ASSUME NEW a \in Attempt, TransferStarts(a) \/ TransferTurns(a) \/ TransferEnds(a) \/ JoinRefused(a)
      PROVE  UNCHANGED registry
  BY <1>4 DEF TransferStarts, TransferTurns, TransferEnds, TransferSaves, TransferFails, TransferCleaned, JoinRefused
<1>5. ASSUME NEW d \in Holder, PartReleased(d) PROVE UNCHANGED registry
  BY <1>5 DEF PartReleased
<1>6. Unmount \/ RemoteLeaves => UNCHANGED registry
  BY DEF Unmount, RemoteLeaves
<1> QED BY <1>1, <1>2, <1>3, <1>4, <1>5, <1>6 DEF PageStep, Holder

-----------------------------------------------------------------------------
(* The whole flow.                                                          *)

LEMMA FlowStarts == FlowInit => PageInv /\ CommandInv
  BY PageStarts, CommandsStart DEF FlowInit

LEMMA FlowKeeps == PageInv /\ CommandInv /\ [FlowNext]_flow => PageInv' /\ CommandInv'
<1> SUFFICES ASSUME PageInv, CommandInv, [FlowNext]_flow PROVE PageInv' /\ CommandInv'
  OBVIOUS
<1>1. ASSUME NEW a \in Attempt, UserStep(a), UNCHANGED clients PROVE PageInv' /\ CommandInv'
  BY <1>1, PageMovesKeep, PageAtRegistry, OthersKeepCommands
<1>2. ASSUME PageStep, UNCHANGED clients PROVE PageInv' /\ CommandInv'
  BY <1>2, PageMovesKeep, PageAtRegistry, OthersKeepCommands
<1>3. ASSUME NEW k \in Command, UserCommand(k) \/ CommandStep(k), UNCHANGED page PROVE PageInv' /\ CommandInv'
  BY <1>3, OthersKeepPage, UserCommandKeeps, AnsweredKeeps, RefusedKeeps, UnansweredKeeps, JoinEndsKeeps DEF CommandStep
<1>4. ASSUME NEW c \in Code, Expire(c), UNCHANGED <<page, clients>> PROVE PageInv' /\ CommandInv'
  BY <1>4, OthersKeepPage, OthersKeepCommands
<1>5. ASSUME UNCHANGED flow PROVE PageInv' /\ CommandInv'
  BY <1>5, OthersKeepPage, OthersKeepCommands DEF flow
<1> QED BY <1>1, <1>2, <1>3, <1>4, <1>5 DEF FlowNext

LEMMA FlowInvariant == FlowSpec => [](PageInv /\ CommandInv)
<1>1. FlowInit => PageInv /\ CommandInv
  BY FlowStarts
<1>2. PageInv /\ CommandInv /\ [FlowNext]_flow => (PageInv /\ CommandInv)'
  BY FlowKeeps
<1> QED BY <1>1, <1>2, PTL DEF FlowSpec

LEMMA GenerationsAreBounded == PageInv => generation \in 0..MaxAttempts + 1
<1> SUFFICES ASSUME PageInv PROVE generation \in 0..MaxAttempts + 1
  OBVIOUS
<1>1. Cardinality(Attempt) = MaxAttempts
  BY FlowAssumption, FS_Interval DEF Attempt
<1>2. Cardinality(Ticketed) <= MaxAttempts /\ Cardinality(Ticketed) \in Nat
  BY <1>1, AttemptIsFinite, FS_Subset DEF Ticketed
<1> QED BY <1>2, FlowAssumption DEF PageInv, Types, Tickets

LEMMA SoundPage == PageInv /\ CommandInv => PageIsSound
<1> SUFFICES ASSUME PageInv, CommandInv PROVE PageIsSound
  OBVIOUS
<1>1. Types /\ Tickets /\ AreHeld
  BY DEF PageInv
<1>2. \A a, b \in Attempt : ticket[a] \in 0..generation /\ (ticket[a] = ticket[b] => a = b \/ ticket[a] = 0)
  BY <1>1 DEF Types, Tickets
<1>3. PageTypeOK
  BY <1>1, <1>2, GenerationsAreBounded DEF Types, PageTypeOK, Owners, Receiving
<1>4. ClientTypeOK /\ RegistryTypeOK
  BY DEF CommandInv, ClientTypes, ClientTypeOK, Runs
<1> QED BY <1>1, <1>3, <1>4, HeldSuffices DEF PageIsSound, FlowTypeOK

(* An owner's attempt that the panel names is the newest, unless the page is   *)
(* closed or a signaled sender has started since.                           *)
LEMMA PanelNamesNewest ==
  ASSUME PageInv, mounted, Untouched, panel.status \in {"creating", "serving"}
  PROVE  panel.by \in Attempt /\ kind[panel.by] = "link" /\ role = "owner" /\ Newest(panel.by) /\ ticket[panel.by] > 0
<1>0. Types /\ Sides /\ InTurn /\ Showing
  BY DEF PageInv
<1>1. panel.by \in Attempt /\ kind[panel.by] = "link" /\ role = "owner" /\ stage[panel.by] # "none"
  BY <1>0 DEF Showing, Sides, Owners
<1>2. ticket[panel.by] > 0
  BY <1>0, <1>1 DEF InTurn
<1>3. ASSUME ~Newest(panel.by) PROVE FALSE
  <2>1. PICK b \in Attempt : panel.by < b /\ stage[b] # "none"
    BY <1>0, <1>1, <1>3 DEF InTurn
  <2>2. kind[b] = "signaled"
    BY <1>0, <1>1, <2>1 DEF Showing, Sides, Attempt
  <2> QED BY <1>1, <2>1, <2>2 DEF Untouched, Attempt
<1> QED BY <1>1, <1>2, <1>3

LEMMA RestIsOnNewest == PageInv => RestsOnNewest
<1> SUFFICES ASSUME PageInv, Resting
             PROVE  /\ \A a \in Attempt : parts[a] # {} => IsCurrentRuntime(a)
                    /\ \A a \in Attempt : Newest(a) /\ ticket[a] > 0 => stage[a] \in {"serving", "joined", "failed"}
                    /\ mounted /\ Untouched =>
                         /\ panel.status # "creating"
                         /\ panel.status = "serving" => IsCurrentRuntime(panel.by) /\ room[panel.by] = "open"
  BY DEF RestsOnNewest
<1>0. Types /\ Tickets /\ Sides /\ Reference /\ Showing /\ AreHeld
  BY DEF PageInv
<1>1. (\A a \in Attempt : stage[a] \notin Building) /\ \A d \in Holder : disposal[d].todo = <<>>
  BY <1>0 DEF Resting, Types
<1>2. \A a \in Attempt : Newest(a) /\ ticket[a] > 0 => stage[a] \in {"serving", "joined", "failed"}
  BY <1>0, <1>1 DEF Types, Tickets, Early, Reference
<1>3. \A a \in Attempt : parts[a] # {} => IsCurrentRuntime(a)
  <2> SUFFICES ASSUME NEW a \in Attempt, NEW part \in parts[a] PROVE IsCurrentRuntime(a)
    OBVIOUS
  <2>1. \A d \in Holder : Left(disposal[d].todo) = {}
    BY <1>1, TodoSteps DEF Todos
  <2>2. current = a /\ a # 0
    BY <1>0, <1>1, <2>1 DEF AreHeld, Held, Building, Attempt
  <2>3. Newest(a)
    BY <1>0, <1>1, <2>2 DEF Reference, Building
  <2> QED BY <2>2, <2>3 DEF IsCurrentRuntime
<1>4. ASSUME mounted, Untouched
      PROVE  /\ panel.status # "creating"
             /\ panel.status = "serving" => IsCurrentRuntime(panel.by) /\ room[panel.by] = "open"
  <2>1. panel.status # "creating"
    <3> SUFFICES ASSUME panel.status = "creating" PROVE FALSE
      OBVIOUS
    <3>1. /\ panel.by \in Attempt /\ kind[panel.by] = "link" /\ stage[panel.by] \in {"joined"}
      BY <1>0, <1>2, <1>4, PanelNamesNewest DEF Showing
    <3> QED BY <1>0, <3>1 DEF Sides, Receiving
  <2>2. ASSUME panel.status = "serving" PROVE IsCurrentRuntime(panel.by) /\ room[panel.by] = "open"
    <3>1. panel.by \in Attempt /\ role = "owner" /\ Newest(panel.by) /\ ticket[panel.by] > 0 /\ stage[panel.by] = "serving"
      BY <1>0, <1>4, <2>2, PanelNamesNewest DEF Showing
    <3>2. current = panel.by /\ current # 0
      BY <1>0, <3>1 DEF Reference, Owned, Attempt
    <3> QED BY <1>0, <3>1, <3>2 DEF Showing, IsCurrentRuntime
  <2> QED BY <2>1, <2>2
<1> QED BY <1>2, <1>3, <1>4

LEMMA WordIsKept == CommandInv => CommandsKeepTheirWord
<1> SUFFICES ASSUME CommandInv, NEW k \in Command
             PROVE  /\ applied[k] <= 2
                    /\ run[k].kind \in {"publish", "share"} /\ run[k].end = "done" => run[k].file \in published
                    /\ run[k].kind = "get" /\ run[k].end = "complete" => learned[k].join = learned[k].file
  BY DEF CommandsKeepTheirWord, ReportedIsRecorded, GetMatchesShare
<1>1. /\ applied[k] \in 0..2 /\ run[k].at \in 1..4
      /\ run[k].end \in {"done", "complete"} => ~(run[k].at <= Len(Requests(run[k].kind)))
  BY DEF CommandInv, ClientTypes, Progress, Runs
<1>2. Len(Requests("publish")) = 1 /\ Len(Requests("share")) = 3 /\ Len(Requests("get")) = 2
  BY RequestsOf
<1>3. ASSUME run[k].kind = "publish", run[k].end = "done" PROVE run[k].at > 1
  <2>1. Len(Requests(run[k].kind)) = 1
    BY <1>2, <1>3, Zenon
  <2>2. ~(run[k].at <= 1)
    BY <1>1, <1>3, <2>1, Zenon
  <2> QED BY <1>1, <2>2
<1>4. ASSUME run[k].kind = "share", run[k].end = "done" PROVE run[k].at > 2
  <2>1. Len(Requests(run[k].kind)) = 3
    BY <1>2, <1>4, Zenon
  <2>2. ~(run[k].at <= 3)
    BY <1>1, <1>4, <2>1, Zenon
  <2> QED BY <1>1, <2>2
<1>5. ASSUME run[k].kind = "get", run[k].end = "complete" PROVE run[k].at > 2
  <2>1. Len(Requests(run[k].kind)) = 2
    BY <1>2, <1>5, Zenon
  <2>2. ~(run[k].at <= 2)
    BY <1>1, <1>5, <2>1, Zenon
  <2> QED BY <1>1, <2>2
<1> QED BY <1>1, <1>3, <1>4, <1>5 DEF CommandInv, Recorded

(* However attempts, failures, disposals and the closing of the page (main.tsx) *)
(* interleave, and whatever becomes of the shares and commands around it,     *)
(* the parts of a runtime the page no longer refers to are each in the hands  *)
(* of a disposal, and no generation number is given to two attempts.         *)
THEOREM PageStaysSound == FlowSpec => []PageIsSound
<1>1. PageInv /\ CommandInv => PageIsSound
  BY SoundPage
<1> QED BY <1>1, FlowInvariant, PTL

(* Whenever every await of the page has settled, only the newest attempt has   *)
(* a runtime, it is the referenced one, and a share on the panel of an open   *)
(* page is served from an open room (startSignaledSender apart, which does    *)
(* not touch the panel), for any number of attempts.                         *)
THEOREM PageRestsOnNewest == FlowSpec => []RestsOnNewest
<1>1. PageInv => RestsOnNewest
  BY RestIsOnNewest
<1> QED BY <1>1, FlowInvariant, PTL

(* However many answers of the coordinator are lost (coordinatorRequest), a    *)
(* publish or share that reports success is on record and no request is       *)
(* carried out more than twice; and get completes with the file its code was  *)
(* resolved to, whatever happens to the share between its requests.          *)
THEOREM CommandsAreTrue == FlowSpec => []CommandsKeepTheirWord
<1>1. CommandInv => CommandsKeepTheirWord
  BY WordIsKept
<1> QED BY <1>1, FlowInvariant, PTL
=============================================================================
