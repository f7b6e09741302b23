---------------------- MODULE TransferControllerProofs ----------------------
(* Proofs about TransferController, for every number of windows, calls and   *)
(* requests and every cap: no call is forgotten, a pending call can always   *)
(* still end by itself, and what ended in failure leaves nothing behind.     *)
EXTENDS TransferController, FiniteSetTheorems, TLAPS

Event == [kind : {"retried", "ended", "exhausted", "error"}, generation : Nat]
Job == [kind : {"fail"}, window : Windows, state : Final, by : Call \cup {0}]
         \cup [kind : {"dispose"}, by : {0}]
Active == [call : Call \cup {0}, generation : Nat, scheduled : Nat, ended : Nat,
           deferred : Seq(Event)]
Stage == {"none", "scheduling", "filling", "returning", "recheck", "failing", "awaiting",
          "cleaning", "returned", "threw"}

(* What the other conjuncts need to know of the variables' values.           *)
Shape ==
  /\ calls \in 0..MaxCalls
  /\ window \in [Call -> Windows \cup {"none"}]
  /\ \A c \in 1..calls : window[c] \in Windows
  /\ stage \in [Call -> Stage]
  /\ \A c \in Call : stage[c] # "none" => c <= calls
  /\ promise \in [Call -> {"open", "resolved", "rejected"}]
  /\ timer \subseteq 1..calls
  /\ pending \in [Windows -> Active]
  /\ jobs \in Seq(Job)
  /\ \A i \in 1..Len(jobs) : jobs[i].by <= calls
  /\ working \in 0..calls
  /\ generation \in [Windows -> Nat]
  /\ filling \in [Call -> Nat] /\ out \in [Windows -> Nat]

(* The pending map is keyed by the window of the call it holds.              *)
Keyed ==
  \A w \in Windows : pending[w].call # 0 =>
    pending[w].call <= calls /\ window[pending[w].call] = w

(* The job at the head of the queue is the one that is at work.              *)
HeadAtWork ==
  /\ working # 0 => jobs # <<>> /\ disposal # "cancelling"
  /\ disposal = "cancelling" => jobs # <<>> /\ jobs[1].kind = "dispose"

(* PendingIsGuarded, where a failWindow that already holds another call      *)
(* guards nothing.                                                         *)
Guarded ==
  \A c \in 1..calls : pending[window[c]].call = c =>
    \/ c \in timer
    \/ \E i \in 1..Len(jobs) :
         jobs[i].kind = "fail" /\ jobs[i].window = window[c] /\ (working # 0 => i > 1)

Inv == Shape /\ Keyed /\ HeadAtWork /\ NoForgottenCall /\ Guarded

(* Most steps add jobs to the queue, may drop pending calls that are settled *)
(* and timers that are no longer needed, and otherwise stay within Shape.   *)
Frame ==
  /\ UNCHANGED <<calls, window, working>>
  /\ disposal' = disposal \/ (disposal = "none" /\ disposal' = "queued")
  /\ stage' \in [Call -> Stage] /\ \A c \in Call : stage'[c] # "none" => c <= calls
  /\ generation' \in [Windows -> Nat] /\ filling' \in [Call -> Nat]
  /\ out' \in [Windows -> Nat]

Settling(q) ==
  /\ q \in Seq(Job) /\ \A i \in 1..Len(q) : q[i].by <= calls
  /\ jobs' = jobs \o q
  /\ pending' \in [Windows -> Active]
  /\ \A w \in Windows : pending'[w].call \in {pending[w].call, 0}
  /\ promise' \in [Call -> {"open", "resolved", "rejected"}]
  /\ \A c \in 1..calls : promise'[c] = "open" =>
       promise[c] = "open" /\ (pending[window[c]].call = c => pending'[window[c]].call = c)
  /\ timer' \subseteq timer
  /\ \A c \in timer \ timer' :
       \/ pending'[window[c]].call # c
       \/ \E i \in 1..Len(q) : q[i].kind = "fail" /\ q[i].window = window[c]

ExtendStep == Frame /\ \E q : Settling(q)

(* A queue that grows keeps what it had at the same places.                  *)
LEMMA Grown ==
  ASSUME NEW s \in Seq(Job), NEW q \in Seq(Job)
  PROVE  /\ s \o q \in Seq(Job)
         /\ Len(s \o q) = Len(s) + Len(q)
         /\ \A i \in 1..Len(s) : (s \o q)[i] = s[i]
         /\ \A i \in 1..Len(q) : (s \o q)[Len(s) + i] = q[i]
         /\ \A i \in 1..Len(s) + Len(q) : i > Len(s) => i - Len(s) \in 1..Len(q) /\ (s \o q)[i] = q[i - Len(s)]
         /\ s # <<>> => s \o q # <<>> /\ 1 \in 1..Len(s)
BY DEF Job

(* A step that only extends keeps the invariant.                             *)
LEMMA ExtendKeeps ==
  ASSUME Inv, ControllerAssumption, ExtendStep
  PROVE  Inv'
<1> PICK q : Settling(q)
  BY DEF ExtendStep
<1>0. Frame
  BY DEF ExtendStep
<1> USE <1>0 DEF Frame, Settling
<1>1. /\ Len(jobs) \in Nat /\ Len(q) \in Nat
      /\ jobs' \in Seq(Job)
      /\ Len(jobs') = Len(jobs) + Len(q)
      /\ \A i \in 1..Len(jobs) : jobs'[i] = jobs[i]
      /\ \A i \in 1..Len(q) : jobs'[Len(jobs) + i] = q[i]
      /\ \A i \in 1..Len(jobs') : i > Len(jobs) => i - Len(jobs) \in 1..Len(q) /\ jobs'[i] = q[i - Len(jobs)]
      /\ jobs # <<>> => jobs' # <<>> /\ 1 \in 1..Len(jobs)
  BY Grown DEF Inv, Shape
<1>2. Shape'
  <2>1. \A i \in 1..Len(jobs') : jobs'[i].by <= calls
    BY <1>1 DEF Inv, Shape
  <2>2. timer' \subseteq 1..calls
    BY DEF Inv, Shape
  <2> QED BY <1>1, <2>1, <2>2 DEF Inv, Shape
<1>3. Keyed'
  BY DEF Inv, Shape, Keyed, Active
<1>4. HeadAtWork'
  BY <1>1 DEF Inv, HeadAtWork, Shape
<1>5. NoForgottenCall'
  BY DEF Inv, NoForgottenCall, Shape
<1>6. Guarded'
  <2> SUFFICES ASSUME NEW c \in 1..calls, pending'[window[c]].call = c, c \notin timer'
               PROVE  \E i \in 1..Len(jobs') : jobs'[i].kind = "fail" /\ jobs'[i].window = window[c]
                                               /\ (working # 0 => i > 1)
    BY DEF Guarded
  <2>1. window[c] \in Windows /\ c # 0 /\ pending[window[c]].call = c
    BY DEF Inv, Shape, ControllerAssumption
  <2>2. CASE c \in timer
    <3>1. PICK i \in 1..Len(q) : q[i].kind = "fail" /\ q[i].window = window[c]
      BY <2>2
    <3>2. working # 0 => Len(jobs) >= 1
      BY <1>1 DEF Inv, HeadAtWork
    <3>3. Len(jobs) + i \in 1..Len(jobs') /\ (working # 0 => Len(jobs) + i > 1)
      BY <1>1, <3>2
    <3> QED BY <1>1, <3>1, <3>3
  <2>3. CASE c \notin timer
    <3>1. PICK i \in 1..Len(jobs) : jobs[i].kind = "fail" /\ jobs[i].window = window[c]
                                    /\ (working # 0 => i > 1)
      BY <2>1, <2>3 DEF Inv, Guarded
    <3>2. i \in 1..Len(jobs')
      BY <1>1
    <3> QED BY <1>1, <3>1, <3>2
  <2> QED BY <2>2, <2>3
<1> QED BY <1>2, <1>3, <1>4, <1>5, <1>6 DEF Inv

(* A finite number of events, counted.                                       *)
LEMMA Counted ==
  ASSUME NEW n \in Nat, NEW S \in SUBSET (1..n)
  PROVE  Cardinality(S) \in Nat
<1>1. IsFiniteSet(1..n)
  BY FS_Interval
<1>2. IsFiniteSet(S)
  BY <1>1, FS_Subset
<1> QED BY <1>2, FS_CardinalityType

(* The handlers of the engine's events: an entry stays, with more terminals, *)
(* or is complete and its call resolved.                                   *)
LEMMA HandleSettles ==
  ASSUME Inv, ControllerAssumption, NEW w \in Windows, NEW e \in Active, NEW evs \in Seq(Event),
         e.call = pending[w].call, e.call # 0, Handle(w, e, evs), UNCHANGED <<calls, window>>
  PROVE  \E q : Settling(q)
<1> DEFINE done == Completing(e, evs)
           failures == {i \in 1..Len(evs) : /\ ~IsTerminal(evs[i]) /\ evs[i].generation = e.generation
                                            /\ \A j \in done : i < j}
           n == Cardinality(failures)
           q == [i \in 1..n |-> FailJob(w, "failed", 0)]
<1>1. Len(evs) \in Nat /\ n \in Nat
  <2>1. Len(evs) \in Nat /\ failures \in SUBSET (1..Len(evs))
    OBVIOUS
  <2> HIDE DEF failures
  <2> QED BY <2>1, Counted
<1>2. FailJob(w, "failed", 0) \in Job
  BY DEF FailJob, Job, Final
<1>3. q \in Seq(Job) /\ \A i \in 1..Len(q) : q[i].by <= calls
  <2>1. q \in [1..n -> Job] /\ Len(q) = n
    BY <1>1, <1>2
  <2>2. \A i \in 1..n : q[i].by = 0
    BY DEF FailJob
  <2>3. calls \in Nat
    BY DEF Inv, Shape, ControllerAssumption
  <2> HIDE DEF q, n
  <2>4. q \in Seq(Job)
    BY <1>1, <2>1
  <2>5. \A i \in 1..Len(q) : q[i].by <= calls
    BY <1>1, <2>1, <2>2, <2>3, SMTT(20)
  <2> QED BY <2>4, <2>5
<1>4. jobs' = jobs \o q
  BY DEF Handle
<1>5. e.call \in 1..calls /\ window[e.call] = w /\ e.call \in Call
  BY SMTT(30) DEF Inv, Shape, Keyed, Active, Call, ControllerAssumption
<1>6. CASE done # {}
  <2>1. /\ pending' = [pending EXCEPT ![w] = NoEntry]
        /\ promise' = [promise EXCEPT ![e.call] = "resolved"]
        /\ timer' = timer \ {e.call}
    BY <1>6 DEF Handle
  <2>2. NoEntry \in Active /\ NoEntry.call = 0
    BY DEF NoEntry, Entry, Active
  <2>3. pending' \in [Windows -> Active] /\ \A v \in Windows : pending'[v].call \in {pending[v].call, 0}
    BY <2>1, <2>2 DEF Inv, Shape
  <2>4. \A c \in 1..calls : promise'[c] = "open" =>
          promise[c] = "open" /\ (pending[window[c]].call = c => pending'[window[c]].call = c)
    <3> SUFFICES ASSUME NEW c \in 1..calls, promise'[c] = "open"
                 PROVE  promise[c] = "open" /\ (pending[window[c]].call = c => pending'[window[c]].call = c)
      OBVIOUS
    <3>1. c # e.call /\ promise[c] = "open" /\ window[c] \in Windows
      BY <2>1, <1>5 DEF Inv, Shape, Call
    <3> QED BY <3>1, <2>1 DEF Inv, Shape
  <2>5. pending'[window[e.call]].call # e.call
    BY <2>1, <2>2, <1>5 DEF Inv, Shape
  <2>6. promise' \in [Call -> {"open", "resolved", "rejected"}]
    BY <2>1 DEF Inv, Shape
  <2>7. Settling(q)
    BY <1>3, <1>4, <2>1, <2>3, <2>4, <2>5, <2>6 DEF Settling
  <2> QED BY <2>7
<1>7. CASE done = {}
  <2> DEFINE new == [e EXCEPT !.ended = EndedAfter(e, evs, Len(evs))]
  <2>1. pending' = [pending EXCEPT ![w] = new] /\ UNCHANGED <<promise, timer>>
    BY <1>7 DEF Handle
  <2>2. EndedAfter(e, evs, Len(evs)) \in Nat
    <3> DEFINE S == {j \in 1..Len(evs) : evs[j].kind = "ended" /\ evs[j].generation = e.generation}
    <3>1. Cardinality(S) \in Nat
      <4>1. S \in SUBSET (1..Len(evs))
        OBVIOUS
      <4> HIDE DEF S
      <4> QED BY <1>1, <4>1, Counted
    <3> QED BY <3>1 DEF EndedAfter, Active
  <2>3. new \in Active /\ new.call = e.call
    BY <2>2 DEF Active
  <2>4. pending' \in [Windows -> Active] /\ \A v \in Windows : pending'[v].call = pending[v].call
    BY <2>1, <2>3 DEF Inv, Shape
  <2>5. \A c \in 1..calls : window[c] \in Windows
    BY DEF Inv, Shape
  <2>6. Settling(q)
    BY <1>3, <1>4, <2>1, <2>4, <2>5 DEF Settling, Inv, Shape
  <2> QED BY <2>6
<1> QED BY <1>6, <1>7

(* The engine's events have the generation of their window.                  *)
LEMMA EventsOfWindow ==
  ASSUME Inv, NEW w \in Windows, NEW retry \in BOOLEAN
  PROVE  Terminal(w, retry) \in Event /\ Exhausted(w) \in Event /\ ErrorEvent(w) \in Event
BY DEF Inv, Shape, Event, Terminal, Exhausted, ErrorEvent

LEMMA EventSequences ==
  ASSUME NEW a \in Event, NEW b \in Event
  PROVE  <<a>> \in Seq(Event) /\ <<a, b>> \in Seq(Event)
OBVIOUS

(* A step that leaves the queue, the promises and the calls of the pending   *)
(* map alone.                                                              *)
LEMMA QuietSettles ==
  ASSUME Inv, UNCHANGED <<jobs, promise, timer>>, pending' \in [Windows -> Active],
         \A v \in Windows : pending'[v].call = pending[v].call
  PROVE  \E q : Settling(q)
<1>1. <<>> \in Seq(Job) /\ Len(<<>>) = 0 /\ jobs = jobs \o <<>>
  BY DEF Inv, Shape
<1>2. \A c \in 1..calls : window[c] \in Windows
  BY DEF Inv, Shape
<1>3. Settling(<<>>)
  BY <1>1, <1>2 DEF Settling, Inv, Shape
<1> QED BY <1>3

(* A failWindow for the window of every call whose timer goes.               *)
LEMMA AppendSettles ==
  ASSUME Inv, ControllerAssumption, NEW w \in Windows, NEW s \in Final, NEW by \in 0..calls,
         jobs' = Append(jobs, FailJob(w, s, by)), UNCHANGED <<promise, pending>>,
         timer' \subseteq timer, \A c \in timer \ timer' : window[c] = w
  PROVE  \E q : Settling(q)
<1> DEFINE job == FailJob(w, s, by)
           q == <<job>>
<1>1. job \in Job /\ job.kind = "fail" /\ job.window = w /\ job.by = by /\ by <= calls
  BY DEF FailJob, Job, Call, Inv, Shape, ControllerAssumption
<1> HIDE DEF job
<1>2. q \in Seq(Job) /\ Len(q) = 1 /\ q[1] = job
  BY <1>1
<1>3. jobs' = jobs \o q
  BY <1>1 DEF Inv, Shape, job
<1>4. \A c \in 1..calls : window[c] \in Windows
  BY DEF Inv, Shape
<1>5. \A i \in 1..Len(q) : q[i].by <= calls
  BY <1>1, <1>2
<1>6. \A c \in timer \ timer' : \E i \in 1..Len(q) : q[i].kind = "fail" /\ q[i].window = window[c]
  BY <1>1, <1>2
<1> HIDE DEF q
<1>7. Settling(q)
  BY <1>2, <1>3, <1>4, <1>5, <1>6 DEF Settling, Inv, Shape
<1> QED BY <1>7

(* A failWindow for every pending call.                                      *)
LEMMA FailAllSettles ==
  ASSUME Inv, ControllerAssumption, NEW s \in Final, FailAll(s), UNCHANGED entryVars
  PROVE  \E q : Settling(q)
<1>1. calls \in Nat
  BY DEF Inv, Shape, ControllerAssumption
<1> PICK n \in 0..calls : \E order \in [1..n -> Pending] :
        jobs' = jobs \o [i \in 1..n |-> FailJob(window[order[i]], s, 0)]
  BY DEF FailAll
<1>2. PICK order \in [1..n -> Pending] :
        jobs' = jobs \o [i \in 1..n |-> FailJob(window[order[i]], s, 0)]
  OBVIOUS
<1> DEFINE q == [i \in 1..n |-> FailJob(window[order[i]], s, 0)]
<1>3. \A i \in 1..n : FailJob(window[order[i]], s, 0) \in Job /\ FailJob(window[order[i]], s, 0).by = 0
  BY <1>2 DEF FailJob, Job, Pending, Inv, Shape
<1>4. q \in [1..n -> Job] /\ \A i \in 1..n : q[i].by = 0
  BY <1>3
<1>5. n \in Nat /\ jobs' = jobs \o q
  BY <1>1, <1>2
<1> HIDE DEF q
<1>6. q \in Seq(Job) /\ Len(q) = n
  BY <1>4, <1>5
<1>7. \A i \in 1..Len(q) : q[i].by <= calls
  BY <1>1, <1>4, <1>5, <1>6
<1>8. Settling(q)
  BY <1>5, <1>6, <1>7 DEF Settling, entryVars, Inv, Shape
<1> QED BY <1>8

(* The engine's events, whether somebody listens, defers or handles them.    *)
LEMMA EmitSettles ==
  ASSUME Inv, ControllerAssumption, NEW w \in Windows, NEW evs \in Seq(Event), Emit(w, evs)
  PROVE  (\E q : Settling(q)) /\ UNCHANGED <<calls, window, working, disposal>>
<1> DEFINE e == pending[w]
<1>1. UNCHANGED <<calls, window, working, disposal>>
  BY DEF Emit, callVars
<1>2. e \in Active
  BY DEF Inv, Shape
<1>3. CASE e.call # 0 /\ e.generation # 0
  BY <1>1, <1>2, <1>3, HandleSettles DEF Emit
<1>4. CASE ~(e.call # 0 /\ e.generation # 0)
  <2>1. UNCHANGED <<jobs, promise, timer>>
    BY <1>4 DEF Emit
  <2>2. pending' \in [Windows -> Active] /\ \A v \in Windows : pending'[v].call = pending[v].call
    <3>1. CASE e.call = 0
      BY <1>4, <3>1 DEF Emit, Inv, Shape
    <3>2. CASE e.call # 0
      <4> DEFINE new == [e EXCEPT !.deferred = @ \o evs]
      <4>1. pending' = [pending EXCEPT ![w] = new]
        BY <1>4, <3>2 DEF Emit, Inv, Shape
      <4>2. e.deferred \o evs \in Seq(Event)
        BY <1>2 DEF Active
      <4>3. new \in Active /\ new.call = e.call
        BY <1>2, <4>2 DEF Active
      <4> QED BY <4>1, <4>3 DEF Inv, Shape
    <3> QED BY <3>1, <3>2
  <2> QED BY <1>1, <2>1, <2>2, QuietSettles
<1> QED BY <1>3, <1>4

-----------------------------------------------------------------------------
(* A call that is under way moves to another stage.                          *)
LEMMA StageMoves ==
  ASSUME Inv, NEW c \in Call, stage[c] # "none", NEW s \in Stage,
         stage' = [stage EXCEPT ![c] = s]
  PROVE  /\ stage' \in [Call -> Stage] /\ \A d \in Call : stage'[d] # "none" => d <= calls
         /\ window[c] \in Windows /\ c \in 1..calls /\ c \in 0..calls
BY DEF Inv, Shape, Call

(* A failure queued by the call itself.                                      *)
LEMMA CatchSettles ==
  ASSUME Inv, ControllerAssumption, NEW c \in Call, stage[c] # "none", Catch(c)
  PROVE  /\ \E q : Settling(q)
         /\ stage' \in [Call -> Stage] /\ \A d \in Call : stage'[d] # "none" => d <= calls
         /\ UNCHANGED <<calls, window, working, disposal>>
<1>1. /\ stage' = [stage EXCEPT ![c] = "cleaning"] /\ "cleaning" \in Stage
      /\ UNCHANGED <<calls, window, working, disposal, promise, pending, timer>>
      /\ jobs' = Append(jobs, FailJob(window[c], "failed", c))
  BY DEF Catch, Stage, lifeVars, callVars, entryVars
<1>2. /\ stage' \in [Call -> Stage] /\ \A d \in Call : stage'[d] # "none" => d <= calls
      /\ window[c] \in Windows /\ c \in 0..calls
  BY <1>1, StageMoves
<1>3. "failed" \in Final
  BY DEF Final
<1> QED BY <1>1, <1>2, <1>3, AppendSettles

(* The ways a request of window w ends.                                      *)
LEMMA RequestSettles ==
  ASSUME Inv, ControllerAssumption, NEW w \in Windows, NEW n \in Nat, NEW k,
         \/ \E retry \in BOOLEAN : Settles(w, retry, n, k)
         \/ Verified(w) /\ out[w] > 0
         \/ SaveFails(w, n, k)
  PROVE  /\ \E q : Settling(q)
         /\ UNCHANGED <<calls, window, working, disposal, generation>>
         /\ out' \in [Windows -> Nat]
<1>1. CASE \E retry \in BOOLEAN : Settles(w, retry, n, k)
  <2> PICK retry \in BOOLEAN : Settles(w, retry, n, k)
    BY <1>1
  <2> DEFINE last == ~retry /\ w \notin exhausted
             evs == <<Terminal(w, retry)>> \o IF last THEN <<Exhausted(w)>> ELSE <<>>
  <2>1. <<Terminal(w, retry)>> \in Seq(Event) /\ (IF last THEN <<Exhausted(w)>> ELSE <<>>) \in Seq(Event)
    BY EventsOfWindow
  <2>2. evs \in Seq(Event)
    BY <2>1
  <2>3. Emit(w, evs) /\ generation' = generation /\ out' = [out EXCEPT ![w] = n]
    BY DEF Settles
  <2> HIDE DEF evs
  <2> QED BY <2>2, <2>3, EmitSettles DEF Inv, Shape
<1>2. CASE Verified(w) /\ out[w] > 0
  <2>1. <<Terminal(w, FALSE)>> \in Seq(Event)
    <3>1. FALSE \in BOOLEAN
      OBVIOUS
    <3>2. Terminal(w, FALSE) \in Event
      BY <3>1, EventsOfWindow
    <3> QED BY <3>2, EventSequences
  <2>2. Emit(w, <<Terminal(w, FALSE)>>) /\ generation' = generation /\ out' = [out EXCEPT ![w] = @ - 1]
    BY <1>2 DEF Verified
  <2>3. out' \in [Windows -> Nat]
    BY <1>2, <2>2 DEF Inv, Shape
  <2> QED BY <2>1, <2>2, <2>3, EmitSettles
<1>3. CASE SaveFails(w, n, k)
  <2>1. <<ErrorEvent(w), Terminal(w, FALSE)>> \in Seq(Event)
    <3>1. FALSE \in BOOLEAN
      OBVIOUS
    <3>2. ErrorEvent(w) \in Event /\ Terminal(w, FALSE) \in Event
      BY <3>1, EventsOfWindow
    <3> QED BY <3>2, EventSequences
  <2>2. /\ Emit(w, <<ErrorEvent(w), Terminal(w, FALSE)>>) /\ generation' = generation
        /\ out' = [out EXCEPT ![w] = n]
    BY <1>3 DEF SaveFails
  <2> QED BY <2>1, <2>2, EmitSettles DEF Inv, Shape
<1> QED BY <1>1, <1>2, <1>3

(* requestWindow goes on, its timer fires, or the engine works for it.       *)
LEMMA CallExtends ==
  ASSUME Inv, ControllerAssumption, NEW c \in Call,
         CallProceeds(c) \/ Timeout(c) \/ FillIssues(c) \/ FillFails(c)
  PROVE  ExtendStep
<1> USE DEF ExtendStep, Frame, lifeVars, callVars, entryVars, jobVars, engineVars
<1>0. generation \in [Windows -> Nat] /\ filling \in [Call -> Nat] /\ out \in [Windows -> Nat]
  BY DEF Inv, Shape
<1>1. CASE FillRefused(c)
  BY <1>0, <1>1, CatchSettles DEF FillRefused
<1>2. CASE FillStops(c)
  <2>1. stage[c] # "none" /\ "returning" \in Stage /\ stage' = [stage EXCEPT ![c] = "returning"]
    BY <1>2 DEF FillStops, MayFill, Stage
  <2>2. UNCHANGED <<calls, window, working, disposal, jobs, promise, timer, pending, generation, filling, out>>
    BY <1>2 DEF FillStops
  <2>3. \E q : Settling(q)
    BY <2>2, QuietSettles DEF Inv, Shape
  <2> QED BY <1>0, <2>1, <2>2, <2>3, StageMoves
<1>3. CASE ScheduledReturns(c)
  <2> DEFINE w == window[c]
             e == pending[w]
             new == [e EXCEPT !.scheduled = filling[c], !.generation = generation[w], !.deferred = <<>>]
  <2>1. \E s \in Stage : stage' = [stage EXCEPT ![c] = s]
    BY <1>3 DEF ScheduledReturns, Stage
  <2>2. stage[c] # "none"
    BY <1>3 DEF ScheduledReturns
  <2>3. w \in Windows /\ stage' \in [Call -> Stage] /\ \A d \in Call : stage'[d] # "none" => d <= calls
    BY <2>1, <2>2, StageMoves
  <2>4. UNCHANGED <<calls, window, working, disposal, generation, out>> /\ filling' \in [Call -> Nat]
    BY <1>0, <1>3 DEF ScheduledReturns
  <2>5. CASE e.call # 0
    <3>1. e \in Active /\ e.deferred \in Seq(Event)
      BY <2>3 DEF Inv, Shape, Active
    <3>2. new \in Active /\ new.call = e.call
      <4>1. filling[c] \in Nat /\ generation[w] \in Nat /\ <<>> \in Seq(Event)
        BY <1>0, <2>3
      <4> HIDE DEF e, w
      <4> QED BY <3>1, <4>1 DEF Active
    <3>3. Handle(w, new, e.deferred)
      BY <1>3, <2>5 DEF ScheduledReturns
    <3> HIDE DEF new
    <3>4. \E q : Settling(q)
      BY <2>3, <2>4, <2>5, <3>1, <3>2, <3>3, HandleSettles
    <3> QED BY <1>0, <2>3, <2>4, <3>4
  <2>6. CASE e.call = 0
    <3>1. UNCHANGED <<jobs, promise, timer, pending>>
      BY <1>3, <2>6 DEF ScheduledReturns
    <3>2. \E q : Settling(q)
      BY <3>1, QuietSettles DEF Inv, Shape
    <3> QED BY <1>0, <2>3, <2>4, <3>2
  <2> QED BY <2>5, <2>6
<1>4. CASE Rechecked(c)
  <2>1. stage[c] # "none" /\ \E s \in Stage : stage' = [stage EXCEPT ![c] = s]
    BY <1>4 DEF Rechecked, Stage
  <2>2. /\ window[c] \in Windows /\ c \in 0..calls
        /\ stage' \in [Call -> Stage] /\ \A d \in Call : stage'[d] # "none" => d <= calls
    BY <2>1, StageMoves
  <2>3. UNCHANGED <<calls, window, working, disposal, promise, timer, generation, filling, out>>
    BY <1>4 DEF Rechecked
  <2>4. CASE TotalOut > 0
    <3>1. /\ UNCHANGED jobs
          /\ pending' = IF pending[window[c]].call = 0 THEN pending
                        ELSE [pending EXCEPT ![window[c]].scheduled = TotalOut]
      BY <1>4, <2>4 DEF Rechecked
    <3>2. TotalOut \in Nat
      <4>1. IsFiniteSet(Windows \X (1..Cap))
        <5>1. IsFiniteSet(1..Cap)
          BY FS_Interval DEF ControllerAssumption
        <5> QED BY <5>1, FS_Product DEF ControllerAssumption
      <4>2. {x \in Windows \X (1..Cap) : x[2] <= out[x[1]]} \in SUBSET (Windows \X (1..Cap))
        OBVIOUS
      <4>3. IsFiniteSet({x \in Windows \X (1..Cap) : x[2] <= out[x[1]]})
        BY <4>1, <4>2, FS_Subset
      <4> QED BY <4>3, FS_CardinalityType DEF TotalOut
    <3>3. pending' \in [Windows -> Active] /\ \A v \in Windows : pending'[v].call = pending[v].call
      BY <2>2, <3>1, <3>2 DEF Inv, Shape, Active
    <3>4. \E q : Settling(q)
      BY <2>3, <3>1, <3>3, QuietSettles
    <3> QED BY <1>0, <2>2, <2>3, <3>4
  <2>5. CASE ~(TotalOut > 0)
    <3>1. jobs' = Append(jobs, FailJob(window[c], "failed", c)) /\ UNCHANGED pending
      BY <1>4, <2>5 DEF Rechecked
    <3>2. "failed" \in Final
      BY DEF Final
    <3>3. \E q : Settling(q)
      BY <2>2, <2>3, <3>1, <3>2, AppendSettles
    <3> QED BY <1>0, <2>2, <2>3, <3>3
  <2> QED BY <2>4, <2>5
<1>5. CASE RecheckFails(c)
  BY <1>0, <1>5, CatchSettles DEF RecheckFails
<1>6. CASE ResultResolves(c)
  <2>1. stage[c] # "none" /\ "returned" \in Stage /\ stage' = [stage EXCEPT ![c] = "returned"]
    BY <1>6 DEF ResultResolves, Stage
  <2>2. UNCHANGED <<calls, window, working, disposal, jobs, promise, timer, pending, generation, filling, out>>
    BY <1>6 DEF ResultResolves
  <2>3. \E q : Settling(q)
    BY <2>2, QuietSettles DEF Inv, Shape
  <2> QED BY <1>0, <2>1, <2>2, <2>3, StageMoves
<1>7. CASE ResultRejects(c)
  BY <1>0, <1>7, CatchSettles DEF ResultRejects
<1>8. CASE Timeout(c)
  <2>1. /\ c \in timer /\ timer' = timer \ {c}
        /\ jobs' = Append(jobs, FailJob(window[c], "failed", 0))
        /\ UNCHANGED <<calls, window, working, disposal, stage, promise, pending, generation, filling, out>>
    BY <1>8 DEF Timeout
  <2>2. window[c] \in Windows /\ 0 \in 0..calls /\ "failed" \in Final
    BY <2>1 DEF Inv, Shape, Final, ControllerAssumption
  <2>3. timer' \subseteq timer /\ \A d \in timer \ timer' : window[d] = window[c]
    BY <2>1
  <2>4. \E q : Settling(q)
    BY <2>1, <2>2, <2>3, AppendSettles
  <2> QED BY <1>0, <2>1, <2>4 DEF Inv, Shape
<1>9. CASE FillIssues(c)
  <2>1. stage[c] # "none" /\ "filling" \in Stage /\ stage' = [stage EXCEPT ![c] = "filling"]
    BY <1>9 DEF FillIssues, MayFill, Stage
  <2>2. /\ UNCHANGED <<calls, window, working, disposal, jobs, promise, timer, pending, generation>>
        /\ filling' = [filling EXCEPT ![c] = @ + 1] /\ out' = [out EXCEPT ![window[c]] = @ + 1]
    BY <1>9 DEF FillIssues
  <2>3. \E q : Settling(q)
    BY <2>2, QuietSettles DEF Inv, Shape
  <2>4. window[c] \in Windows
    BY <2>1, StageMoves
  <2>5. filling' \in [Call -> Nat] /\ out' \in [Windows -> Nat]
    <3>1. filling[c] + 1 \in Nat /\ out[window[c]] + 1 \in Nat
      BY <1>0, <2>4
    <3> QED BY <1>0, <2>2, <3>1
  <2> QED BY <1>0, <2>1, <2>2, <2>3, <2>5, StageMoves
<1>10. CASE FillFails(c)
  <2> DEFINE w == window[c]
  <2>1. stage[c] # "none" /\ "returning" \in Stage /\ stage' = [stage EXCEPT ![c] = "returning"]
    BY <1>10 DEF FillFails, MayFill, Stage
  <2>2. w \in Windows /\ stage' \in [Call -> Stage] /\ \A d \in Call : stage'[d] # "none" => d <= calls
    BY <2>1, StageMoves
  <2>3. /\ \/ \E retry \in BOOLEAN : Settles(w, retry, out[w], retrying[w])
           \/ SaveFails(w, out[w], retrying[w])
        /\ filling' = filling
    BY <1>10 DEF FillFails
  <2>4. out[w] \in Nat
    BY <1>0, <2>2
  <2>5. /\ \E q : Settling(q)
        /\ UNCHANGED <<calls, window, working, disposal, generation>>
        /\ out' \in [Windows -> Nat]
    BY <2>2, <2>3, <2>4, RequestSettles
  <2> QED BY <1>0, <2>2, <2>3, <2>5
<1> QED BY <1>1, <1>2, <1>3, <1>4, <1>5, <1>6, <1>7, <1>8, <1>9, <1>10 DEF CallProceeds

(* What cancelling windows does to the values Shape speaks of.               *)
LEMMA CancelledShape ==
  ASSUME Inv, NEW S, Cancelled(S)
  PROVE  generation' \in [Windows -> Nat] /\ out' \in [Windows -> Nat] /\ filling' = filling
BY DEF Cancelled, Inv, Shape

(* A key that is taken, the engine's own steps, and the page's cancel.       *)
LEMMA WindowExtends ==
  ASSUME Inv, ControllerAssumption, NEW w \in Windows,
         RequestWindowAgain(w) \/ CancelByOwner(w) \/ RequestEnds(w) \/ RetryRuns(w)
  PROVE  ExtendStep
<1> USE DEF ExtendStep, Frame
<1>0. /\ generation \in [Windows -> Nat] /\ filling \in [Call -> Nat] /\ out \in [Windows -> Nat]
      /\ stage \in [Call -> Stage] /\ \A c \in Call : stage[c] # "none" => c <= calls
      /\ out[w] \in Nat
  BY DEF Inv, Shape
<1>1. CASE RequestWindowAgain(w)
  <2>1. UNCHANGED <<calls, window, working, disposal, stage, jobs, promise, timer, pending, generation,
                    filling, out>>
    BY <1>1 DEF RequestWindowAgain, callVars, entryVars, jobVars, engineVars
  <2>2. \E q : Settling(q)
    BY <2>1, QuietSettles DEF Inv, Shape
  <2> QED BY <1>0, <2>1, <2>2
<1>2. CASE CancelByOwner(w)
  <2> DEFINE n == out[w]
             evs == [i \in 1..n |-> Terminal(w, FALSE)]
  <2>1. Emit(w, evs) /\ Cancelled({w}) /\ UNCHANGED stage
    BY <1>2 DEF CancelByOwner
  <2>2. evs \in Seq(Event)
    <3>1. FALSE \in BOOLEAN
      OBVIOUS
    <3>2. Terminal(w, FALSE) \in Event
      BY <3>1, EventsOfWindow
    <3>3. evs \in [1..n -> Event] /\ n \in Nat
      BY <1>0, <3>2
    <3> HIDE DEF evs, n
    <3> QED BY <3>3
  <2> HIDE DEF evs
  <2>3. (\E q : Settling(q)) /\ UNCHANGED <<calls, window, working, disposal>>
    BY <2>1, <2>2, EmitSettles
  <2>4. generation' \in [Windows -> Nat] /\ out' \in [Windows -> Nat] /\ filling' = filling
    BY <2>1, CancelledShape
  <2> QED BY <1>0, <2>1, <2>3, <2>4
<1>3. CASE RequestEnds(w)
  <2>1. /\ out[w] > 0 /\ UNCHANGED <<stage, filling>>
        /\ \/ \E retry \in BOOLEAN : Settles(w, retry, out[w] - 1, retrying[w])
           \/ Verified(w)
           \/ SaveFails(w, out[w] - 1, retrying[w])
    BY <1>3 DEF RequestEnds
  <2>2. out[w] - 1 \in Nat
    BY <1>0, <2>1
  <2>3. /\ \E q : Settling(q)
        /\ UNCHANGED <<calls, window, working, disposal, generation>>
        /\ out' \in [Windows -> Nat]
    BY <2>1, <2>2, RequestSettles
  <2> QED BY <1>0, <2>1, <2>3
<1>4. CASE RetryRuns(w)
  <2> DEFINE k == retrying[w] - 1
  <2>1. UNCHANGED <<stage, filling>>
    BY <1>4 DEF RetryRuns
  <2>2. \/ /\ UNCHANGED <<calls, window, working, disposal, jobs, promise, timer, pending, generation>>
           /\ out' = out \/ out' = [out EXCEPT ![w] = @ + 1]
        \/ \E retry \in BOOLEAN : Settles(w, retry, out[w], k)
        \/ SaveFails(w, out[w], k)
    BY <1>4 DEF RetryRuns, lifeVars, callVars, entryVars, jobVars
  <2>3. CASE /\ UNCHANGED <<calls, window, working, disposal, jobs, promise, timer, pending, generation>>
             /\ out' = out \/ out' = [out EXCEPT ![w] = @ + 1]
    <3>1. \E q : Settling(q)
      BY <2>3, QuietSettles DEF Inv, Shape
    <3>2. out' \in [Windows -> Nat]
      BY <1>0, <2>3
    <3> QED BY <1>0, <2>1, <2>3, <3>1, <3>2
  <2>4. CASE (\E retry \in BOOLEAN : Settles(w, retry, out[w], k)) \/ SaveFails(w, out[w], k)
    <3>1. /\ \E q : Settling(q)
          /\ UNCHANGED <<calls, window, working, disposal, generation>>
          /\ out' \in [Windows -> Nat]
      <4>1. out[w] \in Nat
        BY <1>0
      <4> HIDE DEF k
      <4> QED BY <2>4, <4>1, RequestSettles
    <3> QED BY <1>0, <2>1, <3>1
  <2> QED BY <2>2, <2>3, <2>4
<1> QED BY <1>1, <1>2, <1>3, <1>4

(* The transport, the abort signal, a flush, and dispose up to its job.      *)
LEMMA PageExtends ==
  ASSUME Inv, ControllerAssumption,
         TransportFatal \/ Abort \/ OwnerFlush \/ \E o \in Final : Dispose(o)
  PROVE  ExtendStep
<1> USE DEF ExtendStep, Frame, lifeVars, callVars, jobVars, engineVars
<1>0. /\ generation \in [Windows -> Nat] /\ filling \in [Call -> Nat] /\ out \in [Windows -> Nat]
      /\ stage \in [Call -> Stage] /\ \A c \in Call : stage[c] # "none" => c <= calls
      /\ \A c \in 1..calls : window[c] \in Windows
  BY DEF Inv, Shape
<1>1. CASE TransportFatal
  <2>1. "failed" \in Final /\ FailAll("failed") /\ UNCHANGED entryVars
    BY <1>1 DEF TransportFatal, Final
  <2>2. UNCHANGED <<calls, window, working, disposal, stage, generation, filling, out>>
    BY <1>1 DEF TransportFatal
  <2> QED BY <1>0, <2>1, <2>2, FailAllSettles
<1>2. CASE Abort
  <2>1. "cancelled" \in Final /\ FailAll("cancelled") /\ UNCHANGED entryVars
    BY <1>2 DEF Abort, Final
  <2>2. UNCHANGED <<calls, window, working, disposal, stage, generation, filling, out>>
    BY <1>2 DEF Abort
  <2> QED BY <1>0, <2>1, <2>2, FailAllSettles
<1>3. CASE OwnerFlush
  <2>1. UNCHANGED <<calls, window, working, disposal, stage, jobs, promise, timer, pending, generation,
                    filling, out>>
    BY <1>3 DEF OwnerFlush, entryVars
  <2>2. \E q : Settling(q)
    BY <2>1, QuietSettles DEF Inv, Shape
  <2> QED BY <1>0, <2>1, <2>2
<1>4. ASSUME NEW o \in Final, Dispose(o)
      PROVE  ExtendStep
  <2>1. /\ disposal = "none" /\ disposal' = "queued"
        /\ promise' = [c \in Call |-> IF c \in Pending THEN "rejected" ELSE promise[c]]
        /\ timer' = timer \ Pending
        /\ pending' = [w \in Windows |-> NoEntry]
        /\ jobs' = Append(jobs, DisposeJob)
        /\ UNCHANGED <<calls, window, working, stage, generation, filling, out>>
    BY <1>4 DEF Dispose
  <2>2. DisposeJob \in Job /\ DisposeJob.by = 0
    BY DEF DisposeJob, Job
  <2>3. NoEntry \in Active /\ NoEntry.call = 0
    BY DEF NoEntry, Entry, Active
  <2>4. <<DisposeJob>> \in Seq(Job) /\ Len(<<DisposeJob>>) = 1 /\ <<DisposeJob>>[1] = DisposeJob
    BY <2>2
  <2>5. jobs' = jobs \o <<DisposeJob>> /\ \A i \in 1..Len(<<DisposeJob>>) : <<DisposeJob>>[i].by <= calls
    BY <2>1, <2>2, <2>4 DEF Inv, Shape, ControllerAssumption
  <2>6. promise' \in [Call -> {"open", "resolved", "rejected"}]
    BY <2>1 DEF Inv, Shape
  <2>7. \A c \in 1..calls : promise'[c] = "open" =>
          promise[c] = "open" /\ (pending[window[c]].call = c => pending'[window[c]].call = c)
    <3>1. \A c \in 1..calls : c \in Call
      BY DEF Inv, Shape, Call, ControllerAssumption
    <3> QED BY <2>1, <3>1 DEF Pending
  <2>8. \A c \in timer \ timer' : pending'[window[c]].call # c
    BY <1>0, <2>1, <2>3 DEF Inv, Shape, ControllerAssumption
  <2>9. pending' \in [Windows -> Active] /\ \A w \in Windows : pending'[w].call = 0
    BY <2>1, <2>3
  <2>10. Settling(<<DisposeJob>>)
    BY <2>1, <2>4, <2>5, <2>6, <2>7, <2>8, <2>9 DEF Settling
  <2> QED BY <1>0, <2>1, <2>10
<1> QED BY <1>1, <1>2, <1>3, <1>4

-----------------------------------------------------------------------------
(* requestWindow registers a call: it is pending, and its timer is armed.    *)
LEMMA RequestWindowKeeps ==
  ASSUME Inv, ControllerAssumption, NEW w \in Windows, RequestWindow(w)
  PROVE  Inv'
<1> DEFINE c == calls + 1
<1>1. /\ calls' = c /\ c \in Call /\ pending[w] = NoEntry
      /\ window' = [window EXCEPT ![c] = w]
      /\ stage' = [stage EXCEPT ![c] = "scheduling"]
      /\ pending' = [pending EXCEPT ![w] = Entry(c)]
      /\ timer' = timer \cup {c}
      /\ generation' = [generation EXCEPT ![w] = IF @ = 0 THEN 1 ELSE @]
      /\ UNCHANGED <<disposal, promise, jobs, working, out, filling>>
  BY DEF RequestWindow, jobVars
<1>2. calls \in Nat /\ c \in 1..MaxCalls /\ calls' \in 0..MaxCalls /\ \A d \in 1..calls' : d \in 1..calls \/ d = c
  BY <1>1 DEF Inv, Shape, Call, ControllerAssumption
<1>3. Entry(c) \in Active /\ Entry(c).call = c /\ NoEntry.call = 0
  BY <1>1 DEF NoEntry, Entry, Active
<1>4. \A d \in 1..calls : d # c /\ d \in Call /\ window'[d] = window[d]
  BY <1>1, <1>2 DEF Inv, Shape, Call
<1>5. window'[c] = w
  BY <1>1 DEF Inv, Shape
<1>6. \A d \in 1..calls : pending[window[d]].call = d => pending'[window[d]].call = d
  BY <1>1, <1>3, <1>4 DEF Inv, Shape
<1>7. Shape'
  <2>1. window' \in [Call -> Windows \cup {"none"}]
    BY <1>1 DEF Inv, Shape
  <2>2. \A d \in 1..calls' : window'[d] \in Windows
    BY <1>2, <1>4, <1>5 DEF Inv, Shape
  <2>3. stage' \in [Call -> Stage] /\ \A d \in Call : stage'[d] # "none" => d <= calls'
    BY <1>1, <1>2 DEF Inv, Shape, Stage, Call
  <2>4. timer' \subseteq 1..calls' /\ working' \in 0..calls'
    <3>1. timer \subseteq 1..calls /\ working \in 0..calls
      BY DEF Inv, Shape
    <3>2. 1..calls \subseteq 1..c /\ 0..calls \subseteq 0..c /\ c \in 1..c
      BY <1>2
    <3> HIDE DEF c
    <3> QED BY <1>1, <3>1, <3>2
  <2>5. pending' \in [Windows -> Active] /\ generation' \in [Windows -> Nat]
    BY <1>1, <1>3 DEF Inv, Shape
  <2>6. \A i \in 1..Len(jobs') : jobs'[i].by <= calls'
    <3> SUFFICES ASSUME NEW i \in 1..Len(jobs) PROVE jobs[i].by <= calls + 1
      BY <1>1
    <3>1. jobs[i] \in Job /\ jobs[i].by <= calls
      BY DEF Inv, Shape
    <3>2. jobs[i].by \in Nat
      BY <3>1 DEF Job, Call
    <3> QED BY <1>2, <3>1, <3>2
  <2> QED BY <1>1, <1>2, <2>1, <2>2, <2>3, <2>4, <2>5, <2>6 DEF Inv, Shape
<1>8. Keyed'
  <2> SUFFICES ASSUME NEW v \in Windows, pending'[v].call # 0
               PROVE  pending'[v].call <= calls' /\ window'[pending'[v].call] = v
    BY DEF Keyed
  <2>1. CASE v = w
    BY <1>1, <1>2, <1>3, <1>5, <2>1 DEF Inv, Shape
  <2>2. CASE v # w
    <3>1. pending'[v] = pending[v]
      BY <1>1, <2>2 DEF Inv, Shape
    <3>2. pending[v].call \in 1..calls /\ window[pending[v].call] = v
      BY <3>1, <1>2 DEF Inv, Shape, Keyed, Active, Call
    <3> QED BY <1>1, <1>2, <1>4, <3>1, <3>2
  <2> QED BY <2>1, <2>2
<1>9. HeadAtWork'
  BY <1>1 DEF Inv, HeadAtWork
<1>10. NoForgottenCall'
  <2> SUFFICES ASSUME NEW d \in 1..calls', promise'[d] = "open"
               PROVE  pending'[window'[d]].call = d \/ working' = d
    BY DEF NoForgottenCall
  <2>1. CASE d = c
    BY <1>1, <1>3, <1>5, <2>1 DEF Inv, Shape
  <2>2. CASE d \in 1..calls
    BY <1>1, <1>4, <1>6, <2>2 DEF Inv, NoForgottenCall
  <2> QED BY <1>2, <2>1, <2>2
<1>11. Guarded'
  <2> SUFFICES ASSUME NEW d \in 1..calls', pending'[window'[d]].call = d, d \notin timer'
               PROVE  \E i \in 1..Len(jobs) : jobs[i].kind = "fail" /\ jobs[i].window = window'[d]
                                              /\ (working # 0 => i > 1)
    BY <1>1 DEF Guarded
  <2>1. d # c /\ d \notin timer
    BY <1>1
  <2>2. d \in 1..calls /\ window'[d] = window[d] /\ window[d] \in Windows
    BY <1>2, <1>4, <2>1 DEF Inv, Shape
  <2>3. pending[window[d]].call = d
    BY <1>1, <1>3, <2>1, <2>2 DEF Inv, Shape
  <2> QED BY <2>1, <2>2, <2>3 DEF Inv, Guarded
<1> QED BY <1>7, <1>8, <1>9, <1>10, <1>11 DEF Inv

(* The head job leaves the queue and its caller goes on.                     *)
LEMMA HeadLeaves ==
  ASSUME Inv, ControllerAssumption, jobs # <<>>, JobDone
  PROVE  /\ jobs' \in Seq(Job) /\ Head(jobs) = jobs[1] /\ jobs[1] \in Job
         /\ Len(jobs) \in Nat /\ Len(jobs') = Len(jobs) - 1
         /\ \A i \in 1..Len(jobs') : i + 1 \in 1..Len(jobs) /\ jobs'[i] = jobs[i + 1]
         /\ \A i \in 1..Len(jobs) : i > 1 => i - 1 \in 1..Len(jobs') /\ jobs'[i - 1] = jobs[i]
         /\ \A i \in 1..Len(jobs') : jobs'[i].by <= calls
         /\ stage' \in [Call -> Stage] /\ \A c \in Call : stage'[c] # "none" => c <= calls
<1>1. jobs \in Seq(Job) /\ jobs' = Tail(jobs)
  BY DEF JobDone, Inv, Shape
<1>2. /\ jobs' \in Seq(Job) /\ Head(jobs) = jobs[1] /\ jobs[1] \in Job /\ 1 \in 1..Len(jobs)
      /\ Len(jobs) \in Nat /\ Len(jobs') = Len(jobs) - 1
      /\ \A i \in 1..Len(jobs') : i + 1 \in 1..Len(jobs) /\ jobs'[i] = jobs[i + 1]
  BY <1>1
<1>3. \A i \in 1..Len(jobs) : i > 1 => i - 1 \in 1..Len(jobs') /\ jobs'[i - 1] = jobs[i]
  BY <1>2
<1>4. \A i \in 1..Len(jobs') : jobs'[i].by <= calls
  BY <1>2 DEF Inv, Shape
<1>5. jobs[1].by \in Call \cup {0} /\ jobs[1].by <= calls
  BY <1>2 DEF Job, Inv, Shape
<1>6. stage' \in [Call -> Stage] /\ \A c \in Call : stage'[c] # "none" => c <= calls
  <2>1. CASE jobs[1].by = 0
    BY <1>2, <2>1 DEF JobDone, Inv, Shape
  <2>2. CASE jobs[1].by # 0
    <3>1. \E s \in Stage : stage' = [stage EXCEPT ![jobs[1].by] = s]
      BY <1>2, <2>2 DEF JobDone, Stage
    <3> QED BY <1>5, <2>2, <3>1 DEF Inv, Shape
  <2> QED BY <2>1, <2>2
<1> QED BY <1>2, <1>3, <1>4, <1>6

(* What keeps the invariant when the head job leaves: the calls it is the     *)
(* only guard of are no longer pending.                                    *)
LEMMA QueueKeeps ==
  ASSUME Inv, ControllerAssumption, jobs # <<>>, JobDone,
         UNCHANGED <<calls, window, timer, pending, filling>>,
         working' = 0, disposal' # "cancelling",
         generation' \in [Windows -> Nat], out' \in [Windows -> Nat],
         promise' \in [Call -> {"open", "resolved", "rejected"}],
         \A c \in 1..calls : promise'[c] = "open" => promise[c] = "open" /\ c # working,
         \A c \in 1..calls : pending[window[c]].call = c => working # 0 \/ jobs[1].kind # "fail"
                                                             \/ jobs[1].window # window[c]
  PROVE  Inv'
<1>1. Shape'
  BY HeadLeaves DEF Inv, Shape
<1>2. Keyed'
  BY DEF Inv, Keyed
<1>3. HeadAtWork'
  BY DEF HeadAtWork
<1>4. NoForgottenCall'
  BY DEF Inv, NoForgottenCall
<1>5. Guarded'
  <2> SUFFICES ASSUME NEW c \in 1..calls, pending[window[c]].call = c, c \notin timer
               PROVE  \E i \in 1..Len(jobs') : jobs'[i].kind = "fail" /\ jobs'[i].window = window[c]
    BY DEF Guarded
  <2>1. PICK i \in 1..Len(jobs) : jobs[i].kind = "fail" /\ jobs[i].window = window[c]
                                  /\ (working # 0 => i > 1)
    BY DEF Inv, Guarded
  <2>2. i > 1
    BY <2>1, HeadLeaves
  <2>3. i - 1 \in 1..Len(jobs') /\ jobs'[i - 1] = jobs[i]
    BY <2>2, HeadLeaves
  <2> QED BY <2>1, <2>3
<1> QED BY <1>1, <1>2, <1>3, <1>4, <1>5 DEF Inv

(* The cleanup queue.                                                       *)
LEMMA QueueProceedsKeeps ==
  ASSUME Inv, ControllerAssumption, QueueProceeds
  PROVE  Inv'
<1> USE DEF lifeVars, callVars, entryVars, jobVars, engineVars
<1>0. NoEntry.call = 0 /\ NoEntry \in Active /\ \A c \in 1..calls : c # 0 /\ c \in Call /\ window[c] \in Windows
  BY DEF NoEntry, Entry, Active, Inv, Shape, Call, ControllerAssumption
<1>1. CASE JobFindsNothing
  <2>1. /\ jobs # <<>> /\ working = 0 /\ disposal # "cancelling" /\ JobDone
        /\ pending[Head(jobs).window] = NoEntry
        /\ UNCHANGED <<disposal, calls, window, promise, timer, pending, working, generation, filling, out>>
    BY <1>1 DEF JobFindsNothing, Turn
  <2>2. \A c \in 1..calls : pending[window[c]].call = c => jobs[1].window # window[c]
    BY <1>0, <2>1, HeadLeaves
  <2> QED BY <2>1, <2>2, QueueKeeps DEF Inv, Shape
<1>2. CASE JobTakesCall
  <2> DEFINE w == jobs[1].window
  <2>1. /\ jobs # <<>> /\ jobs[1].kind = "fail" /\ disposal # "cancelling" /\ jobs[1] \in Job
        /\ working' = pending[w].call
        /\ timer' = timer \ {pending[w].call}
        /\ pending' = [pending EXCEPT ![w] = NoEntry]
        /\ working = 0 /\ Cancelled({w})
        /\ UNCHANGED <<disposal, calls, window, stage, promise, jobs>>
    <3>1. Head(jobs) = jobs[1]
      OBVIOUS
    <3>2. jobs # <<>> => jobs[1] \in Job
      BY DEF Inv, Shape
    <3> QED BY <1>2, <3>1, <3>2 DEF JobTakesCall, Turn
  <2>2. w \in Windows
    BY <2>1 DEF Job
  <2>3. /\ working' \in 0..calls
        /\ \A c \in 1..calls : pending'[window[c]].call = c =>
             pending[window[c]].call = c /\ window[c] # w /\ c # pending[w].call
    <3>1. pending[w].call \in 0..calls
      <4>1. pending[w].call \in Call \cup {0} /\ calls \in Nat
        BY <2>2 DEF Inv, Shape, Active, ControllerAssumption
      <4>2. pending[w].call # 0 => pending[w].call <= calls
        BY <2>2 DEF Inv, Keyed
      <4> HIDE DEF w
      <4> QED BY <4>1, <4>2 DEF Call
    <3>2. \A c \in 1..calls : pending'[window[c]].call = c => window[c] # w
      BY <1>0, <2>1, <2>2 DEF Inv, Shape
    <3>3. \A c \in 1..calls : window[c] # w => pending'[window[c]] = pending[window[c]]
      BY <1>0, <2>1, <2>2 DEF Inv, Shape
    <3>4. \A c \in 1..calls : c = pending[w].call => window[c] = w
      BY <1>0, <2>2 DEF Inv, Keyed
    <3> QED BY <2>1, <3>1, <3>2, <3>3, <3>4
  <2>4. Shape'
    <3>1. generation' \in [Windows -> Nat] /\ out' \in [Windows -> Nat] /\ filling' = filling
      BY <2>1, CancelledShape
    <3>2. timer' \subseteq 1..calls /\ pending' \in [Windows -> Active]
      BY <1>0, <2>1, <2>2 DEF Inv, Shape
    <3> QED BY <2>1, <2>3, <3>1, <3>2 DEF Inv, Shape
  <2>5. Keyed'
    BY <1>0, <2>1, <2>2 DEF Inv, Shape, Keyed
  <2>6. HeadAtWork'
    BY <2>1 DEF HeadAtWork
  <2>7. NoForgottenCall'
    <3> SUFFICES ASSUME NEW c \in 1..calls, promise[c] = "open"
                 PROVE  pending'[window[c]].call = c \/ working' = c
      BY <2>1 DEF NoForgottenCall
    <3>1. pending[window[c]].call = c
      BY <1>0, <2>1 DEF Inv, NoForgottenCall
    <3> QED BY <1>0, <2>1, <2>2, <3>1 DEF Inv, Shape
  <2>8. Guarded'
    <3> SUFFICES ASSUME NEW c \in 1..calls, pending'[window[c]].call = c, c \notin timer'
                 PROVE  \E i \in 1..Len(jobs) : jobs[i].kind = "fail" /\ jobs[i].window = window[c] /\ i > 1
      BY <2>1 DEF Guarded
    <3>1. pending[window[c]].call = c /\ window[c] # w /\ c \notin timer
      BY <2>1, <2>3
    <3>2. PICK i \in 1..Len(jobs) : jobs[i].kind = "fail" /\ jobs[i].window = window[c]
      BY <3>1 DEF Inv, Guarded
    <3>3. i # 1
      BY <3>1, <3>2
    <3> QED BY <3>2, <3>3
  <2> QED BY <2>4, <2>5, <2>6, <2>7, <2>8 DEF Inv
<1>3. CASE JobRejectsCall
  <2>1. /\ working # 0 /\ jobs # <<>> /\ disposal # "cancelling" /\ JobDone
        /\ promise' = [promise EXCEPT ![working] = "rejected"] /\ working' = 0
        /\ UNCHANGED <<disposal, calls, window, timer, pending, generation, filling, out>>
    BY <1>3 DEF JobRejectsCall, Rejects, Inv, HeadAtWork
  <2>2. \A c \in 1..calls : promise'[c] = "open" => promise[c] = "open" /\ c # working
    BY <1>0, <2>1 DEF Inv, Shape
  <2>3. promise' \in [Call -> {"open", "resolved", "rejected"}]
    BY <2>1 DEF Inv, Shape
  <2> QED BY <2>1, <2>2, <2>3, QueueKeeps DEF Inv, Shape
<1>4. CASE DisposeRuns
  <2>1. /\ jobs # <<>> /\ jobs[1].kind = "dispose" /\ working = 0 /\ disposal' = "cancelling"
        /\ Cancelled(Windows)
        /\ UNCHANGED <<calls, window, stage, promise, timer, pending, jobs, working>>
    <3>1. Head(jobs) = jobs[1]
      OBVIOUS
    <3> QED BY <1>4, <3>1 DEF DisposeRuns, Turn
  <2>2. generation' \in [Windows -> Nat] /\ out' \in [Windows -> Nat] /\ filling' = filling
    BY <2>1, CancelledShape
  <2>3. Shape'
    BY <2>1, <2>2 DEF Inv, Shape
  <2>4. Keyed' /\ HeadAtWork' /\ NoForgottenCall' /\ Guarded'
    BY <2>1 DEF Inv, Keyed, HeadAtWork, NoForgottenCall, Guarded
  <2> QED BY <2>3, <2>4 DEF Inv
<1>5. CASE DisposeEnds
  <2>1. /\ jobs # <<>> /\ jobs[1].kind = "dispose" /\ disposal' = "done" /\ working = 0 /\ JobDone
        /\ Cancelled(Windows)
        /\ UNCHANGED <<calls, window, promise, timer, pending, working>>
    BY <1>5 DEF DisposeEnds, Inv, HeadAtWork
  <2>2. generation' \in [Windows -> Nat] /\ out' \in [Windows -> Nat] /\ filling' = filling
    BY <2>1, CancelledShape
  <2> QED BY <1>0, <2>1, <2>2, QueueKeeps DEF Inv, Shape
<1> QED BY <1>1, <1>2, <1>3, <1>4, <1>5 DEF QueueProceeds

LEMMA InitInv == Init => Inv
<1> SUFFICES ASSUME Init PROVE Inv
  OBVIOUS
<1>0. calls = 0 /\ 1..calls = {} /\ MaxCalls \in Nat /\ NoEntry.call = 0 /\ jobs = <<>> /\ Len(jobs) = 0
  BY ControllerAssumption DEF Init, NoEntry, Entry
<1>1. Shape
  <2>1. NoEntry \in Active
    BY DEF NoEntry, Entry, Active
  <2>2. jobs \in Seq(Job) /\ 1..Len(jobs) = {}
    BY <1>0
  <2> QED BY <1>0, <2>1, <2>2 DEF Init, Shape, Stage
<1>2. Keyed
  BY <1>0 DEF Init, Keyed
<1>3. HeadAtWork /\ NoForgottenCall /\ Guarded
  BY <1>0 DEF Init, HeadAtWork, NoForgottenCall, Guarded
<1> QED BY <1>1, <1>2, <1>3 DEF Inv

LEMMA NextInv ==
  ASSUME Inv, [Next]_vars
  PROVE  Inv'
<1>1. ASSUME NEW w \in Windows, RequestWindow(w)
      PROVE  Inv'
  BY <1>1, ControllerAssumption, RequestWindowKeeps
<1>2. CASE QueueProceeds
  BY <1>2, ControllerAssumption, QueueProceedsKeeps
<1>3. ASSUME NEW w \in Windows,
             RequestWindowAgain(w) \/ CancelByOwner(w) \/ RequestEnds(w) \/ RetryRuns(w)
      PROVE  Inv'
  BY <1>3, ControllerAssumption, WindowExtends, ExtendKeeps
<1>4. ASSUME NEW c \in Call, CallProceeds(c) \/ Timeout(c) \/ FillIssues(c) \/ FillFails(c)
      PROVE  Inv'
  BY <1>4, ControllerAssumption, CallExtends, ExtendKeeps
<1>5. CASE TransportFatal \/ Abort \/ OwnerFlush \/ \E o \in Final : Dispose(o)
  BY <1>5, ControllerAssumption, PageExtends, ExtendKeeps
<1>6. CASE UNCHANGED vars
  BY <1>6 DEF vars, lifeVars, callVars, entryVars, jobVars, engineVars,
              Inv, Shape, Keyed, HeadAtWork, NoForgottenCall, Guarded
<1> QED BY <1>1, <1>2, <1>3, <1>4, <1>5, <1>6 DEF Next

LEMMA ControllerInvariant == Spec => []Inv
BY InitInv, NextInv, PTL DEF Spec

(* No call of requestWindow is forgotten: an open promise is in the pending  *)
(* map under its key, or held by the failWindow that will reject it, however *)
(* terminals, timeouts, lost transports, aborts and dispose interleave.     *)
THEOREM NothingForgotten == Spec => []NoForgottenCall
<1>1. Inv => NoForgottenCall
  BY DEF Inv
<1> QED BY <1>1, ControllerInvariant, PTL

(* A pending call has its 30 s timer armed or a failWindow for its key in    *)
(* the cleanup queue: it can end without any further help of the engine.    *)
THEOREM PendingGuarded == Spec => []PendingIsGuarded
<1>1. Inv => PendingIsGuarded
  BY DEF Inv, Guarded, PendingIsGuarded
<1> QED BY <1>1, ControllerInvariant, PTL
(* An open call of requestWindow is never forgotten and always has a timer   *)
(* or a queued failWindow that can end it, for any number of calls and keys. *)
THEOREM OpenCallsCanEnd == Spec => []OpenCallCanEnd
<1>1. NoForgottenCall /\ PendingIsGuarded => OpenCallCanEnd
  BY DEF OpenCallCanEnd
<1> QED BY <1>1, NothingForgotten, PendingGuarded, PTL

-----------------------------------------------------------------------------
(* What a call or a controller that ended leaves behind.                     *)

(* Stages of a call before its result is awaited, and the clean-up of one    *)
(* that threw.                                                              *)
Early == {"scheduling", "filling", "returning", "recheck", "cleaning"}

(* A window whose call cannot succeed any more: the engine refuses it and    *)
(* the controller has failed or is about to, or the controller is disposed.  *)
Doomed(w) ==
  \/ w \in disabled /\ (state \in Final \/ working # 0)
  \/ disposal # "none" /\ state \in Final

(* A call not yet awaited whose entry another job or call has taken.         *)
Overtaken(c) ==
  stage[c] \in Early /\ (pending[window[c]].call # c \/ pending[window[c]].scheduled > 0)

(* A window the engine knows nothing of has nothing under way.               *)
Opened ==
  /\ \A c \in 1..calls : generation[window[c]] # 0
  /\ \A w \in Windows : generation[w] = 0 => out[w] = 0 /\ retrying[w] = 0

TimersPending == \A c \in timer : pending[window[c]].call = c

(* A call is overtaken or rejected only by a failure.                        *)
Causes == \A c \in 1..calls : Overtaken(c) \/ promise[c] = "rejected" => Doomed(window[c])

Unstarted == \A c \in Call \ (1..calls) : promise[c] = "open"

(* A job that a call waits for is for its window, and is the only one.       *)
Callers ==
  /\ \A i \in 1..Len(jobs) : jobs[i].by # 0 =>
       stage[jobs[i].by] \in {"cleaning", "failing"} /\ jobs[i].window = window[jobs[i].by]
  /\ \A i, j \in 1..Len(jobs) : jobs[i].by # 0 /\ jobs[i].by = jobs[j].by => i = j

(* The one job of dispose.                                                   *)
Queued ==
  /\ \A i \in 1..Len(jobs) : jobs[i].kind = "dispose" => disposal \in {"queued", "cancelling"}
  /\ \A i, j \in 1..Len(jobs) : jobs[i].kind = "dispose" /\ jobs[j].kind = "dispose" => i = j

AtWork ==
  working # 0 => /\ jobs # <<>> /\ jobs[1].kind = "fail" /\ jobs[1].window = window[working]
                 /\ window[working] \in disabled

Disposal ==
  /\ disposal \in {"none", "queued", "cancelling", "done"}
  /\ disposal # "none" => \A w \in Windows : pending[w] = NoEntry
  /\ disposal \in {"cancelling", "done"} => \A w \in Windows : generation[w] # 0 => w \in disabled
  /\ disposal = "done" =>
       /\ working = 0
       /\ \A w \in Windows : out[w] = 0 /\ retrying[w] = 0
       /\ \A c \in 1..calls : stage[c] \notin {"scheduling", "filling"}

CleanInv == Opened /\ TimersPending /\ Causes /\ Unstarted /\ Callers /\ Queued /\ AtWork /\ Disposal
            /\ ThrownMeansCancelled

-----------------------------------------------------------------------------
(* The steps that are neither the start of a call nor the cleanup queue's.   *)

(* The jobs a step adds: nobody waits for them, or the call that now cleans  *)
(* up waits for the only one.                                               *)
Adds(q) ==
  /\ q \in Seq(Job) /\ jobs' = jobs \o q
  /\ \A i \in 1..Len(q) : q[i].kind = "fail"
  /\ \/ \A i \in 1..Len(q) : q[i].by = 0
     \/ \E c \in 1..calls : /\ Len(q) = 1 /\ q[1].by = c /\ q[1].window = window[c]
                            /\ stage[c] \notin {"cleaning", "failing"}
                            /\ stage'[c] \in {"cleaning", "failing"}

StageStep ==
  \A c \in 1..calls :
    /\ stage[c] \in {"cleaning", "failing", "threw"} => stage'[c] = stage[c]
    /\ stage'[c] = "threw" => stage[c] = "threw"
    /\ stage'[c] \in {"scheduling", "filling"} => stage[c] \in {"scheduling", "filling"}

EngineStep ==
  /\ disabled \subseteq disabled'
  /\ \A v \in Windows :
       /\ generation[v] # 0 => generation'[v] # 0
       /\ generation[v] = 0 => generation'[v] = 0 /\ out'[v] = out[v] /\ retrying'[v] = retrying[v]
       /\ disposal = "done" => out'[v] = 0 /\ retrying'[v] = 0

EntryStep ==
  /\ disposal # "none" => pending' = pending
  /\ timer' \subseteq timer /\ \A c \in timer' : pending'[window[c]].call = pending[window[c]].call
  /\ state \in Final => state' = state
  /\ \A c \in Call \ (1..calls) : promise'[c] = promise[c]

CauseStep ==
  \A c \in 1..calls : /\ Overtaken(c)' => Overtaken(c) \/ Doomed(window[c])
                      /\ promise'[c] = "rejected" => promise[c] = "rejected" \/ Doomed(window[c])

OrdinaryStep ==
  /\ UNCHANGED <<calls, window, working, disposal>>
  /\ StageStep /\ EngineStep /\ EntryStep /\ CauseStep
  /\ \E q : Adds(q)

LEMMA OrdinaryKeeps ==
  ASSUME Inv, Inv', CleanInv, ControllerAssumption, OrdinaryStep
  PROVE  CleanInv'
<1> USE DEF OrdinaryStep
<1>0. /\ \A c \in 1..calls : window[c] \in Windows /\ c \in Call /\ c # 0
      /\ working \in 0..calls /\ calls \in Nat /\ timer \subseteq 1..calls
  BY DEF Inv, Shape, Call, ControllerAssumption
<1>1. Opened'
  BY <1>0 DEF CleanInv, Opened, EngineStep
<1>2. TimersPending'
  BY <1>0 DEF CleanInv, TimersPending, EntryStep
<1>3. \A w : Doomed(w) => Doomed(w)'
  BY DEF Doomed, EngineStep, EntryStep
<1>4. Causes'
  BY <1>3 DEF CleanInv, Causes, CauseStep
<1>5. PICK q : Adds(q)
  OBVIOUS
<1>6. /\ Len(jobs) \in Nat /\ Len(q) \in Nat /\ Len(jobs') = Len(jobs) + Len(q)
      /\ \A i \in 1..Len(jobs) : jobs'[i] = jobs[i]
      /\ \A i \in 1..Len(jobs') : i \in 1..Len(jobs) \/ (i > Len(jobs) /\ i - Len(jobs) \in 1..Len(q) /\ jobs'[i] = q[i - Len(jobs)])
      /\ jobs # <<>> => jobs' # <<>> /\ 1 \in 1..Len(jobs)
  BY <1>5, Grown DEF Inv, Shape, Adds
<1>7. \A i \in 1..Len(jobs) : jobs[i].by # 0 => jobs[i].by \in 1..calls
  BY DEF Inv, Shape, Job, Call, ControllerAssumption
<1>8. Callers'
  <2>1. \A i \in 1..Len(jobs) : jobs[i].by # 0 => stage'[jobs[i].by] = stage[jobs[i].by]
    BY <1>7 DEF CleanInv, Callers, StageStep
  <2>2. CASE \A i \in 1..Len(q) : q[i].by = 0
    <3>1. \A i \in 1..Len(jobs') : jobs'[i].by # 0 => i \in 1..Len(jobs) /\ jobs'[i] = jobs[i]
      BY <1>6, <2>2
    <3> QED BY <2>1, <3>1 DEF CleanInv, Callers
  <2>3. ASSUME NEW c \in 1..calls, Len(q) = 1, q[1].by = c, q[1].window = window[c],
               stage[c] \notin {"cleaning", "failing"}, stage'[c] \in {"cleaning", "failing"}
        PROVE  Callers'
    <3>1. \A i \in 1..Len(jobs') : i \in 1..Len(jobs) \/ (i = Len(jobs) + 1 /\ jobs'[i] = q[1])
      BY <1>6, <2>3
    <3>2. \A i \in 1..Len(jobs) : jobs[i].by # c
      BY <1>0, <2>3 DEF CleanInv, Callers
    <3> QED BY <1>0, <1>6, <2>1, <2>3, <3>1, <3>2 DEF CleanInv, Callers
  <2> QED BY <1>5, <2>2, <2>3 DEF Adds
<1>9. AtWork'
  BY <1>0, <1>6 DEF CleanInv, AtWork, EngineStep
<1>10. Disposal'
  BY DEF CleanInv, Disposal, EngineStep, EntryStep, StageStep
<1>11. ThrownMeansCancelled'
  BY DEF CleanInv, ThrownMeansCancelled, StageStep, EngineStep, EntryStep
<1>12. Unstarted'
  BY DEF CleanInv, Unstarted, EntryStep
<1>13. Queued'
  <2>1. \A i \in 1..Len(q) : q[i].kind # "dispose"
    BY <1>5 DEF Adds
  <2>2. \A i \in 1..Len(jobs') : jobs'[i].kind = "dispose" => i \in 1..Len(jobs) /\ jobs'[i] = jobs[i]
    BY <1>6, <2>1
  <2> QED BY <2>2 DEF CleanInv, Queued
<1> QED BY <1>1, <1>2, <1>4, <1>8, <1>9, <1>10, <1>11, <1>12, <1>13 DEF CleanInv

-----------------------------------------------------------------------------
(* What the events of a window do to the controller: n more terminals are    *)
(* counted or deferred, or the entry of the window is complete.             *)
EndedIn(evs) == Cardinality({i \in 1..Len(evs) : evs[i].kind = "ended"})
Load(w) == pending[w].ended + EndedIn(pending[w].deferred)

QueuesFailures == \E q \in Seq(Job) : jobs' = jobs \o q /\ \A i \in 1..Len(q) : q[i].by = 0 /\ q[i].kind = "fail"

Completes(w, c) ==
  /\ pending' = [pending EXCEPT ![w] = NoEntry]
  /\ promise' = [promise EXCEPT ![c] = "resolved"]
  /\ timer' = timer \ {c}
  /\ state' = StateAfter("running")

Heard(w, n) ==
  /\ QueuesFailures
  /\ \A v \in Windows \ {w} : pending'[v] = pending[v]
  /\ Load(w)' <= Load(w) + n
  /\ \/ pending[w].call # 0 /\ pending[w].scheduled > 0 /\ Completes(w, pending[w].call)
     \/ /\ pending'[w].call = pending[w].call /\ pending'[w].scheduled = pending[w].scheduled
        /\ pending[w].call = 0 => pending' = pending
        /\ UNCHANGED <<promise, timer, state>>

LEMMA EndedCounts ==
  ASSUME NEW evs \in Seq(Event), NEW e \in Active
  PROVE  /\ EndedIn(evs) \in Nat /\ EndedIn(evs) <= Len(evs)
         /\ EndedAfter(e, evs, Len(evs)) \in Nat
         /\ EndedAfter(e, evs, Len(evs)) <= e.ended + EndedIn(evs)
<1> DEFINE S == {i \in 1..Len(evs) : evs[i].kind = "ended"}
           T == {i \in 1..Len(evs) : evs[i].kind = "ended" /\ evs[i].generation = e.generation}
<1>0. Len(evs) \in Nat /\ e.ended \in Nat
  BY DEF Active
<1>1. IsFiniteSet(1..Len(evs)) /\ Cardinality(1..Len(evs)) = Len(evs)
  <2>1. 1 \in Int /\ Len(evs) \in Int /\ (1 > Len(evs) => Len(evs) = 0)
    BY <1>0
  <2> QED BY <1>0, <2>1, FS_Interval
<1>2. S \in SUBSET (1..Len(evs)) /\ T \in SUBSET S
  OBVIOUS
<1>3. /\ EndedIn(evs) = Cardinality(S)
      /\ EndedAfter(e, evs, Len(evs)) = e.ended + Cardinality(T)
  BY DEF EndedIn, EndedAfter
<1> HIDE DEF S, T
<1>4. IsFiniteSet(S) /\ Cardinality(S) <= Cardinality(1..Len(evs))
  BY <1>1, <1>2, FS_Subset
<1>5. IsFiniteSet(T) /\ Cardinality(T) <= Cardinality(S)
  BY <1>2, <1>4, FS_Subset
<1>6. Cardinality(S) \in Nat /\ Cardinality(T) \in Nat
  BY <1>4, <1>5, FS_CardinalityType
<1> QED BY <1>0, <1>1, <1>3, <1>4, <1>5, <1>6

LEMMA EndedInJoined ==
  ASSUME NEW s \in Seq(Event), NEW t \in Seq(Event)
  PROVE  EndedIn(s \o t) <= EndedIn(s) + EndedIn(t)
<1> DEFINE m == Len(s)
           A == {i \in 1..Len(s) : s[i].kind = "ended"}
           B == {i \in 1..Len(t) : t[i].kind = "ended"}
           U == {i \in 1..Len(s \o t) : (s \o t)[i].kind = "ended"}
           f == [i \in U \ A |-> i - m]
<1>0. /\ m \in Nat /\ Len(t) \in Nat /\ Len(s \o t) = m + Len(t) /\ s \o t \in Seq(Event)
      /\ \A i \in 1..m : (s \o t)[i] = s[i]
      /\ \A i \in 1..m + Len(t) : i > m => i - m \in 1..Len(t) /\ (s \o t)[i] = t[i - m]
  OBVIOUS
<1>1. A \subseteq 1..m /\ B \subseteq 1..Len(t) /\ U \subseteq 1..Len(s \o t)
  OBVIOUS
<1>2. \A i \in U \ A : i \in Nat /\ i - m \in B
  BY <1>0
<1>3. EndedIn(s) = Cardinality(A) /\ EndedIn(t) = Cardinality(B) /\ EndedIn(s \o t) = Cardinality(U)
  BY DEF EndedIn
<1> HIDE DEF A, B, U
<1>4. f \in Injection(U \ A, B)
  <2>1. f \in [U \ A -> B]
    BY <1>2
  <2>2. \A a, b \in U \ A : f[a] = f[b] => a = b
    BY <1>0, <1>2
  <2> HIDE DEF f
  <2> QED BY <2>1, <2>2 DEF Injection, IsInjective
<1> HIDE DEF f
<1>5. IsFiniteSet(A) /\ IsFiniteSet(B) /\ IsFiniteSet(U)
  <2>1. IsFiniteSet(1..m) /\ IsFiniteSet(1..Len(t)) /\ IsFiniteSet(1..Len(s \o t))
    BY <1>0, FS_Interval
  <2> QED BY <1>1, <2>1, FS_Subset
<1>6. Cardinality(U \ A) <= Cardinality(B)
  BY <1>4, <1>5, FS_Injection
<1>7. Cardinality(U \ A) = Cardinality(U) - Cardinality(U \cap A) /\ Cardinality(U \cap A) <= Cardinality(A)
  BY <1>5, FS_Difference, FS_Intersection
<1>8. Cardinality(A) \in Nat /\ Cardinality(B) \in Nat /\ Cardinality(U) \in Nat /\ Cardinality(U \cap A) \in Nat
  BY <1>5, FS_CardinalityType, FS_Intersection
<1> QED BY <1>3, <1>6, <1>7, <1>8

LEMMA EndedInFew ==
  /\ EndedIn(<<>>) = 0
  /\ \A a \in Event : EndedIn(<<a>>) \in {0, 1} /\ (a.kind # "ended" => EndedIn(<<a>>) = 0)
  /\ \A a, b \in Event : a.kind # "ended" \/ b.kind # "ended" => EndedIn(<<a, b>>) \in {0, 1}
<1> USE DEF EndedIn
<1>1. EndedIn(<<>>) = 0
  <2>1. {i \in 1..Len(<<>>) : <<>>[i].kind = "ended"} = {}
    OBVIOUS
  <2> QED BY <2>1, FS_EmptySet
<1>2. ASSUME NEW S, NEW x, S \in SUBSET {x}
      PROVE  Cardinality(S) \in {0, 1}
  <2>1. S = {} \/ S = {x}
    BY <1>2
  <2> QED BY <2>1, FS_EmptySet, FS_Singleton
<1>3. ASSUME NEW a \in Event
      PROVE  EndedIn(<<a>>) \in {0, 1} /\ (a.kind # "ended" => EndedIn(<<a>>) = 0)
  <2>1. {i \in 1..Len(<<a>>) : <<a>>[i].kind = "ended"} \in SUBSET {1}
    OBVIOUS
  <2>2. a.kind # "ended" => {i \in 1..Len(<<a>>) : <<a>>[i].kind = "ended"} = {}
    OBVIOUS
  <2> QED BY <1>2, <2>1, <2>2, FS_EmptySet
<1>4. ASSUME NEW a \in Event, NEW b \in Event, a.kind # "ended" \/ b.kind # "ended"
      PROVE  EndedIn(<<a, b>>) \in {0, 1}
  <2> DEFINE S == {i \in 1..Len(<<a, b>>) : <<a, b>>[i].kind = "ended"}
  <2>0. 1..Len(<<a, b>>) = {1, 2} /\ <<a, b>>[1] = a /\ <<a, b>>[2] = b
    OBVIOUS
  <2>1. S \in SUBSET {2} \/ S \in SUBSET {1}
    BY <1>4, <2>0
  <2> QED BY <1>2, <2>1
<1> QED BY <1>1, <1>3, <1>4

LEMMA HandleEffect ==
  ASSUME NEW w \in Windows, NEW e \in Active, NEW evs \in Seq(Event), Handle(w, e, evs)
  PROVE  /\ QueuesFailures
         /\ \/ e.scheduled > 0 /\ Completes(w, e.call)
            \/ \E n \in Nat : /\ n <= e.ended + EndedIn(evs)
                              /\ pending' = [pending EXCEPT ![w] = [e EXCEPT !.ended = n]]
                              /\ UNCHANGED <<promise, timer, state>>
<1> DEFINE done == Completing(e, evs)
           failures == {i \in 1..Len(evs) : /\ ~IsTerminal(evs[i]) /\ evs[i].generation = e.generation
                                            /\ \A j \in done : i < j}
           n == Cardinality(failures)
           q == [i \in 1..n |-> FailJob(w, "failed", 0)]
<1>1. QueuesFailures
  <2>1. n \in Nat
    <3>1. Len(evs) \in Nat /\ failures \in SUBSET (1..Len(evs))
      OBVIOUS
    <3> HIDE DEF failures
    <3> QED BY <3>1, Counted
  <2>2. FailJob(w, "failed", 0) \in Job /\ FailJob(w, "failed", 0).by = 0 /\ FailJob(w, "failed", 0).kind = "fail"
    BY DEF FailJob, Job, Final
  <2>3. q \in [1..n -> Job] /\ \A i \in 1..n : q[i].by = 0 /\ q[i].kind = "fail"
    BY <2>2
  <2>4. jobs' = jobs \o q
    BY DEF Handle
  <2> HIDE DEF q, n
  <2>5. q \in Seq(Job) /\ Len(q) = n
    BY <2>1, <2>3
  <2> QED BY <2>3, <2>4, <2>5 DEF QueuesFailures
<1>2. CASE done # {}
  BY <1>1, <1>2 DEF Handle, Completing, Completes
<1>3. CASE done = {}
  <2>1. /\ pending' = [pending EXCEPT ![w] = [e EXCEPT !.ended = EndedAfter(e, evs, Len(evs))]]
        /\ UNCHANGED <<promise, timer, state>>
    BY <1>3 DEF Handle
  <2> QED BY <1>1, <2>1, EndedCounts
<1> QED BY <1>2, <1>3

LEMMA EntryLoad ==
  ASSUME NEW e \in Active
  PROVE  /\ e.ended + EndedIn(e.deferred) \in Nat /\ e.ended \in Nat /\ EndedIn(e.deferred) \in Nat
         /\ e.deferred \in Seq(Event) /\ e.scheduled \in Nat
<1>1. e.ended \in Nat /\ e.deferred \in Seq(Event) /\ e.scheduled \in Nat
  BY DEF Active
<1> QED BY <1>1, EndedCounts

LEMMA NothingCounted == NoEntry \in Active /\ NoEntry.call = 0 /\ NoEntry.scheduled = 0 /\ NoEntry.ended + EndedIn(NoEntry.deferred) = 0
<1>1. /\ NoEntry \in Active /\ NoEntry.call = 0 /\ NoEntry.scheduled = 0 /\ NoEntry.ended = 0
      /\ NoEntry.deferred = <<>>
  BY DEF NoEntry, Entry, Active
<1> QED BY <1>1, EndedInFew

LEMMA EmitEffect ==
  ASSUME Inv, NEW w \in Windows, NEW evs \in Seq(Event), Emit(w, evs)
  PROVE  Heard(w, EndedIn(evs)) /\ UNCHANGED <<disposal, aborted, calls, window, working>>
<1> DEFINE e == pending[w]
<1>0. e \in Active /\ pending \in [Windows -> Active] /\ jobs \in Seq(Job)
  BY DEF Inv, Shape
<1>1. UNCHANGED <<disposal, aborted, calls, window, working>>
  BY DEF Emit, callVars
<1>2. EndedIn(evs) \in Nat
  BY <1>0, EndedCounts
<1>3. /\ e.ended + EndedIn(e.deferred) \in Nat /\ e.ended \in Nat /\ EndedIn(e.deferred) \in Nat
      /\ e.deferred \in Seq(Event)
  BY <1>0, EntryLoad
<1>4. CASE e.call # 0 /\ e.generation # 0
  <2>1. Handle(w, e, evs)
    BY <1>4 DEF Emit
  <2>2. CASE e.scheduled > 0 /\ Completes(w, e.call)
    <3>1. pending'[w] = NoEntry /\ \A v \in Windows \ {w} : pending'[v] = pending[v]
      BY <1>0, <2>2 DEF Completes
    <3>2. Load(w)' = 0
      BY <3>1, NothingCounted DEF Load
    <3> QED BY <1>1, <1>0, <1>2, <1>3, <1>4, <2>1, <2>2, <3>1, <3>2, HandleEffect DEF Heard, Load
  <2>3. ASSUME NEW n \in Nat, n <= e.ended + EndedIn(evs),
               pending' = [pending EXCEPT ![w] = [e EXCEPT !.ended = n]],
               UNCHANGED <<promise, timer, state>>
        PROVE  Heard(w, EndedIn(evs))
    <3>1. /\ pending'[w] = [e EXCEPT !.ended = n] /\ \A v \in Windows \ {w} : pending'[v] = pending[v]
      BY <1>0, <2>3
    <3>2. pending'[w].ended = n /\ pending'[w].deferred = e.deferred /\ pending'[w].call = e.call
          /\ pending'[w].scheduled = e.scheduled
      BY <1>0, <3>1 DEF Active
    <3>3. Load(w)' <= Load(w) + EndedIn(evs)
      BY <1>2, <1>3, <2>3, <3>2 DEF Load
    <3> QED BY <1>0, <1>4, <2>1, <2>3, <3>1, <3>2, <3>3, HandleEffect DEF Heard
  <2> QED BY <1>0, <1>1, <2>1, <2>2, <2>3, HandleEffect
<1>5. CASE ~(e.call # 0 /\ e.generation # 0)
  <2>1. UNCHANGED <<jobs, promise, timer, state>>
    BY <1>5 DEF Emit
  <2>2. QueuesFailures
    <3>1. <<>> \in Seq(Job) /\ jobs' = jobs \o <<>> /\ Len(<<>>) = 0
      BY <1>0, <2>1
    <3>2. \A i \in 1..Len(<<>>) : <<>>[i].by = 0 /\ <<>>[i].kind = "fail"
      BY <3>1
    <3> QED BY <3>1, <3>2, Zenon DEF QueuesFailures
  <2>3. CASE e.call = 0
    <3>1. pending' = pending
      BY <1>5, <2>3 DEF Emit
    <3> QED BY <1>1, <1>2, <1>3, <2>1, <2>2, <3>1 DEF Heard, Load
  <2>4. CASE e.call # 0
    <3>1. pending' = [pending EXCEPT ![w] = [e EXCEPT !.deferred = @ \o evs]]
      BY <1>0, <1>5, <2>4 DEF Emit
    <3>2. /\ pending'[w] = [e EXCEPT !.deferred = @ \o evs] /\ \A v \in Windows \ {w} : pending'[v] = pending[v]
      BY <1>0, <3>1
    <3>3. /\ pending'[w].ended = e.ended /\ pending'[w].deferred = e.deferred \o evs
          /\ pending'[w].call = e.call /\ pending'[w].scheduled = e.scheduled
      BY <1>0, <3>2 DEF Active
    <3>4. EndedIn(e.deferred \o evs) <= EndedIn(e.deferred) + EndedIn(evs) /\ EndedIn(e.deferred \o evs) \in Nat
      <4>1. e.deferred \o evs \in Seq(Event)
        BY <1>3
      <4> HIDE DEF e
      <4> QED BY <1>0, <1>3, <4>1, EndedInJoined, EndedCounts
    <3>5. Load(w)' <= Load(w) + EndedIn(evs)
      BY <1>2, <1>3, <3>3, <3>4 DEF Load
    <3> QED BY <1>1, <2>1, <2>2, <2>4, <3>2, <3>3, <3>5 DEF Heard
  <2> QED BY <2>3, <2>4
<1> QED BY <1>4, <1>5

(* The end of a request of window w: at most one terminal.                   *)
LEMMA RequestEffect ==
  ASSUME Inv, NEW w \in Windows, NEW n, NEW k,
         \/ \E retry \in BOOLEAN : Settles(w, retry, n, k)
         \/ Verified(w) /\ n = out[w] - 1
         \/ SaveFails(w, n, k)
  PROVE  /\ \E m \in {0, 1} : Heard(w, m)
         /\ UNCHANGED <<disposal, aborted, calls, window, working, generation>>
         /\ out' = [out EXCEPT ![w] = n]
         /\ retrying' \in {retrying, [retrying EXCEPT ![w] = k], [retrying EXCEPT ![w] = k + 1]}
         /\ disabled' \in {disabled, disabled \cup {w}}
         /\ failed' \in {failed, failed \cup {w}} /\ (failed' # failed => w \in disabled')
         /\ exhausted' \in {exhausted, exhausted \cup {w}}
<1>1. CASE \E retry \in BOOLEAN : Settles(w, retry, n, k)
  <2> PICK retry \in BOOLEAN : Settles(w, retry, n, k)
    BY <1>1
  <2> DEFINE last == ~retry /\ w \notin exhausted
             rest == IF last THEN <<Exhausted(w)>> ELSE <<>>
             evs == <<Terminal(w, retry)>> \o rest
  <2>1. Terminal(w, retry) \in Event /\ Exhausted(w) \in Event /\ Exhausted(w).kind # "ended"
    BY EventsOfWindow DEF Exhausted
  <2>2. /\ <<Terminal(w, retry)>> \in Seq(Event) /\ rest \in Seq(Event)
        /\ EndedIn(<<Terminal(w, retry)>>) \in {0, 1} /\ EndedIn(rest) = 0
    <3>1. <<>> \in Seq(Event) /\ <<Terminal(w, retry)>> \in Seq(Event) /\ <<Exhausted(w)>> \in Seq(Event)
      BY <2>1
    <3>2. EndedIn(<<>>) = 0 /\ EndedIn(<<Exhausted(w)>>) = 0 /\ EndedIn(<<Terminal(w, retry)>>) \in {0, 1}
      BY <2>1, EndedInFew
    <3> QED BY <3>1, <3>2
  <2>3. evs \in Seq(Event) /\ EndedIn(evs) \in {0, 1}
    <3> DEFINE first == <<Terminal(w, retry)>>
    <3> HIDE DEF rest, first
    <3>0. first \in Seq(Event) /\ EndedIn(first) \in {0, 1} /\ evs = first \o rest
      BY <2>2 DEF first
    <3>1. evs \in Seq(Event) /\ EndedIn(evs) <= EndedIn(first) + EndedIn(rest)
      BY <2>2, <3>0, EndedInJoined
    <3> HIDE DEF evs
    <3>2. EndedIn(evs) \in Nat
      BY <3>1, EndedCounts, NothingCounted
    <3> QED BY <2>2, <3>0, <3>1, <3>2
  <2>4. Emit(w, evs)
    BY DEF Settles
  <2> HIDE DEF evs
  <2>5. Heard(w, EndedIn(evs)) /\ UNCHANGED <<disposal, aborted, calls, window, working>>
    BY <2>3, <2>4, EmitEffect
  <2>6. /\ UNCHANGED <<generation, disabled, failed>> /\ out' = [out EXCEPT ![w] = n]
        /\ exhausted' \in {exhausted, exhausted \cup {w}}
        /\ retrying' \in {[retrying EXCEPT ![w] = k], [retrying EXCEPT ![w] = k + 1]}
    BY DEF Settles
  <2> QED BY <2>3, <2>5, <2>6
<1>2. CASE Verified(w) /\ n = out[w] - 1
  <2>1. Terminal(w, FALSE) \in Event
    <3>1. FALSE \in BOOLEAN
      OBVIOUS
    <3> QED BY <3>1, EventsOfWindow
  <2>2. <<Terminal(w, FALSE)>> \in Seq(Event) /\ EndedIn(<<Terminal(w, FALSE)>>) \in {0, 1}
    BY <2>1, EventSequences, EndedInFew
  <2>3. Heard(w, EndedIn(<<Terminal(w, FALSE)>>)) /\ UNCHANGED <<disposal, aborted, calls, window, working>>
    BY <1>2, <2>2, EmitEffect DEF Verified
  <2>4. /\ UNCHANGED <<generation, disabled, failed, exhausted, retrying>>
        /\ out' = [out EXCEPT ![w] = n]
    BY <1>2 DEF Verified
  <2> QED BY <2>2, <2>3, <2>4
<1>3. CASE SaveFails(w, n, k)
  <2>1. ErrorEvent(w) \in Event /\ Terminal(w, FALSE) \in Event /\ ErrorEvent(w).kind # "ended"
    <3>1. FALSE \in BOOLEAN
      OBVIOUS
    <3> QED BY <3>1, EventsOfWindow DEF ErrorEvent
  <2> DEFINE evs == <<ErrorEvent(w), Terminal(w, FALSE)>>
  <2>2. evs \in Seq(Event) /\ EndedIn(evs) \in {0, 1}
    BY <2>1, EventSequences, EndedInFew
  <2>3. Emit(w, evs)
    BY <1>3 DEF SaveFails
  <2> HIDE DEF evs
  <2>4. Heard(w, EndedIn(evs)) /\ UNCHANGED <<disposal, aborted, calls, window, working>>
    BY <2>2, <2>3, EmitEffect
  <2>5. /\ UNCHANGED <<generation, exhausted>> /\ out' = [out EXCEPT ![w] = n]
        /\ disabled' = disabled \cup {w} /\ failed' = failed \cup {w}
        /\ retrying' = [retrying EXCEPT ![w] = k]
    BY <1>3 DEF SaveFails
  <2> QED BY <2>2, <2>4, <2>5
<1> QED BY <1>1, <1>2, <1>3

-----------------------------------------------------------------------------
(* What events of a window do is an ordinary step for the entries and the    *)
(* calls, whatever stage one call moves to.                                 *)
LEMMA HeardIsOrdinary ==
  ASSUME Inv, CleanInv, ControllerAssumption, NEW w \in Windows, NEW n, Heard(w, n),
         UNCHANGED <<calls, window>>,
         \A c \in 1..calls : stage'[c] \in Early => stage[c] \in Early
  PROVE  EntryStep /\ CauseStep /\ \E q : Adds(q)
<1>0. /\ \A c \in 1..calls : window[c] \in Windows /\ c \in Call /\ c # 0
      /\ timer \subseteq 1..calls /\ pending \in [Windows -> Active] /\ promise \in [Call -> {"open", "resolved", "rejected"}]
      /\ \A v \in Windows : pending[v].call # 0 => window[pending[v].call] = v
  BY DEF Inv, Shape, Call, ControllerAssumption, Keyed
<1>1. \E q : Adds(q)
  BY DEF Heard, QueuesFailures, Adds
<1>2. CASE pending[w].call # 0 /\ pending[w].scheduled > 0 /\ Completes(w, pending[w].call)
  <2>1. /\ pending'[w] = NoEntry /\ \A v \in Windows \ {w} : pending'[v] = pending[v]
        /\ NoEntry.scheduled = 0 /\ NoEntry.call = 0
    BY <1>0, <1>2, NothingCounted DEF Completes
  <2>2. EntryStep
    <3>1. disposal = "none"
      BY <1>2, NothingCounted DEF CleanInv, Disposal
    <3>2. timer' = timer \ {pending[w].call}
      BY <1>2 DEF Completes
    <3>3. \A c \in timer' : window[c] # w
      BY <3>2, <1>0 DEF CleanInv, TimersPending
    <3>4. \A c \in timer' : pending'[window[c]] = pending[window[c]]
      BY <1>0, <2>1, <3>2, <3>3
    <3>5. state \in Final => state' = state
      BY <1>2 DEF Completes, StateAfter
    <3>6. \A c \in Call \ (1..calls) : promise'[c] = promise[c]
      <4>1. pending[w].call \in 1..calls
        BY <1>2 DEF Inv, Shape, Keyed, Active, Call, ControllerAssumption
      <4> QED BY <1>0, <1>2, <4>1 DEF Completes
    <3> QED BY <3>1, <3>2, <3>4, <3>5, <3>6 DEF EntryStep
  <2>3. CauseStep
    <3> SUFFICES ASSUME NEW c \in 1..calls
                 PROVE  /\ Overtaken(c)' => Overtaken(c)
                        /\ promise'[c] = "rejected" => promise[c] = "rejected"
      BY DEF CauseStep
    <3>1. Overtaken(c)' => Overtaken(c)
      BY <1>0, <1>2, <2>1 DEF Overtaken
    <3>2. promise'[c] = "rejected" => promise[c] = "rejected"
      BY <1>0, <1>2 DEF Completes
    <3> QED BY <3>1, <3>2
  <2> QED BY <1>1, <2>2, <2>3
<1>3. CASE /\ pending'[w].call = pending[w].call /\ pending'[w].scheduled = pending[w].scheduled
           /\ pending[w].call = 0 => pending' = pending
           /\ UNCHANGED <<promise, timer, state>>
  <2>1. \A v \in Windows : pending'[v].call = pending[v].call /\ pending'[v].scheduled = pending[v].scheduled
    BY <1>3 DEF Heard
  <2>2. EntryStep
    BY <1>0, <1>3, <2>1, NothingCounted DEF EntryStep, CleanInv, Disposal
  <2>3. CauseStep
    BY <1>0, <1>3, <2>1 DEF CauseStep, Overtaken
  <2> QED BY <1>1, <2>2, <2>3
<1> QED BY <1>2, <1>3 DEF Heard

LEMMA QuietIsOrdinary ==
  ASSUME Inv, ControllerAssumption, UNCHANGED <<jobs, pending, promise, timer, calls, window>>,
         state' = state \/ state \notin Final,
         \A c \in 1..calls : stage'[c] \in Early => stage[c] \in Early
  PROVE  EntryStep /\ CauseStep /\ \E q : Adds(q)
<1>1. <<>> \in Seq(Job) /\ jobs' = jobs \o <<>> /\ Len(<<>>) = 0
  BY DEF Inv, Shape
<1>2. \A i \in 1..Len(<<>>) : <<>>[i].by = 0 /\ <<>>[i].kind = "fail"
  BY <1>1
<1>3. Adds(<<>>)
  BY <1>1, <1>2, Zenon DEF Adds
<1>4. EntryStep /\ CauseStep
  BY DEF EntryStep, CauseStep, Overtaken
<1> QED BY <1>3, <1>4

LEMMA StageMovesOn ==
  ASSUME Inv, ControllerAssumption, NEW c \in Call, NEW s,
         stage' = [stage EXCEPT ![c] = s], stage[c] \notin {"cleaning", "failing", "threw"}, s # "threw",
         s \in {"scheduling", "filling"} => stage[c] \in {"scheduling", "filling"}
  PROVE  /\ StageStep
         /\ (s \in Early => stage[c] \in Early) => \A d \in 1..calls : stage'[d] \in Early => stage[d] \in Early
<1>1. stage \in [Call -> Stage] /\ \A d \in 1..calls : d \in Call
  BY DEF Inv, Shape, Call, ControllerAssumption
<1>2. \A d \in 1..calls : stage'[d] = IF d = c THEN s ELSE stage[d]
  BY <1>1
<1> QED BY <1>2 DEF StageStep

(* A call whose awaits threw queues the failure it waits for.                *)
LEMMA CatchIsOrdinary ==
  ASSUME Inv, CleanInv, ControllerAssumption, NEW c \in 1..calls, Catch(c),
         stage[c] \in Early \/ promise[c] = "rejected", stage[c] \notin {"cleaning", "failing", "threw"}
  PROVE  /\ UNCHANGED <<calls, window, working, disposal>>
         /\ StageStep /\ EntryStep /\ CauseStep /\ \E q : Adds(q)
<1> DEFINE job == FailJob(window[c], "failed", c)
<1>0. /\ c \in Call /\ c # 0 /\ window[c] \in Windows /\ stage \in [Call -> Stage] /\ jobs \in Seq(Job)
      /\ \A d \in 1..calls : d \in Call
  BY DEF Inv, Shape, Call, ControllerAssumption
<1>1. /\ jobs' = Append(jobs, job) /\ stage' = [stage EXCEPT ![c] = "cleaning"]
      /\ UNCHANGED <<calls, window, working, disposal, state, pending, promise, timer>>
  BY DEF Catch, lifeVars, callVars, entryVars
<1>2. StageStep
  BY <1>0, <1>1, StageMovesOn
<1>3. \E q : Adds(q)
  <2>1. job \in Job /\ job.kind = "fail" /\ job.by = c /\ job.window = window[c]
    BY <1>0 DEF FailJob, Job, Final
  <2> HIDE DEF job
  <2>2. <<job>> \in Seq(Job) /\ Len(<<job>>) = 1 /\ <<job>>[1] = job /\ jobs' = jobs \o <<job>>
    BY <1>0, <1>1, <2>1
  <2>3. stage'[c] = "cleaning"
    BY <1>0, <1>1
  <2>4. Adds(<<job>>)
    BY <2>1, <2>2, <2>3 DEF Adds
  <2> QED BY <2>4
<1>4. EntryStep
  BY <1>1 DEF EntryStep
<1>5. CauseStep
  <2> SUFFICES ASSUME NEW d \in 1..calls
               PROVE  Overtaken(d)' => Overtaken(d) \/ Doomed(window[d])
    BY <1>1 DEF CauseStep
  <2>1. CASE d # c
    <3>1. stage'[d] = stage[d]
      BY <1>0, <1>1, <2>1
    <3> QED BY <1>1, <3>1 DEF Overtaken
  <2>2. CASE d = c
    <3>1. Overtaken(c)' => Overtaken(c) \/ promise[c] = "rejected"
      BY <1>1 DEF Overtaken
    <3> QED BY <2>2, <3>1 DEF CleanInv, Causes
  <2> QED BY <2>1, <2>2
<1> QED BY <1>1, <1>2, <1>3, <1>4, <1>5

LEMMA EngineRests ==
  ASSUME UNCHANGED <<disabled, generation, out, retrying>>, CleanInv
  PROVE  EngineStep
BY DEF EngineStep, CleanInv, Disposal

(* Only a window that the engine knows changes.                              *)
LEMMA EngineMoves ==
  ASSUME Inv, ControllerAssumption, NEW w \in Windows, generation[w] # 0, disposal # "done",
         disabled \subseteq disabled', generation' \in [Windows -> Nat], generation'[w] # 0,
         \A v \in Windows \ {w} : generation'[v] = generation[v] /\ out'[v] = out[v] /\ retrying'[v] = retrying[v]
  PROVE  EngineStep
BY DEF EngineStep

(* A request that ends in a known window.                                    *)
LEMMA RequestIsOrdinary ==
  ASSUME Inv, CleanInv, ControllerAssumption, NEW w \in Windows, NEW n, NEW k,
         \/ \E retry \in BOOLEAN : Settles(w, retry, n, k)
         \/ Verified(w) /\ n = out[w] - 1
         \/ SaveFails(w, n, k),
         retrying \in [Windows -> Nat], generation[w] # 0, disposal # "done", StageStep,
         \A c \in 1..calls : stage'[c] \in Early => stage[c] \in Early
  PROVE  OrdinaryStep
<1>1. /\ \E m \in {0, 1} : Heard(w, m)
      /\ UNCHANGED <<disposal, aborted, calls, window, working, generation>>
      /\ out' = [out EXCEPT ![w] = n]
      /\ retrying' \in {retrying, [retrying EXCEPT ![w] = k], [retrying EXCEPT ![w] = k + 1]}
      /\ disabled' \in {disabled, disabled \cup {w}}
  BY RequestEffect, Zenon
<1>2. EngineStep
  <2>1. \A v \in Windows \ {w} : out'[v] = out[v] /\ retrying'[v] = retrying[v]
    BY <1>1 DEF Inv, Shape
  <2> QED BY <1>1, <2>1, EngineMoves DEF Inv, Shape
<1>3. EntryStep /\ CauseStep /\ \E q : Adds(q)
  BY <1>1, HeardIsOrdinary
<1> QED BY <1>1, <1>2, <1>3 DEF OrdinaryStep

(* The calls that are being scheduled.                                       *)
LEMMA FillingIsOpen ==
  ASSUME Inv, CleanInv, ControllerAssumption, NEW c \in Call, stage[c] \in {"scheduling", "filling"}
  PROVE  /\ c \in 1..calls /\ window[c] \in Windows /\ generation[window[c]] # 0 /\ disposal # "done"
<1>1. c \in 1..calls /\ window[c] \in Windows
  BY DEF Inv, Shape, Call
<1> QED BY <1>1 DEF CleanInv, Opened, Disposal

LEMMA CallIsOrdinary ==
  ASSUME Inv, CleanInv, ControllerAssumption, retrying \in [Windows -> Nat], NEW c \in Call,
         CallProceeds(c) \/ Timeout(c) \/ FillIssues(c) \/ FillFails(c)
  PROVE  OrdinaryStep
<1>0. /\ stage \in [Call -> Stage] /\ (stage[c] # "none" => c \in 1..calls /\ window[c] \in Windows)
      /\ \A d \in 1..calls : d \in Call /\ d # 0 /\ window[d] \in Windows
      /\ pending \in [Windows -> Active] /\ timer \subseteq 1..calls /\ 0 \notin 1..calls
      /\ out \in [Windows -> Nat] /\ generation \in [Windows -> Nat]
  <2>1. calls \in Nat /\ calls <= MaxCalls /\ MaxCalls \in Nat
    BY DEF Inv, Shape, ControllerAssumption
  <2>2. c \in 1..MaxCalls /\ (stage[c] # "none" => c <= calls)
    BY DEF Inv, Shape, Call
  <2>3. (stage[c] # "none" => c \in 1..calls) /\ 0 \notin 1..calls /\ 1..calls \subseteq Call
    BY <2>1, <2>2 DEF Call
  <2> QED BY <2>3 DEF Inv, Shape
<1>1. CASE FillRefused(c)
  <2>1. c \in 1..calls /\ Catch(c) /\ stage[c] \in Early /\ stage[c] \notin {"cleaning", "failing", "threw"}
    BY <1>0, <1>1 DEF FillRefused, Early
  <2>2. EngineStep
    BY <1>1, EngineRests DEF FillRefused, engineVars
  <2> QED BY <2>1, <2>2, CatchIsOrdinary DEF OrdinaryStep
<1>2. CASE FillStops(c)
  <2>1. /\ stage[c] \in {"scheduling", "filling"} /\ stage' = [stage EXCEPT ![c] = "returning"]
        /\ UNCHANGED <<lifeVars, callVars, ahead, entryVars, jobVars, engineVars>>
    BY <1>2 DEF FillStops, MayFill
  <2>2. EngineStep
    BY <2>1, EngineRests DEF engineVars
  <2>3. StageStep /\ \A d \in 1..calls : stage'[d] \in Early => stage[d] \in Early
    BY <1>0, <2>1, StageMovesOn DEF Early
  <2>4. EntryStep /\ CauseStep /\ \E q : Adds(q)
    BY <2>1, <2>3, QuietIsOrdinary DEF lifeVars, callVars, entryVars, jobVars
  <2> QED BY <2>1, <2>2, <2>3, <2>4 DEF OrdinaryStep, lifeVars, callVars, jobVars
<1>3. CASE ScheduledReturns(c)
  <2> DEFINE w == window[c]
             e == pending[w]
             dry == filling[c] = 0 /\ TotalOut = 0
             new == [e EXCEPT !.scheduled = filling[c], !.generation = generation[w], !.deferred = <<>>]
  <2>1. /\ stage[c] = "returning" /\ c \in 1..calls /\ w \in Windows
        /\ stage' = [stage EXCEPT ![c] = IF dry THEN "recheck" ELSE "awaiting"]
        /\ UNCHANGED <<disposal, aborted, calls, window, working, out, retrying, generation, disabled>>
        /\ IF e.call # 0 THEN Handle(w, new, e.deferred) ELSE UNCHANGED <<jobs, promise, timer, pending, state>>
    BY <1>0, <1>3 DEF ScheduledReturns, callVars, entryVars
  <2>2. EngineStep
    BY <2>1, EngineRests
  <2>3. StageStep /\ \A d \in 1..calls : stage'[d] \in Early => stage[d] \in Early
    <3> DEFINE s == IF dry THEN "recheck" ELSE "awaiting"
    <3>1. s \notin {"threw", "scheduling", "filling"} /\ stage' = [stage EXCEPT ![c] = s]
      BY <2>1
    <3> HIDE DEF s
    <3> QED BY <2>1, <3>1, StageMovesOn DEF Early
  <2>4. CASE e.call = 0
    BY <2>1, <2>2, <2>3, <2>4, QuietIsOrdinary DEF OrdinaryStep
  <2>5. CASE e.call # 0
    <3>0. e \in Active /\ e.deferred \in Seq(Event) /\ disposal = "none"
      BY <1>0, <2>1, <2>5, NothingCounted DEF Active, CleanInv, Disposal
    <3>1. new \in Active /\ new.call = e.call /\ new.scheduled = filling[c]
      <4>1. filling[c] \in Nat /\ generation[w] \in Nat /\ <<>> \in Seq(Event)
        BY <1>0, <2>1 DEF Inv, Shape
      <4> HIDE DEF e, w
      <4> QED BY <3>0, <4>1 DEF Active
    <3>2. /\ QueuesFailures
          /\ \/ filling[c] > 0 /\ Completes(w, e.call)
             \/ \E n \in Nat : /\ pending' = [pending EXCEPT ![w] = [new EXCEPT !.ended = n]]
                               /\ UNCHANGED <<promise, timer, state>>
      <4> HIDE DEF new, e
      <4>1. Handle(w, new, e.deferred) /\ new \in Active /\ e.deferred \in Seq(Event) /\ w \in Windows
        BY <2>1, <2>5, <3>0, <3>1
      <4>2. /\ QueuesFailures
            /\ \/ new.scheduled > 0 /\ Completes(w, new.call)
               \/ \E n \in Nat : /\ n <= new.ended + EndedIn(e.deferred)
                                 /\ pending' = [pending EXCEPT ![w] = [new EXCEPT !.ended = n]]
                                 /\ UNCHANGED <<promise, timer, state>>
        BY <4>1, HandleEffect
      <4> QED BY <3>1, <4>2
    <3>3. \E q : Adds(q)
      BY <3>2 DEF QueuesFailures, Adds
    <3>4. window[e.call] = w
      BY <2>1, <2>5 DEF Inv, Keyed
    <3>5. \A d \in 1..calls : d # c /\ window[d] = w /\ stage[d] \in Early => Overtaken(d) \/ Doomed(w)
      <4>1. e.call # c => Doomed(w)
        BY <2>1 DEF CleanInv, Causes, Overtaken, Early
      <4> QED BY <4>1 DEF Overtaken
    <3>6. CASE filling[c] > 0 /\ Completes(w, e.call)
      <4>1. /\ pending'[w] = NoEntry /\ NoEntry.call = 0 /\ \A v \in Windows \ {w} : pending'[v] = pending[v]
            /\ timer' = timer \ {e.call} /\ promise' = [promise EXCEPT ![e.call] = "resolved"]
            /\ state' = StateAfter("running")
        BY <1>0, <2>1, <3>6, NothingCounted DEF Completes
      <4>2. EntryStep
        <5>1. \A d \in timer' : d \in timer /\ window[d] # w
          BY <4>1 DEF CleanInv, TimersPending
        <5>2. \A d \in Call \ (1..calls) : promise'[d] = promise[d]
          <6>1. e.call \in 1..calls
            BY <2>1, <2>5 DEF Inv, Shape, Keyed, Active, Call, ControllerAssumption
          <6> QED BY <4>1, <6>1 DEF Inv, Shape
        <5> HIDE DEF w
        <5> QED BY <1>0, <3>0, <4>1, <5>1, <5>2 DEF EntryStep, StateAfter
      <4>3. stage'[c] \notin Early
        BY <1>0, <2>1, <3>6 DEF Early
      <4>4. CauseStep
        <5> SUFFICES ASSUME NEW d \in 1..calls
                     PROVE  /\ Overtaken(d)' => Overtaken(d) \/ Doomed(window[d])
                            /\ promise'[d] = "rejected" => promise[d] = "rejected"
          BY DEF CauseStep
        <5>1. promise'[d] = "rejected" => promise[d] = "rejected"
          BY <1>0, <4>1 DEF Inv, Shape
        <5>2. Overtaken(d)' => stage'[d] \in Early /\ stage[d] \in Early /\ d # c
          BY <2>3, <4>3 DEF Overtaken
        <5>3. CASE window[d] # w
          <6>1. pending'[window[d]] = pending[window[d]] /\ window'[d] = window[d]
            BY <1>0, <2>1, <4>1, <5>3
          <6> QED BY <5>1, <5>2, <6>1 DEF Overtaken
        <5>4. CASE window[d] = w
          BY <3>5, <5>1, <5>2, <5>4
        <5> QED BY <5>3, <5>4
      <4> QED BY <2>1, <2>2, <2>3, <3>3, <4>2, <4>4 DEF OrdinaryStep
    <3>7. ASSUME NEW n \in Nat, pending' = [pending EXCEPT ![w] = [new EXCEPT !.ended = n]],
                 UNCHANGED <<promise, timer, state>>
          PROVE  OrdinaryStep
      <4>1. /\ pending'[w].call = e.call /\ pending'[w].scheduled = filling[c]
            /\ \A v \in Windows \ {w} : pending'[v] = pending[v]
        <5> HIDE DEF new, w
        <5>1. pending'[w] = [new EXCEPT !.ended = n] /\ \A v \in Windows \ {w} : pending'[v] = pending[v]
          BY <1>0, <2>1, <3>7
        <5> QED BY <3>1, <5>1 DEF Active
      <4>2. EntryStep
        BY <1>0, <3>0, <3>7, <4>1 DEF EntryStep
      <4>3. Overtaken(c)' => Overtaken(c) \/ Doomed(w)
        <5>1. Overtaken(c)' => stage'[c] = "recheck"
          BY <1>0, <2>1 DEF Overtaken, Early
        <5>2. stage'[c] = "recheck" => filling[c] = 0
          BY <1>0, <2>1
        <5>3. Overtaken(c)' => e.call # c
          BY <2>1, <4>1, <5>1, <5>2 DEF Overtaken
        <5> QED BY <2>1, <5>3 DEF Overtaken, Early
      <4>4. CauseStep
        <5> SUFFICES ASSUME NEW d \in 1..calls
                     PROVE  Overtaken(d)' => Overtaken(d) \/ Doomed(window[d])
          BY <3>7 DEF CauseStep
        <5>1. CASE window[d] # w
          <6>1. pending'[window[d]] = pending[window[d]] /\ window'[d] = window[d]
            BY <1>0, <2>1, <4>1, <5>1
          <6> QED BY <2>3, <6>1 DEF Overtaken
        <5>2. CASE window[d] = w /\ d # c
          BY <2>3, <3>5, <5>2 DEF Overtaken
        <5> QED BY <4>3, <5>1, <5>2
      <4> QED BY <2>1, <2>2, <2>3, <3>3, <4>2, <4>4 DEF OrdinaryStep
    <3> QED BY <3>2, <3>6, <3>7
  <2> QED BY <2>4, <2>5
<1>4. CASE Rechecked(c)
  <2> DEFINE w == window[c]
  <2>1. /\ stage[c] = "recheck" /\ c \in 1..calls /\ w \in Windows
        /\ UNCHANGED <<lifeVars, callVars, ahead, promise, timer, working, engineVars>>
    BY <1>0, <1>4 DEF Rechecked
  <2>2. EngineStep
    BY <2>1, EngineRests DEF engineVars
  <2>3. \E s \in {"awaiting", "failing"} : stage' = [stage EXCEPT ![c] = s]
    BY <1>4 DEF Rechecked
  <2>4. /\ StageStep /\ \A d \in 1..calls : stage'[d] \in Early => stage[d] \in Early
        /\ stage'[c] \notin Early
    BY <1>0, <2>1, <2>3, StageMovesOn DEF Early
  <2>5. CASE TotalOut > 0
    <3>1. /\ pending' = IF pending[w].call = 0 THEN pending ELSE [pending EXCEPT ![w].scheduled = TotalOut]
          /\ UNCHANGED jobs
      BY <1>4, <2>5 DEF Rechecked
    <3>2. \A v \in Windows : pending'[v].call = pending[v].call /\ (v # w => pending'[v] = pending[v])
      <4> HIDE DEF w
      <4> QED BY <1>0, <2>1, <3>1 DEF Active
    <3>3. \E q : Adds(q)
      <4>1. <<>> \in Seq(Job) /\ jobs' = jobs \o <<>> /\ \A i \in 1..Len(<<>>) : <<>>[i].by = 0 /\ <<>>[i].kind = "fail"
        BY <3>1 DEF Inv, Shape
      <4> QED BY <4>1, Zenon DEF Adds
    <3>4. EntryStep
      <4>1. disposal # "none" => pending' = pending
        BY <2>1, <3>1, NothingCounted DEF CleanInv, Disposal
      <4>2. UNCHANGED <<state, timer, window, promise>>
        BY <2>1 DEF lifeVars, callVars
      <4> QED BY <1>0, <3>2, <4>1, <4>2 DEF EntryStep
    <3>5. CauseStep
      <4> SUFFICES ASSUME NEW d \in 1..calls
                   PROVE  Overtaken(d)' => Overtaken(d) \/ Doomed(window[d])
        BY <2>1 DEF CauseStep
      <4>0. window' = window
        BY <2>1 DEF callVars
      <4>1. CASE window[d] # w
        BY <1>0, <2>4, <3>2, <4>0, <4>1 DEF Overtaken
      <4>2. CASE window[d] = w /\ d # c
        <5>1. pending[w].call # c => Doomed(w)
          BY <2>1 DEF CleanInv, Causes, Overtaken, Early
        <5> QED BY <2>4, <4>0, <4>2, <5>1 DEF Overtaken
      <4>3. CASE d = c
        BY <2>4, <4>3 DEF Overtaken
      <4> QED BY <4>1, <4>2, <4>3
    <3> QED BY <2>1, <2>2, <2>4, <3>3, <3>4, <3>5 DEF OrdinaryStep, lifeVars, callVars
  <2>6. CASE ~(TotalOut > 0)
    <3> DEFINE job == FailJob(w, "failed", c)
    <3>1. jobs' = Append(jobs, job) /\ UNCHANGED pending /\ stage' = [stage EXCEPT ![c] = "failing"]
      BY <1>4, <2>6 DEF Rechecked
    <3>2. \E q : Adds(q)
      <4>1. job \in Job /\ job.kind = "fail" /\ job.by = c /\ job.window = w
        BY <1>0, <2>1 DEF FailJob, Job, Final
      <4> HIDE DEF job
      <4>2. <<job>> \in Seq(Job) /\ Len(<<job>>) = 1 /\ <<job>>[1] = job /\ jobs' = jobs \o <<job>>
        BY <3>1, <4>1 DEF Inv, Shape
      <4>3. stage'[c] = "failing"
        BY <1>0, <3>1
      <4>4. Adds(<<job>>)
        BY <2>1, <4>1, <4>2, <4>3 DEF Adds
      <4> QED BY <4>4
    <3>3. EntryStep /\ CauseStep
      BY <2>1, <2>4, <3>1 DEF EntryStep, CauseStep, Overtaken, lifeVars, callVars
    <3> QED BY <2>1, <2>2, <2>4, <3>2, <3>3 DEF OrdinaryStep, lifeVars, callVars
  <2> QED BY <2>5, <2>6
<1>5. CASE RecheckFails(c)
  <2>1. c \in 1..calls /\ Catch(c) /\ stage[c] \in Early /\ stage[c] \notin {"cleaning", "failing", "threw"}
    BY <1>0, <1>5 DEF RecheckFails, Early
  <2>2. EngineStep
    BY <1>5, EngineRests DEF RecheckFails
  <2> QED BY <2>1, <2>2, CatchIsOrdinary DEF OrdinaryStep
<1>6. CASE ResultResolves(c)
  <2>1. /\ stage[c] = "awaiting" /\ stage' = [stage EXCEPT ![c] = "returned"]
        /\ UNCHANGED <<lifeVars, callVars, ahead, entryVars, jobVars, engineVars>>
    BY <1>6 DEF ResultResolves
  <2>2. EngineStep
    BY <2>1, EngineRests DEF engineVars
  <2>3. StageStep /\ \A d \in 1..calls : stage'[d] \in Early => stage[d] \in Early
    BY <1>0, <2>1, StageMovesOn DEF Early
  <2>4. EntryStep /\ CauseStep /\ \E q : Adds(q)
    BY <2>1, <2>3, QuietIsOrdinary DEF lifeVars, callVars, entryVars, jobVars
  <2> QED BY <2>1, <2>2, <2>3, <2>4 DEF OrdinaryStep, lifeVars, callVars, jobVars
<1>7. CASE ResultRejects(c)
  <2>1. /\ c \in 1..calls /\ Catch(c) /\ promise[c] = "rejected"
        /\ stage[c] \notin {"cleaning", "failing", "threw"}
    BY <1>0, <1>7 DEF ResultRejects
  <2>2. EngineStep
    BY <1>7, EngineRests DEF ResultRejects, engineVars
  <2> QED BY <2>1, <2>2, CatchIsOrdinary DEF OrdinaryStep
<1>8. CASE Timeout(c)
  <2> DEFINE job == FailJob(window[c], "failed", 0)
  <2>1. /\ c \in 1..calls /\ timer' = timer \ {c} /\ jobs' = Append(jobs, job)
        /\ UNCHANGED <<lifeVars, callVars, stage, ahead, promise, pending, working, engineVars>>
    BY <1>0, <1>8 DEF Timeout
  <2>2. EngineStep
    BY <2>1, EngineRests DEF engineVars
  <2>3. \E q : Adds(q)
    <3>1. job \in Job /\ job.kind = "fail" /\ job.by = 0
      BY <1>0, <2>1 DEF FailJob, Job, Final
    <3> HIDE DEF job
    <3>2. <<job>> \in Seq(Job) /\ jobs' = jobs \o <<job>> /\ Len(<<job>>) = 1 /\ <<job>>[1] = job
      BY <2>1, <3>1 DEF Inv, Shape
    <3>3. \A i \in 1..Len(<<job>>) : <<job>>[i].by = 0 /\ <<job>>[i].kind = "fail"
      BY <3>1, <3>2
    <3> QED BY <3>2, <3>3, Zenon DEF Adds
  <2>4. EntryStep /\ CauseStep /\ StageStep
    BY <2>1 DEF EntryStep, CauseStep, StageStep, Overtaken, lifeVars, callVars
  <2> QED BY <2>1, <2>2, <2>3, <2>4 DEF OrdinaryStep, lifeVars, callVars
<1>9. CASE FillIssues(c)
  <2> DEFINE w == window[c]
  <2>1. /\ stage[c] \in {"scheduling", "filling"} /\ stage' = [stage EXCEPT ![c] = "filling"]
        /\ out' = [out EXCEPT ![w] = @ + 1]
        /\ UNCHANGED <<lifeVars, callVars, ahead, entryVars, jobVars, retrying, generation, disabled>>
    BY <1>9 DEF FillIssues, MayFill
  <2>2. EngineStep
    <3>1. \A v \in Windows \ {w} : out'[v] = out[v]
      BY <1>0, <2>1
    <3> QED BY <1>0, <2>1, <3>1, FillingIsOpen, EngineMoves
  <2>3. StageStep /\ \A d \in 1..calls : stage'[d] \in Early => stage[d] \in Early
    BY <1>0, <2>1, StageMovesOn DEF Early
  <2>4. EntryStep /\ CauseStep /\ \E q : Adds(q)
    BY <2>1, <2>3, QuietIsOrdinary DEF lifeVars, callVars, entryVars, jobVars
  <2> QED BY <2>1, <2>2, <2>3, <2>4 DEF OrdinaryStep, lifeVars, callVars, jobVars
<1>10. CASE FillFails(c)
  <2> DEFINE w == window[c]
  <2>1. /\ stage[c] \in {"scheduling", "filling"} /\ stage' = [stage EXCEPT ![c] = "returning"]
        /\ \/ \E retry \in BOOLEAN : Settles(w, retry, out[w], retrying[w])
           \/ SaveFails(w, out[w], retrying[w])
    BY <1>10 DEF FillFails, MayFill
  <2>2. w \in Windows /\ generation[w] # 0 /\ disposal # "done"
    BY <2>1, FillingIsOpen
  <2>3. StageStep /\ \A d \in 1..calls : stage'[d] \in Early => stage[d] \in Early
    BY <1>0, <2>1, StageMovesOn DEF Early
  <2> HIDE DEF w
  <2> QED BY <2>1, <2>2, <2>3, RequestIsOrdinary
<1> QED BY <1>1, <1>2, <1>3, <1>4, <1>5, <1>6, <1>7, <1>8, <1>9, <1>10 DEF CallProceeds

LEMMA CancelEffect ==
  ASSUME Inv, ControllerAssumption, NEW S \in SUBSET Windows, Cancelled(S)
  PROVE  /\ disabled \subseteq disabled' /\ \A v \in S : generation[v] # 0 => v \in disabled'
         /\ retrying' = retrying
         /\ \A v \in Windows : /\ (generation'[v] = 0 <=> generation[v] = 0)
                               /\ (v \notin S \/ generation[v] = 0) => generation'[v] = generation[v] /\ out'[v] = out[v]
                               /\ v \in S /\ generation[v] # 0 => out'[v] = 0
BY DEF Cancelled, Inv, Shape

LEMMA WindowIsOrdinary ==
  ASSUME Inv, CleanInv, ControllerAssumption, retrying \in [Windows -> Nat], NEW w \in Windows,
         RequestWindowAgain(w) \/ CancelByOwner(w) \/ RequestEnds(w) \/ RetryRuns(w)
  PROVE  OrdinaryStep
<1>0. StageStep /\ \A c \in 1..calls : stage'[c] \in Early => stage[c] \in Early
  <2>1. stage' = stage
    BY DEF RequestWindowAgain, CancelByOwner, RequestEnds, RetryRuns
  <2> QED BY <2>1 DEF StageStep
<1>00. generation \in [Windows -> Nat] /\ out \in [Windows -> Nat]
  BY DEF Inv, Shape
<1>1. CASE RequestWindowAgain(w)
  <2>1. /\ UNCHANGED <<disposal, calls, window, working, jobs, promise, timer, pending>>
        /\ UNCHANGED <<disabled, generation, out, retrying>> /\ state \notin Final
    BY <1>1 DEF RequestWindowAgain, callVars, entryVars, jobVars, engineVars
  <2> QED BY <1>0, <2>1, EngineRests, QuietIsOrdinary DEF OrdinaryStep
<1>2. CASE CancelByOwner(w)
  <2> DEFINE n == out[w]
             evs == [i \in 1..n |-> Terminal(w, FALSE)]
  <2>1. Emit(w, evs) /\ Cancelled({w}) /\ generation[w] # 0 /\ w \notin disabled
    BY <1>2 DEF CancelByOwner
  <2>2. evs \in Seq(Event)
    <3>1. FALSE \in BOOLEAN
      OBVIOUS
    <3>2. Terminal(w, FALSE) \in Event
      BY <3>1, EventsOfWindow
    <3>3. evs \in [1..n -> Event] /\ n \in Nat
      BY <1>00, <3>2
    <3> HIDE DEF evs, n
    <3> QED BY <3>3
  <2> HIDE DEF evs
  <2>3. Heard(w, EndedIn(evs)) /\ UNCHANGED <<disposal, aborted, calls, window, working>>
    BY <2>1, <2>2, EmitEffect
  <2>4. EntryStep /\ CauseStep /\ \E q : Adds(q)
    BY <1>0, <2>3, HeardIsOrdinary
  <2>5. disposal # "done"
    BY <2>1 DEF CleanInv, Disposal
  <2>6. EngineStep
    <3>1. {w} \in SUBSET Windows
      OBVIOUS
    <3>2. /\ disabled \subseteq disabled' /\ retrying' = retrying /\ generation'[w] # 0
          /\ \A v \in Windows \ {w} : generation'[v] = generation[v] /\ out'[v] = out[v]
      BY <2>1, <3>1, CancelEffect
    <3>3. generation' \in [Windows -> Nat]
      BY <2>1, CancelledShape
    <3> QED BY <2>1, <2>5, <3>2, <3>3, EngineMoves
  <2> QED BY <1>0, <2>3, <2>4, <2>6 DEF OrdinaryStep
<1>3. CASE RequestEnds(w)
  <2>1. /\ out[w] > 0
        /\ \/ \E retry \in BOOLEAN : Settles(w, retry, out[w] - 1, retrying[w])
           \/ Verified(w)
           \/ SaveFails(w, out[w] - 1, retrying[w])
    BY <1>3 DEF RequestEnds
  <2>2. generation[w] # 0 /\ disposal # "done"
    BY <1>00, <2>1 DEF CleanInv, Opened, Disposal
  <2>3. ASSUME NEW n, n = out[w] - 1
        PROVE  OrdinaryStep
    BY <1>0, <2>1, <2>2, <2>3, RequestIsOrdinary
  <2> QED BY <2>3
<1>4. CASE RetryRuns(w)
  <2> DEFINE k == retrying[w] - 1
  <2>0. retrying[w] > 0
    BY <1>4 DEF RetryRuns
  <2>1. generation[w] # 0 /\ disposal # "done"
    BY <2>0 DEF CleanInv, Opened, Disposal
  <2>2. \/ /\ UNCHANGED <<state, disposal, calls, window, working, jobs, promise, timer, pending, generation, disabled>>
           /\ out' = out \/ out' = [out EXCEPT ![w] = @ + 1]
           /\ retrying' = [retrying EXCEPT ![w] = k]
        \/ \E retry \in BOOLEAN : Settles(w, retry, out[w], k)
        \/ SaveFails(w, out[w], k)
    BY <1>4 DEF RetryRuns, lifeVars, callVars, entryVars, jobVars
  <2>3. CASE /\ UNCHANGED <<state, disposal, calls, window, working, jobs, promise, timer, pending, generation, disabled>>
             /\ out' = out \/ out' = [out EXCEPT ![w] = @ + 1]
             /\ retrying' = [retrying EXCEPT ![w] = k]
    <3>1. \A v \in Windows \ {w} : out'[v] = out[v] /\ retrying'[v] = retrying[v]
      BY <1>00, <2>3
    <3>2. EngineStep
      BY <1>00, <2>1, <2>3, <3>1, EngineMoves
    <3> QED BY <1>0, <2>3, <3>2, QuietIsOrdinary DEF OrdinaryStep
  <2>4. CASE (\E retry \in BOOLEAN : Settles(w, retry, out[w], k)) \/ SaveFails(w, out[w], k)
    <3> HIDE DEF k
    <3> QED BY <1>0, <2>1, <2>4, RequestIsOrdinary
  <2> QED BY <2>2, <2>3, <2>4
<1> QED BY <1>1, <1>2, <1>3, <1>4

LEMMA FailAllQueues ==
  ASSUME Inv, ControllerAssumption, NEW s \in Final, FailAll(s)
  PROVE  \E q : Adds(q)
<1>1. calls \in Nat
  BY DEF Inv, Shape, ControllerAssumption
<1> PICK n \in 0..calls : \E order \in [1..n -> Pending] :
        jobs' = jobs \o [i \in 1..n |-> FailJob(window[order[i]], s, 0)]
  BY DEF FailAll
<1>2. PICK order \in [1..n -> Pending] :
        jobs' = jobs \o [i \in 1..n |-> FailJob(window[order[i]], s, 0)]
  OBVIOUS
<1> DEFINE q == [i \in 1..n |-> FailJob(window[order[i]], s, 0)]
<1>3. \A i \in 1..n : FailJob(window[order[i]], s, 0) \in Job /\ FailJob(window[order[i]], s, 0).by = 0
                     /\ FailJob(window[order[i]], s, 0).kind = "fail"
  BY <1>2 DEF FailJob, Job, Pending, Inv, Shape
<1>4. q \in [1..n -> Job] /\ \A i \in 1..n : q[i].by = 0 /\ q[i].kind = "fail"
  BY <1>3
<1>5. n \in Nat /\ jobs' = jobs \o q
  BY <1>1, <1>2
<1> HIDE DEF q
<1>6. q \in Seq(Job) /\ Len(q) = n
  BY <1>4, <1>5
<1>7. Adds(q)
  BY <1>4, <1>5, <1>6 DEF Adds
<1> QED BY <1>7

LEMMA PageIsOrdinary ==
  ASSUME Inv, CleanInv, ControllerAssumption, TransportFatal \/ Abort \/ OwnerFlush
  PROVE  OrdinaryStep
<1>1. /\ UNCHANGED <<disposal, calls, window, working, stage, promise, timer, pending>>
      /\ UNCHANGED <<disabled, generation, out, retrying>>
      /\ state' = state \/ state' = StateAfter("cancelled")
  <2>1. CASE TransportFatal
    BY <2>1 DEF TransportFatal, lifeVars, callVars, entryVars, engineVars
  <2>2. CASE Abort
    BY <2>2 DEF Abort, callVars, entryVars, engineVars
  <2>3. CASE OwnerFlush
    BY <2>3 DEF OwnerFlush, lifeVars, callVars, entryVars, jobVars
  <2> QED BY <2>1, <2>2, <2>3
<1>2. \E q : Adds(q)
  <2>1. CASE TransportFatal \/ Abort
    <3>1. \E s \in Final : FailAll(s)
      BY <2>1 DEF TransportFatal, Abort, Final
    <3> QED BY <3>1, FailAllQueues
  <2>2. CASE OwnerFlush
    <3>1. <<>> \in Seq(Job) /\ jobs' = jobs \o <<>> /\ Len(<<>>) = 0
      BY <2>2 DEF OwnerFlush, jobVars, Inv, Shape
    <3>2. \A i \in 1..Len(<<>>) : <<>>[i].by = 0 /\ <<>>[i].kind = "fail"
      BY <3>1
    <3> QED BY <3>1, <3>2, Zenon DEF Adds
  <2> QED BY <2>1, <2>2
<1>3. EngineStep
  BY <1>1, EngineRests
<1>4. EntryStep /\ CauseStep /\ StageStep
  BY <1>1 DEF EntryStep, CauseStep, StageStep, Overtaken, StateAfter
<1> QED BY <1>1, <1>2, <1>3, <1>4 DEF OrdinaryStep

-----------------------------------------------------------------------------
(* The start of a call, the cleanup queue and dispose.                       *)
LEMMA RequestWindowKeepsClean ==
  ASSUME Inv, CleanInv, ControllerAssumption, NEW w \in Windows, RequestWindow(w)
  PROVE  CleanInv'
<1> DEFINE c == calls + 1
<1>1. /\ c \in Call /\ pending[w] = NoEntry /\ state \notin Final /\ disposal = "none"
      /\ calls' = c /\ state' = "starting" /\ disposal' = disposal
      /\ window' = [window EXCEPT ![c] = w]
      /\ stage' = [stage EXCEPT ![c] = "scheduling"]
      /\ pending' = [pending EXCEPT ![w] = Entry(c)]
      /\ timer' = timer \cup {c}
      /\ generation' = [generation EXCEPT ![w] = IF @ = 0 THEN 1 ELSE @]
      /\ UNCHANGED <<promise, jobs, working, out, retrying, disabled>>
  BY DEF RequestWindow, jobVars
<1>2. /\ calls \in Nat /\ c \in Nat /\ 1..calls' = 1..calls \cup {c} /\ c \notin 1..calls /\ c # 0
      /\ 1..calls \subseteq Call /\ timer \subseteq 1..calls /\ working \in 0..calls
  BY <1>1 DEF Inv, Shape, Call, ControllerAssumption
<1>3. Entry(c).call = c /\ Entry(c).scheduled = 0 /\ NoEntry.call = 0
  BY DEF NoEntry, Entry
<1>4. /\ \A d \in 1..calls : window'[d] = window[d] /\ stage'[d] = stage[d] /\ window[d] \in Windows
      /\ window'[c] = w /\ stage'[c] = "scheduling"
      /\ pending'[w] = Entry(c) /\ \A v \in Windows \ {w} : pending'[v] = pending[v]
      /\ generation'[w] # 0 /\ \A v \in Windows : generation[v] # 0 => generation'[v] = generation[v]
      /\ \A v \in Windows \ {w} : generation'[v] = generation[v]
  <2>1. window \in [Call -> Windows \cup {"none"}] /\ stage \in [Call -> Stage]
        /\ pending \in [Windows -> Active] /\ generation \in [Windows -> Nat]
        /\ \A d \in 1..calls : window[d] \in Windows
    BY DEF Inv, Shape
  <2> HIDE DEF c
  <2> QED BY <1>1, <1>2, <2>1
<1> HIDE DEF c
<1>5. Opened'
  <2>1. \A d \in 1..calls' : generation'[window'[d]] # 0
    BY <1>2, <1>4 DEF CleanInv, Opened
  <2>2. \A v \in Windows : generation'[v] = 0 => generation[v] = 0
    BY <1>4
  <2> QED BY <1>1, <2>1, <2>2 DEF CleanInv, Opened
<1>6. TimersPending'
  <2> SUFFICES ASSUME NEW d \in timer'
               PROVE  pending'[window'[d]].call = d
    BY DEF TimersPending
  <2>1. CASE d = c
    BY <1>3, <1>4, <2>1
  <2>2. CASE d \in timer
    <3>1. d \in 1..calls /\ pending[window[d]].call = d /\ d # 0
      <4>1. d \in 1..calls /\ d # 0
        BY <1>2, <2>2
      <4> QED BY <2>2, <4>1 DEF CleanInv, TimersPending
    <3>2. window[d] # w
      BY <1>1, <1>3, <3>1
    <3> QED BY <1>4, <3>1, <3>2
  <2> QED BY <1>1, <2>1, <2>2
<1>7. Causes'
  <2> SUFFICES ASSUME NEW d \in 1..calls', Overtaken(d)' \/ promise'[d] = "rejected"
               PROVE  Doomed(window[d])'
    BY DEF Causes
  <2>1. CASE d = c
    <3>1. ~Overtaken(d)'
      BY <1>3, <1>4, <2>1 DEF Overtaken
    <3>2. promise'[d] # "rejected"
      BY <1>1, <1>2, <2>1 DEF CleanInv, Unstarted
    <3> QED BY <1>1, <2>1, <3>1, <3>2
  <2>2. CASE d \in 1..calls
    <3>1. Overtaken(d) \/ promise[d] = "rejected"
      BY <1>1, <1>2, <1>3, <1>4, <2>2 DEF Overtaken
    <3>2. Doomed(window[d])
      BY <2>2, <3>1 DEF CleanInv, Causes
    <3> QED BY <1>1, <1>4, <2>2, <3>2 DEF Doomed
  <2> QED BY <1>1, <1>2, <2>1, <2>2
<1>12. Queued'
  BY <1>1 DEF CleanInv, Queued
<1>11. Unstarted'
  BY <1>1, <1>2 DEF CleanInv, Unstarted
<1>8. Callers'
  <2>1. \A i \in 1..Len(jobs) : jobs[i].by # 0 => jobs[i].by \in 1..calls
    BY DEF Inv, Shape, Job, Call, ControllerAssumption
  <2> QED BY <1>1, <1>4, <2>1 DEF CleanInv, Callers
<1>9. AtWork'
  BY <1>1, <1>2, <1>4 DEF CleanInv, AtWork
<1>10. Disposal' /\ ThrownMeansCancelled'
  <2>1. Disposal'
    BY <1>1 DEF Disposal
  <2>2. \A d \in 1..calls' : stage'[d] # "threw"
    BY <1>1, <1>2, <1>4 DEF CleanInv, ThrownMeansCancelled
  <2> QED BY <2>1, <2>2 DEF ThrownMeansCancelled
<1> QED BY <1>5, <1>6, <1>7, <1>8, <1>9, <1>10, <1>11, <1>12 DEF CleanInv

(* The job at the head is over: its caller goes on, the other jobs and their *)
(* callers wait.                                                            *)
LEMMA JobLeaves ==
  ASSUME Inv, CleanInv, ControllerAssumption, jobs # <<>>, JobDone, UNCHANGED <<calls, window>>
  PROVE  /\ Callers'
         /\ (disposal' = disposal \/ jobs[1].kind = "dispose") => Queued'
         /\ jobs[1] \in Job /\ Head(jobs) = jobs[1]
         /\ \A c \in 1..calls : /\ stage'[c] = stage[c] \/ (c = jobs[1].by /\ stage'[c] \in {"awaiting", "threw"})
                                /\ stage'[c] = "threw" /\ stage[c] # "threw" =>
                                     c = jobs[1].by /\ stage[c] = "cleaning" /\ jobs[1].window = window[c]
<1> DEFINE by == jobs[1].by
<1>0. /\ \A c \in 1..calls : c \in Call /\ c # 0
      /\ stage \in [Call -> Stage] /\ Len(jobs) \in Nat /\ 1 \in 1..Len(jobs)
      /\ \A i \in 1..Len(jobs) : jobs[i].by # 0 => jobs[i].by \in 1..calls
  BY DEF Inv, Shape, Job, Call, ControllerAssumption
<1>1. /\ Head(jobs) = jobs[1] /\ jobs[1] \in Job /\ Len(jobs') = Len(jobs) - 1
      /\ \A i \in 1..Len(jobs') : i + 1 \in 1..Len(jobs) /\ jobs'[i] = jobs[i + 1]
  BY HeadLeaves
<1>2. stage' = IF by = 0 THEN stage
               ELSE [stage EXCEPT ![by] = IF @ = "failing" THEN "awaiting" ELSE "threw"]
  BY <1>1 DEF JobDone
<1>3. by # 0 => by \in 1..calls /\ stage[by] \in {"cleaning", "failing"} /\ jobs[1].window = window[by]
  BY <1>0 DEF CleanInv, Callers
<1> HIDE DEF by
<1>4. \A c \in 1..calls : stage'[c] = IF c # by THEN stage[c]
                                      ELSE IF stage[c] = "failing" THEN "awaiting" ELSE "threw"
  BY <1>0, <1>2, <1>3
<1>5. Callers'
  <2>1. \A i \in 1..Len(jobs') : jobs'[i].by # 0 => jobs'[i].by \in 1..calls /\ jobs'[i].by # by
    <3> SUFFICES ASSUME NEW i \in 1..Len(jobs'), jobs'[i].by # 0
                 PROVE  jobs'[i].by \in 1..calls /\ jobs'[i].by # by
      OBVIOUS
    <3>1. i + 1 \in 1..Len(jobs) /\ jobs'[i] = jobs[i + 1] /\ i + 1 # 1
      BY <1>0, <1>1
    <3>2. jobs[i + 1].by # jobs[1].by
      BY <1>0, <3>1 DEF CleanInv, Callers
    <3> QED BY <1>0, <3>1, <3>2 DEF by
  <2>2. \A i \in 1..Len(jobs') : jobs'[i].by # 0 =>
          stage'[jobs'[i].by] \in {"cleaning", "failing"} /\ jobs'[i].window = window[jobs'[i].by]
    BY <1>1, <1>4, <2>1, SMTT(20) DEF CleanInv, Callers
  <2>3. \A i, j \in 1..Len(jobs') : jobs'[i].by # 0 /\ jobs'[i].by = jobs'[j].by => i = j
    <3> SUFFICES ASSUME NEW i \in 1..Len(jobs'), NEW j \in 1..Len(jobs'), jobs'[i].by # 0, jobs'[i].by = jobs'[j].by
                 PROVE  i = j
      OBVIOUS
    <3>1. i + 1 = j + 1
      BY <1>1 DEF CleanInv, Callers
    <3> QED BY <3>1
  <2> QED BY <2>2, <2>3 DEF Callers
<1>6. \A c \in 1..calls : c = by => stage[c] \in {"cleaning", "failing"} /\ jobs[1].window = window[c]
  BY <1>0, <1>3
<1>7. (disposal' = disposal \/ jobs[1].kind = "dispose") => Queued'
  <2>1. \A i, j \in 1..Len(jobs') : jobs'[i].kind = "dispose" /\ jobs'[j].kind = "dispose" => i = j
    <3> SUFFICES ASSUME NEW i \in 1..Len(jobs'), NEW j \in 1..Len(jobs'),
                        jobs'[i].kind = "dispose", jobs'[j].kind = "dispose"
                 PROVE  i = j
      OBVIOUS
    <3>1. i + 1 = j + 1
      BY <1>1 DEF CleanInv, Queued
    <3> QED BY <3>1
  <2>2. CASE jobs[1].kind = "dispose"
    <3> SUFFICES ASSUME NEW i \in 1..Len(jobs'), jobs'[i].kind = "dispose"
                 PROVE  FALSE
      BY DEF Queued
    <3>1. i + 1 \in 1..Len(jobs) /\ jobs[i + 1].kind = "dispose" /\ i + 1 # 1
      BY <1>0, <1>1
    <3> QED BY <1>0, <2>2, <3>1 DEF CleanInv, Queued
  <2>3. CASE disposal' = disposal
    BY <1>1, <2>1, <2>3 DEF CleanInv, Queued
  <2> QED BY <2>2, <2>3
<1> QED BY <1>1, <1>4, <1>5, <1>6, <1>7 DEF by

LEMMA FindsNothingKeepsClean ==
  ASSUME Inv, Inv', CleanInv, ControllerAssumption, JobFindsNothing
  PROVE  CleanInv'
<1>1. /\ jobs # <<>> /\ JobDone /\ working = 0 /\ disposal # "cancelling"
      /\ pending[Head(jobs).window] = NoEntry
      /\ UNCHANGED <<state, disposal, calls, window, promise, timer, pending, working, generation,
                     out, retrying, disabled>>
  BY DEF JobFindsNothing, Turn, lifeVars, callVars, entryVars, engineVars
<1>2. /\ Callers' /\ Queued' /\ Head(jobs) = jobs[1]
      /\ \A c \in 1..calls : /\ stage'[c] = stage[c] \/ stage'[c] \in {"awaiting", "threw"}
                             /\ stage'[c] = "threw" /\ stage[c] # "threw" =>
                                  stage[c] = "cleaning" /\ jobs[1].window = window[c]
  BY <1>1, JobLeaves
<1>3. Opened' /\ TimersPending' /\ Unstarted'
  BY <1>1 DEF CleanInv, Opened, TimersPending, Unstarted
<1>4. Causes'
  BY <1>1, <1>2 DEF CleanInv, Causes, Overtaken, Doomed, Early
<1>5. AtWork' /\ Disposal'
  BY <1>1, <1>2 DEF CleanInv, AtWork, Disposal
<1>6. ThrownMeansCancelled'
  <2> SUFFICES ASSUME NEW c \in 1..calls, stage'[c] = "threw"
               PROVE  state \in Final /\ (window[c] \in disabled \/ disposal = "queued")
    BY <1>1 DEF ThrownMeansCancelled
  <2>1. CASE stage[c] = "threw"
    BY <2>1 DEF CleanInv, ThrownMeansCancelled
  <2>2. CASE stage[c] # "threw"
    <3>1. stage[c] = "cleaning" /\ pending[window[c]] = NoEntry /\ c # 0 /\ window[c] \in Windows
      BY <1>1, <1>2, <2>2 DEF Inv, Shape, ControllerAssumption
    <3>2. Doomed(window[c])
      BY <3>1, NothingCounted DEF CleanInv, Causes, Overtaken, Early
    <3>3. disposal \in {"none", "queued", "done"}
      BY <1>1 DEF CleanInv, Disposal
    <3> QED BY <1>1, <3>1, <3>2, <3>3 DEF Doomed, CleanInv, Disposal, Opened
  <2> QED BY <2>1, <2>2
<1> QED BY <1>2, <1>3, <1>4, <1>5, <1>6 DEF CleanInv

LEMMA TakesCallKeepsClean ==
  ASSUME Inv, Inv', CleanInv, ControllerAssumption, JobTakesCall
  PROVE  CleanInv'
<1> DEFINE w == jobs[1].window
           c == pending[w].call
<1>0. /\ \A d \in 1..calls : d \in Call /\ d # 0 /\ window[d] \in Windows
      /\ timer \subseteq 1..calls /\ pending \in [Windows -> Active]
      /\ NoEntry.call = 0
  BY NothingCounted, SMTT(20) DEF Inv, Shape, Call, ControllerAssumption
<1>1. /\ jobs # <<>> /\ jobs[1].kind = "fail" /\ jobs[1] \in Job /\ working = 0
      /\ pending[w] # NoEntry
      /\ working' = c /\ timer' = timer \ {c} /\ pending' = [pending EXCEPT ![w] = NoEntry]
      /\ Cancelled({w})
      /\ UNCHANGED <<state, disposal, calls, window, stage, promise, jobs>>
  <2>1. Head(jobs) = jobs[1]
    OBVIOUS
  <2>2. jobs # <<>> => jobs[1] \in Job
    BY DEF Inv, Shape
  <2> QED BY <2>1, <2>2 DEF JobTakesCall, Turn, lifeVars, callVars
<1>2. w \in Windows
  BY <1>1 DEF Job
<1>3. /\ disabled \subseteq disabled' /\ (generation[w] # 0 => w \in disabled') /\ retrying' = retrying
      /\ \A v \in Windows : /\ generation'[v] = 0 <=> generation[v] = 0
                            /\ generation[v] = 0 => out'[v] = out[v]
  <2>1. {w} \in SUBSET Windows
    BY <1>2
  <2> QED BY <1>1, <2>1, CancelEffect
<1>4. disposal = "none"
  BY <1>1, <1>2 DEF CleanInv, Disposal
<1>5. c # 0 => c \in 1..calls /\ window[c] = w /\ w \in disabled'
  <2>1. c # 0 => c \in 1..calls /\ window[c] = w
    <3>1. c \in Call \cup {0} /\ (c # 0 => c <= calls /\ window[c] = w)
      BY <1>0, <1>2 DEF Inv, Keyed, Active
    <3>2. calls \in Nat
      BY DEF Inv, Shape, ControllerAssumption
    <3> HIDE DEF c
    <3> QED BY <3>1, <3>2 DEF Call
  <2> QED BY <1>3, <2>1 DEF CleanInv, Opened
<1>6. pending'[w] = NoEntry /\ \A v \in Windows \ {w} : pending'[v] = pending[v]
  BY <1>0, <1>1, <1>2
<1> HIDE DEF w, c
<1>7. Opened' /\ Unstarted'
  BY <1>0, <1>1, <1>3 DEF CleanInv, Opened, Unstarted
<1>8. TimersPending'
  <2> SUFFICES ASSUME NEW d \in timer, d # c
               PROVE  pending'[window[d]].call = d
    BY <1>1 DEF TimersPending
  <2>1. pending[window[d]].call = d
    BY DEF CleanInv, TimersPending
  <2>2. window[d] # w
    BY <2>1 DEF c
  <2> QED BY <1>0, <1>6, <2>1, <2>2
<1>9. \A v : Doomed(v) => Doomed(v)'
  BY <1>1, <1>3 DEF Doomed
<1>10. Causes'
  <2> SUFFICES ASSUME NEW d \in 1..calls, Overtaken(d)' \/ promise[d] = "rejected"
               PROVE  Doomed(window[d])'
    BY <1>1 DEF Causes
  <2>1. CASE promise[d] = "rejected" \/ Overtaken(d)
    <3>1. Doomed(window[d])
      BY <2>1 DEF CleanInv, Causes
    <3> QED BY <1>1, <1>9, <3>1 DEF Doomed
  <2>2. CASE Overtaken(d)' /\ ~Overtaken(d)
    <3>1. window[d] = w
      BY <1>0, <1>1, <1>6, <2>2 DEF Overtaken
    <3>2. c = d
      BY <1>1, <2>2, <3>1 DEF Overtaken, c
    <3>3. window'[d] = w /\ w \in disabled' /\ working' # 0
      BY <1>0, <1>1, <1>5, <3>1, <3>2
    <3> QED BY <3>3 DEF Doomed
  <2> QED BY <2>1, <2>2
<1>11. Callers' /\ Queued' /\ Disposal' /\ ThrownMeansCancelled'
  BY <1>1, <1>3, <1>4 DEF CleanInv, Callers, Queued, Disposal, ThrownMeansCancelled
<1>12. AtWork'
  BY <1>1, <1>5 DEF AtWork, w
<1> QED BY <1>7, <1>8, <1>10, <1>11, <1>12 DEF CleanInv

LEMMA RejectsCallKeepsClean ==
  ASSUME Inv, Inv', CleanInv, ControllerAssumption, JobRejectsCall
  PROVE  CleanInv'
<1>0. /\ \A d \in 1..calls : d \in Call /\ d # 0 /\ window[d] \in Windows
      /\ promise \in [Call -> {"open", "resolved", "rejected"}] /\ working \in 0..calls /\ calls \in Nat
  BY DEF Inv, Shape, Call, ControllerAssumption
<1>1. /\ working # 0 /\ jobs # <<>> /\ JobDone /\ disposal # "cancelling"
      /\ promise' = [promise EXCEPT ![working] = "rejected"] /\ working' = 0
      /\ state' = StateAfter(Head(jobs).state)
      /\ UNCHANGED <<disposal, calls, window, timer, pending, generation, out, retrying, disabled>>
  BY DEF JobRejectsCall, Rejects, Inv, HeadAtWork, callVars
<1>2. /\ Callers' /\ Queued' /\ Head(jobs) = jobs[1] /\ jobs[1] \in Job
      /\ \A c \in 1..calls : /\ stage'[c] = stage[c] \/ stage'[c] \in {"awaiting", "threw"}
                             /\ stage'[c] = "threw" /\ stage[c] # "threw" =>
                                  stage[c] = "cleaning" /\ jobs[1].window = window[c]
  BY <1>1, JobLeaves
<1>3. /\ jobs[1].kind = "fail" /\ jobs[1].window = window[working] /\ window[working] \in disabled
      /\ working \in 1..calls
  BY <1>0, <1>1 DEF CleanInv, AtWork
<1>4. state' \in Final /\ (state \in Final => state' = state)
  <2>1. jobs[1].state \in Final
    BY <1>2, <1>3 DEF Job
  <2> QED BY <1>1, <1>2, <2>1 DEF StateAfter
<1>5. Opened' /\ TimersPending'
  BY <1>1 DEF CleanInv, Opened, TimersPending
<1>6. Unstarted'
  BY <1>0, <1>1, <1>3 DEF CleanInv, Unstarted
<1>7. \A v : Doomed(v) => Doomed(v)'
  BY <1>1, <1>4 DEF Doomed
<1>8. Causes'
  <2> SUFFICES ASSUME NEW d \in 1..calls, Overtaken(d)' \/ promise'[d] = "rejected"
               PROVE  Doomed(window[d])'
    BY <1>1 DEF Causes
  <2>1. CASE d = working
    <3>1. window'[d] \in disabled' /\ state' \in Final
      BY <1>1, <1>3, <1>4, <2>1
    <3> QED BY <3>1 DEF Doomed
  <2>2. CASE d # working
    <3>1. promise'[d] = promise[d]
      BY <1>0, <1>1, <1>3, <2>2
    <3>2. Overtaken(d)' => Overtaken(d)
      BY <1>1, <1>2 DEF Overtaken, Early
    <3>3. Doomed(window[d])
      BY <3>1, <3>2 DEF CleanInv, Causes
    <3> QED BY <1>1, <1>7, <3>3 DEF Doomed
  <2> QED BY <2>1, <2>2
<1>9. AtWork' /\ Disposal'
  BY <1>1, <1>2 DEF CleanInv, AtWork, Disposal
<1>10. ThrownMeansCancelled'
  BY <1>1, <1>2, <1>3, <1>4 DEF CleanInv, ThrownMeansCancelled
<1> QED BY <1>2, <1>5, <1>6, <1>8, <1>9, <1>10 DEF CleanInv

(* dispose cancels the windows: whatever is under way is doomed, and a call   *)
(* that threw while dispose was queued has its window cancelled now.         *)
LEMMA DisposeCancels ==
  ASSUME Inv, CleanInv, ControllerAssumption, Cancelled(Windows),
         UNCHANGED <<state, calls, window, promise, timer, pending, working>>,
         disposal # "none", disposal' \in {"cancelling", "done"}, working = 0,
         \A c \in 1..calls : /\ stage'[c] = stage[c]
  PROVE  /\ Opened' /\ TimersPending' /\ Unstarted' /\ Causes' /\ AtWork' /\ ThrownMeansCancelled'
         /\ \A w \in Windows : (generation'[w] # 0 => w \in disabled') /\ (retrying[w] = 0 => out'[w] = 0)
         /\ retrying' = retrying
<1>0. \A d \in 1..calls : window[d] \in Windows
  BY DEF Inv, Shape
<1>1. /\ disabled \subseteq disabled' /\ retrying' = retrying
      /\ \A v \in Windows : /\ generation'[v] = 0 <=> generation[v] = 0
                            /\ generation[v] # 0 => v \in disabled' /\ out'[v] = 0
                            /\ generation[v] = 0 => out'[v] = out[v]
  <2>1. Windows \in SUBSET Windows
    OBVIOUS
  <2> QED BY <2>1, CancelEffect
<1>2. Opened'
  BY <1>0, <1>1 DEF CleanInv, Opened
<1>3. TimersPending' /\ Unstarted' /\ AtWork'
  BY DEF CleanInv, TimersPending, Unstarted, AtWork
<1>4. Causes'
  BY <1>1 DEF CleanInv, Causes, Overtaken, Doomed
<1>5. ThrownMeansCancelled'
  BY <1>0, <1>1 DEF CleanInv, ThrownMeansCancelled, Opened
<1>6. \A w \in Windows : (generation'[w] # 0 => w \in disabled') /\ out'[w] = 0
  BY <1>1 DEF CleanInv, Opened
<1> QED BY <1>1, <1>2, <1>3, <1>4, <1>5, <1>6

LEMMA DisposeKeepsClean ==
  ASSUME Inv, Inv', CleanInv, ControllerAssumption, DisposeRuns \/ DisposeEnds \/ \E o \in Final : Dispose(o)
  PROVE  CleanInv'
<1>0. \A d \in 1..calls : d \in Call /\ d # 0 /\ window[d] \in Windows
  BY DEF Inv, Shape, Call, ControllerAssumption
<1>1. CASE DisposeRuns
  <2>1. /\ working = 0 /\ disposal # "cancelling" /\ disposal' = "cancelling" /\ Cancelled(Windows)
        /\ jobs # <<>> /\ jobs[1].kind = "dispose"
        /\ UNCHANGED <<state, calls, window, stage, promise, timer, pending, jobs, working>>
    <3>1. Head(jobs) = jobs[1]
      OBVIOUS
    <3> QED BY <1>1, <3>1 DEF DisposeRuns, Turn, callVars, entryVars, jobVars
  <2>2. disposal # "none"
    BY <2>1 DEF CleanInv, Queued
  <2>3. /\ Opened' /\ TimersPending' /\ Unstarted' /\ Causes' /\ AtWork' /\ ThrownMeansCancelled'
        /\ \A w \in Windows : generation'[w] # 0 => w \in disabled'
    BY <2>1, <2>2, DisposeCancels
  <2>4. Callers' /\ Queued' /\ Disposal'
    BY <2>1, <2>2, <2>3 DEF CleanInv, Callers, Queued, Disposal
  <2> QED BY <2>3, <2>4 DEF CleanInv
<1>2. CASE DisposeEnds
  <2>1. /\ working = 0 /\ disposal = "cancelling" /\ disposal' = "done" /\ Cancelled(Windows)
        /\ jobs # <<>> /\ jobs[1].kind = "dispose" /\ JobDone
        /\ \A w \in Windows : Drained(w)
        /\ UNCHANGED <<state, calls, window, promise, timer, pending, working>>
    BY <1>2 DEF DisposeEnds, Inv, HeadAtWork, callVars, entryVars
  <2>2. jobs[1] \in Job /\ jobs[1].by = 0 /\ Callers' /\ Queued'
    <3>1. jobs[1] \in Job /\ Callers' /\ Queued'
      BY <2>1, JobLeaves
    <3> QED BY <2>1, <3>1 DEF Job
  <2>3. stage' = stage
    <3>1. Head(jobs) = jobs[1]
      BY <2>1
    <3> QED BY <2>1, <2>2, <3>1 DEF JobDone
  <2>4. /\ Opened' /\ TimersPending' /\ Unstarted' /\ Causes' /\ AtWork' /\ ThrownMeansCancelled'
        /\ \A w \in Windows : (generation'[w] # 0 => w \in disabled') /\ (retrying[w] = 0 => out'[w] = 0)
        /\ retrying' = retrying
    BY <2>1, <2>3, DisposeCancels
  <2>5. /\ \A w \in Windows : retrying[w] = 0
        /\ \A c \in 1..calls : stage[c] \notin {"scheduling", "filling"}
    BY <1>0, <2>1 DEF Drained
  <2>6. Disposal'
    BY <2>1, <2>3, <2>4, <2>5 DEF CleanInv, Disposal
  <2> QED BY <2>2, <2>4, <2>6 DEF CleanInv
<1>3. ASSUME NEW o \in Final, Dispose(o)
      PROVE  CleanInv'
  <2>1. /\ disposal = "none" /\ disposal' = "queued" /\ state' = StateAfter(o)
        /\ promise' = [c \in Call |-> IF c \in Pending THEN "rejected" ELSE promise[c]]
        /\ timer' = timer \ Pending
        /\ pending' = [w \in Windows |-> NoEntry]
        /\ jobs' = Append(jobs, DisposeJob)
        /\ UNCHANGED <<calls, window, working, stage, generation, disabled, out, retrying>>
    BY <1>3 DEF Dispose, callVars, engineVars
  <2>2. state' \in Final
    BY <2>1 DEF StateAfter
  <2>3. Opened' /\ Unstarted'
    BY <1>0, <2>1 DEF CleanInv, Opened, Unstarted, Pending
  <2>4. TimersPending'
    <3>1. timer \subseteq Pending
      BY DEF CleanInv, TimersPending, Inv, Shape, Pending
    <3> QED BY <2>1, <3>1 DEF TimersPending
  <2>5. Causes'
    BY <2>1, <2>2 DEF Causes, Doomed
  <2>6. /\ Len(jobs) \in Nat /\ Len(jobs') = Len(jobs) + 1 /\ jobs' # <<>>
        /\ \A i \in 1..Len(jobs) : jobs'[i] = jobs[i]
        /\ jobs'[Len(jobs) + 1] = DisposeJob /\ DisposeJob.kind = "dispose" /\ DisposeJob.by = 0
    <3>1. DisposeJob.kind = "dispose" /\ DisposeJob.by = 0
      BY DEF DisposeJob
    <3> DEFINE job == DisposeJob
    <3>2. job \in Job
      BY DEF DisposeJob, Job
    <3>3. jobs \in Seq(Job) /\ jobs' = Append(jobs, job)
      BY <2>1 DEF Inv, Shape
    <3> HIDE DEF job
    <3>4. /\ Len(jobs) \in Nat /\ Len(jobs') = Len(jobs) + 1
          /\ \A i \in 1..Len(jobs) : jobs'[i] = jobs[i]
          /\ jobs'[Len(jobs) + 1] = job
      BY <3>2, <3>3
    <3>5. jobs' # <<>>
      BY <3>4
    <3> QED BY <3>1, <3>4, <3>5 DEF job
  <2>7. \A i \in 1..Len(jobs') : i \in 1..Len(jobs) \/ i = Len(jobs) + 1
    BY <2>6
  <2>8. \A i \in 1..Len(jobs) : jobs[i].kind # "dispose"
    BY <2>1 DEF CleanInv, Queued
  <2>9. Callers'
    BY <2>1, <2>6, <2>7 DEF CleanInv, Callers
  <2>10. Queued'
    BY <2>1, <2>6, <2>7, <2>8 DEF Queued
  <2>11. AtWork'
    <3>1. jobs # <<>> => 1 \in 1..Len(jobs)
      BY <2>6 DEF Inv, Shape
    <3> QED BY <2>1, <2>6, <3>1 DEF CleanInv, AtWork
  <2>12. Disposal' /\ ThrownMeansCancelled'
    BY <2>1, <2>2 DEF CleanInv, Disposal, ThrownMeansCancelled
  <2> QED BY <2>3, <2>4, <2>5, <2>9, <2>10, <2>11, <2>12 DEF CleanInv
<1> QED BY <1>1, <1>2, <1>3

-----------------------------------------------------------------------------
(* The values and the counts: what the controller and the engine have        *)
(* counted never exceeds the requests the engine has issued.                 *)
Values ==
  /\ state \in Final \cup {"idle", "starting", "running"} /\ aborted \in BOOLEAN
  /\ ahead \in [Call -> Nat] /\ retrying \in [Windows -> Nat] /\ out \in [Windows -> 0..Cap]
  /\ disabled \subseteq Windows /\ failed \subseteq disabled /\ exhausted \subseteq Windows
  /\ requests \in 0..MaxRequests

EntryCounts == \A w \in Windows : pending[w].scheduled <= requests /\ Load(w) + out[w] <= requests

Books ==
  /\ Values /\ EntryCounts
  /\ TotalOut <= requests
  /\ \A c \in Call : filling[c] <= requests

(* What the invariant says of the numbers.                                  *)
LEMMA BookTypes ==
  ASSUME Inv, Books
  PROVE  /\ requests \in Nat /\ out \in [Windows -> Nat] /\ out \in [Windows -> 0..Cap]
         /\ filling \in [Call -> Nat] /\ pending \in [Windows -> Active] /\ generation \in [Windows -> Nat]
         /\ retrying \in [Windows -> Nat] /\ ahead \in [Call -> Nat]
         /\ \A c \in Call : filling[c] <= requests
<1>1. /\ filling \in [Call -> Nat] /\ pending \in [Windows -> Active] /\ generation \in [Windows -> Nat]
  BY DEF Inv, Shape
<1>2. /\ requests \in 0..MaxRequests /\ out \in [Windows -> 0..Cap]
      /\ retrying \in [Windows -> Nat] /\ ahead \in [Call -> Nat]
  BY DEF Books, Values
<1>3. requests \in Nat /\ out \in [Windows -> Nat]
  BY <1>2
<1>4. \A c \in Call : filling[c] <= requests
  BY DEF Books
<1> QED BY <1>1, <1>2, <1>3, <1>4

BookStep ==
  /\ Values' /\ EntryCounts'
  /\ requests <= requests'
  /\ \A c \in Call : filling'[c] <= filling[c] + (requests' - requests)
  /\ \/ \A v \in Windows : out'[v] <= out[v]
     \/ requests' = requests + 1 /\ \E w \in Windows : out' = [out EXCEPT ![w] = @ + 1]

LEMMA TotalOutIsFinite ==
  ASSUME ControllerAssumption
  PROVE  /\ IsFiniteSet({x \in Windows \X (1..Cap) : x[2] <= out[x[1]]})
         /\ TotalOut \in Nat
<1>1. IsFiniteSet(1..Cap) /\ IsFiniteSet(Windows)
  <2>1. 1 \in Int /\ Cap \in Int
    BY DEF ControllerAssumption
  <2> QED BY <2>1, FS_Interval DEF ControllerAssumption
<1>2. IsFiniteSet(Windows \X (1..Cap))
  BY <1>1, FS_Product
<1>3. IsFiniteSet({x \in Windows \X (1..Cap) : x[2] <= out[x[1]]})
  <2>1. {x \in Windows \X (1..Cap) : x[2] <= out[x[1]]} \in SUBSET (Windows \X (1..Cap))
    OBVIOUS
  <2> QED BY <1>2, <2>1, FS_Subset
<1> QED BY <1>3, FS_CardinalityType DEF TotalOut

LEMMA BooksKept ==
  ASSUME ControllerAssumption, Inv, Inv', Books, BookStep
  PROVE  Books'
<1> DEFINE S == {x \in Windows \X (1..Cap) : x[2] <= out[x[1]]}
           T == {x \in Windows \X (1..Cap) : x[2] <= out'[x[1]]}
<1>0. /\ requests \in Nat /\ requests' \in Nat /\ out \in [Windows -> Nat] /\ out' \in [Windows -> Nat]
      /\ filling \in [Call -> Nat] /\ filling' \in [Call -> Nat] /\ Cap \in Nat
  BY DEF Books, BookStep, Values, Inv, Shape, ControllerAssumption
<1>1. /\ TotalOut = Cardinality(S) /\ TotalOut' = Cardinality(T)
      /\ IsFiniteSet(S) /\ TotalOut \in Nat
  BY TotalOutIsFinite DEF TotalOut
<1>2. TotalOut' <= requests'
  <2>1. CASE \A v \in Windows : out'[v] <= out[v]
    <3>1. T \in SUBSET S
      <4> SUFFICES ASSUME NEW x \in T PROVE x \in S
        OBVIOUS
      <4>1. x \in Windows \X (1..Cap) /\ x[2] <= out'[x[1]] /\ x[1] \in Windows /\ x[2] \in Nat
        BY <1>0
      <4>2. out'[x[1]] <= out[x[1]] /\ out'[x[1]] \in Nat /\ out[x[1]] \in Nat
        BY <1>0, <2>1, <4>1
      <4> QED BY <4>1, <4>2
    <3> HIDE DEF S, T
    <3>2. Cardinality(T) <= Cardinality(S)
      BY <1>1, <3>1, FS_Subset
    <3>3. Cardinality(T) \in Nat
      BY <1>1, <3>1, FS_Subset, FS_CardinalityType
    <3> QED BY <1>0, <1>1, <3>2, <3>3 DEF Books, BookStep
  <2>2. ASSUME requests' = requests + 1, NEW w \in Windows, out' = [out EXCEPT ![w] = @ + 1]
        PROVE  TotalOut' <= requests'
    <3> DEFINE y == <<w, out[w] + 1>>
    <3>1. T \in SUBSET (S \cup {y})
      <4> SUFFICES ASSUME NEW x \in T PROVE x \in S \/ x = y
        OBVIOUS
      <4>1. x \in Windows \X (1..Cap) /\ x[2] <= out'[x[1]] /\ x[1] \in Windows /\ x[2] \in Nat
            /\ x = <<x[1], x[2]>>
        BY <1>0
      <4>2. CASE x[1] # w
        BY <1>0, <2>2, <4>1, <4>2
      <4>3. CASE x[1] = w
        <5>1. x[2] <= out[w] + 1 /\ out[w] \in Nat
          BY <1>0, <2>2, <4>1, <4>3
        <5> QED BY <4>1, <4>3, <5>1
      <4> QED BY <4>2, <4>3
    <3> HIDE DEF S, T, y
    <3>2. /\ IsFiniteSet(S \cup {y}) /\ Cardinality(S \cup {y}) <= Cardinality(S) + 1
          /\ Cardinality(S \cup {y}) \in Nat
      <4>1. IsFiniteSet(S \cup {y})
            /\ (Cardinality(S \cup {y}) = Cardinality(S) \/ Cardinality(S \cup {y}) = Cardinality(S) + 1)
        BY <1>1, FS_AddElement
      <4>2. Cardinality(S \cup {y}) \in Nat
        BY <4>1, FS_CardinalityType
      <4> QED BY <1>1, <4>1, <4>2
    <3>3. Cardinality(T) <= Cardinality(S \cup {y}) /\ Cardinality(T) \in Nat
      BY <3>1, <3>2, FS_Subset, FS_CardinalityType
    <3> QED BY <1>0, <1>1, <2>2, <3>2, <3>3 DEF Books
  <2> QED BY <2>1, <2>2 DEF BookStep
<1>3. \A c \in Call : filling'[c] <= requests'
  BY <1>0 DEF Books, BookStep
<1> QED BY <1>2, <1>3 DEF Books, BookStep

(* The entries after a step in which the engine told window w of m terminals. *)
LEMMA HeardCounts ==
  ASSUME Inv, Inv', Books, Values', NEW w \in Windows, NEW m \in Nat, Heard(w, m),
         requests <= requests', \A v \in Windows \ {w} : out'[v] <= out[v],
         m + out'[w] <= out[w] + (requests' - requests)
  PROVE  EntryCounts'
<1>0. /\ requests \in Nat /\ requests' \in Nat /\ out \in [Windows -> Nat] /\ out' \in [Windows -> Nat]
      /\ pending \in [Windows -> Active] /\ pending' \in [Windows -> Active]
  <2>1. requests' \in 0..MaxRequests /\ out' \in [Windows -> 0..Cap]
    BY DEF Values
  <2>2. pending' \in [Windows -> Active]
    BY DEF Inv, Shape
  <2> QED BY <2>1, <2>2, BookTypes
<1>1. \A v \in Windows : /\ Load(v) \in Nat /\ Load(v)' \in Nat
                         /\ pending[v].scheduled \in Nat /\ pending'[v].scheduled \in Nat
  BY <1>0, EntryLoad DEF Load
<1>2. ASSUME NEW v \in Windows, v # w
      PROVE  pending'[v].scheduled <= requests' /\ Load(v)' + out'[v] <= requests'
  <2>1. pending'[v] = pending[v]
    BY <1>2 DEF Heard
  <2>2. Load(v)' = Load(v)
    BY <2>1 DEF Load
  <2> QED BY <1>0, <1>1, <1>2, <2>1, <2>2 DEF Books, EntryCounts
<1>3. pending'[w].scheduled <= requests'
  <2>1. CASE Completes(w, pending[w].call)
    <3>1. pending'[w] = NoEntry
      BY <1>0, <2>1 DEF Completes
    <3> QED BY <1>0, <3>1, NothingCounted
  <2>2. CASE pending'[w].scheduled = pending[w].scheduled
    BY <1>0, <1>1, <2>2 DEF Books, EntryCounts
  <2> QED BY <2>1, <2>2 DEF Heard
<1>4. Load(w)' + out'[w] <= requests'
  <2>1. Load(w)' <= Load(w) + m /\ Load(w) + out[w] <= requests
    BY DEF Heard, Books, EntryCounts
  <2> QED BY <1>0, <1>1, <2>1
<1> QED BY <1>2, <1>3, <1>4 DEF EntryCounts

(* The entries after a step that only drops entries.                         *)
LEMMA DroppedCounts ==
  ASSUME Inv, Inv', Books, Values', requests <= requests',
         \A v \in Windows : pending'[v] = pending[v] \/ pending'[v] = NoEntry,
         \A v \in Windows : out'[v] <= out[v] + (requests' - requests)
  PROVE  EntryCounts'
<1>0. /\ requests \in Nat /\ requests' \in Nat /\ out \in [Windows -> Nat] /\ out' \in [Windows -> Nat]
      /\ pending \in [Windows -> Active] /\ pending' \in [Windows -> Active]
  <2>1. requests' \in 0..MaxRequests /\ out' \in [Windows -> 0..Cap]
    BY DEF Values
  <2>2. pending' \in [Windows -> Active]
    BY DEF Inv, Shape
  <2> QED BY <2>1, <2>2, BookTypes
<1> SUFFICES ASSUME NEW v \in Windows
             PROVE  pending'[v].scheduled <= requests' /\ Load(v)' + out'[v] <= requests'
  BY DEF EntryCounts
<1>1. Load(v) \in Nat /\ pending[v].scheduled \in Nat
  BY <1>0, EntryLoad DEF Load
<1>2. pending[v].scheduled <= requests /\ Load(v) + out[v] <= requests
  BY DEF Books, EntryCounts
<1>3. CASE pending'[v] = pending[v]
  <2>1. Load(v)' = Load(v)
    BY <1>3 DEF Load
  <2> QED BY <1>0, <1>1, <1>2, <1>3, <2>1
<1>4. CASE pending'[v] = NoEntry
  <2>1. Load(v)' = 0 /\ pending'[v].scheduled = 0
    BY <1>4, NothingCounted DEF Load
  <2> QED BY <1>0, <1>1, <1>2, <2>1
<1> QED BY <1>3, <1>4

(* Steps that issue nothing and leave the engine alone but for an error that *)
(* a flush reports, and steps that also cancel windows.                      *)
LEMMA RestKeepsBooks ==
  ASSUME Inv, Inv', Books,
         UNCHANGED <<out, filling, retrying, disabled, exhausted, requests>>,
         failed' \in SUBSET failed, aborted' \in BOOLEAN, ahead' = ahead,
         state' \in Final \cup {"idle", "starting", "running"},
         \A v \in Windows : pending'[v] = pending[v] \/ pending'[v] = NoEntry
  PROVE  BookStep
<1>1. /\ requests \in Nat /\ filling \in [Call -> Nat] /\ out \in [Windows -> Nat]
  BY BookTypes
<1>2. Values'
  BY DEF Books, Values
<1>3. EntryCounts'
  BY <1>1, <1>2, DroppedCounts
<1> QED BY <1>1, <1>2, <1>3 DEF BookStep

LEMMA CancelKeepsBooks ==
  ASSUME Inv, Inv', Books, ControllerAssumption, NEW S \in SUBSET Windows, Cancelled(S),
         failed' \in SUBSET failed, UNCHANGED <<state, aborted, ahead>>,
         \A v \in Windows : pending'[v] = pending[v] \/ pending'[v] = NoEntry
  PROVE  BookStep
<1>1. /\ requests \in Nat /\ filling \in [Call -> Nat] /\ out \in [Windows -> 0..Cap] /\ Cap \in Nat
      /\ UNCHANGED <<filling, retrying, exhausted, requests>>
      /\ disabled \subseteq disabled' /\ disabled' \subseteq Windows
      /\ out' = [w \in Windows |-> IF w \in S /\ generation[w] # 0 THEN 0 ELSE out[w]]
  BY BookTypes DEF Books, Values, Cancelled, ControllerAssumption
<1>2. out' \in [Windows -> 0..Cap] /\ \A v \in Windows : out'[v] <= out[v]
  BY <1>1
<1>3. Values'
  BY <1>1, <1>2 DEF Books, Values
<1>4. EntryCounts'
  <2>1. \A v \in Windows : out'[v] <= out[v] + (requests' - requests)
    BY <1>1, <1>2
  <2> QED BY <1>1, <1>3, <2>1, DroppedCounts
<1> QED BY <1>1, <1>2, <1>3, <1>4 DEF BookStep

(* A request of window w, just issued (m' = 1) or sent before, ends.         *)
LEMMA EndKeepsBooks ==
  ASSUME Inv, Inv', Books, ControllerAssumption, NEW w \in Windows, NEW n \in 0..Cap, NEW k \in Nat,
         \/ \E retry \in BOOLEAN : Settles(w, retry, n, k)
         \/ Verified(w) /\ n = out[w] - 1
         \/ SaveFails(w, n, k),
         requests' \in 0..MaxRequests, filling' = filling, ahead' \in [Call -> Nat],
         \/ requests' = requests + 1 /\ n = out[w]
         \/ requests' = requests /\ n = out[w] - 1
  PROVE  BookStep
<1>1. /\ \E m \in {0, 1} : Heard(w, m)
      /\ UNCHANGED <<disposal, aborted, calls, window, working, generation>>
      /\ out' = [out EXCEPT ![w] = n]
      /\ retrying' \in {retrying, [retrying EXCEPT ![w] = k], [retrying EXCEPT ![w] = k + 1]}
      /\ disabled' \in {disabled, disabled \cup {w}}
      /\ failed' \in {failed, failed \cup {w}} /\ (failed' # failed => w \in disabled')
      /\ exhausted' \in {exhausted, exhausted \cup {w}}
  BY RequestEffect
<1>2. /\ requests \in Nat /\ requests' \in Nat /\ out \in [Windows -> 0..Cap] /\ Cap \in Nat
      /\ out[w] \in Nat /\ filling \in [Call -> Nat] /\ retrying \in [Windows -> Nat]
  BY BookTypes DEF Books, Values, ControllerAssumption
<1>3. out' \in [Windows -> 0..Cap] /\ \A v \in Windows : out'[v] <= out[v]
  BY <1>1, <1>2
<1>4. state' \in Final \cup {"idle", "starting", "running"}
  BY <1>1 DEF Books, Values, Heard, Completes, StateAfter
<1>5. Values'
  <2>1. retrying' \in [Windows -> Nat]
    BY <1>1, <1>2
  <2>2. disabled' \subseteq Windows /\ failed' \subseteq disabled' /\ exhausted' \subseteq Windows
    BY <1>1 DEF Books, Values
  <2> QED BY <1>1, <1>3, <1>4, <2>1, <2>2 DEF Books, Values
<1>6. EntryCounts'
  <2>1. PICK m \in {0, 1} : Heard(w, m)
    BY <1>1
  <2>2. /\ \A v \in Windows \ {w} : out'[v] <= out[v]
        /\ m \in Nat /\ m + out'[w] <= out[w] + (requests' - requests) /\ requests <= requests'
    BY <1>1, <1>2, <1>3
  <2> QED BY <1>5, <2>1, <2>2, HeardCounts
<1> QED BY <1>2, <1>3, <1>5, <1>6 DEF BookStep

(* requestWindow and its continuations.                                      *)
LEMMA RequestWindowKeepsBooks ==
  ASSUME Inv, Inv', Books, NEW w \in Windows, RequestWindow(w)
  PROVE  BookStep
<1> DEFINE e == Entry(calls + 1)
<1>1. /\ state' = "starting" /\ pending' = [pending EXCEPT ![w] = e]
      /\ UNCHANGED <<aborted, ahead, out, filling, retrying, disabled, failed, exhausted, requests>>
  BY DEF RequestWindow
<1>2. /\ requests \in Nat /\ filling \in [Call -> Nat] /\ out \in [Windows -> Nat]
      /\ pending \in [Windows -> Active]
  BY BookTypes
<1>3. Values'
  BY <1>1 DEF Books, Values
<1>4. EntryCounts'
  <2>1. /\ pending'[w] = e /\ e.scheduled = 0 /\ e.ended = 0 /\ e.deferred = <<>>
        /\ \A v \in Windows \ {w} : pending'[v] = pending[v]
    BY <1>1, <1>2 DEF Entry
  <2>2. Load(w)' = 0
    BY <2>1, EndedInFew DEF Load
  <2>3. Load(w) + out[w] <= requests /\ Load(w) \in Nat
    BY <1>2, EntryLoad DEF Load, Books, EntryCounts
  <2>4. \A v \in Windows \ {w} : Load(v)' = Load(v)
    BY <2>1 DEF Load
  <2> QED BY <1>1, <1>2, <2>1, <2>2, <2>3, <2>4 DEF Books, EntryCounts
<1> QED BY <1>1, <1>2, <1>3, <1>4 DEF BookStep

LEMMA ScheduledKeepsBooks ==
  ASSUME Inv, Inv', Books, ControllerAssumption, NEW c \in 1..calls, c \in Call, ScheduledReturns(c)
  PROVE  BookStep
<1>9. PICK w \in Windows : w = window[c]
  BY DEF Inv, Shape
<1> DEFINE e == pending[w]
           f == [e EXCEPT !.scheduled = filling[c], !.generation = generation[w], !.deferred = <<>>]
<1>0. /\ requests \in Nat /\ filling \in [Call -> Nat] /\ out \in [Windows -> Nat] /\ w \in Windows
      /\ pending \in [Windows -> Active] /\ generation \in [Windows -> Nat] /\ e \in Active
      /\ retrying \in [Windows -> Nat] /\ ahead \in [Call -> Nat] /\ c \in Call /\ filling[c] <= requests
  BY <1>9, BookTypes
<1>1. /\ filling' = [filling EXCEPT ![c] = 0]
      /\ ahead' = [ahead EXCEPT ![c] = IF filling[c] = 0 /\ TotalOut = 0 THEN retrying[w] ELSE 0]
      /\ \/ e.call # 0 /\ Handle(w, f, e.deferred)
         \/ UNCHANGED <<pending, state>>
      /\ UNCHANGED <<aborted, out, retrying, disabled, failed, exhausted, requests>>
  BY <1>9 DEF ScheduledReturns, entryVars
<1>2. /\ ahead' \in [Call -> Nat] /\ \A d \in Call : filling'[d] <= filling[d] + (requests' - requests)
  BY <1>0, <1>1
<1>3. /\ e.ended + EndedIn(e.deferred) \in Nat /\ e.ended \in Nat /\ EndedIn(e.deferred) \in Nat
      /\ e.deferred \in Seq(Event) /\ e.scheduled \in Nat /\ Load(w) + out[w] <= requests
      /\ Load(w) = e.ended + EndedIn(e.deferred)
  BY <1>0, EntryLoad DEF Load, Books, EntryCounts
<1>4. CASE UNCHANGED <<pending, state>>
  <2>1. Values'
    BY <1>1, <1>2, <1>4 DEF Books, Values
  <2>2. EntryCounts'
    BY <1>0, <1>1, <1>4, <2>1, DroppedCounts
  <2> QED BY <1>0, <1>1, <1>2, <2>1, <2>2 DEF BookStep
<1>5. CASE e.call # 0 /\ Handle(w, f, e.deferred)
  <2>1. /\ f \in Active /\ f.call = e.call /\ f.scheduled = filling[c] /\ f.ended = e.ended /\ f.deferred = <<>>
    <3>1. <<>> \in Seq(Event) /\ filling[c] \in Nat /\ generation[w] \in Nat
      BY <1>0
    <3> QED BY <1>0, <3>1 DEF Active
  <2> HIDE DEF f
  <2>2. \/ Completes(w, f.call)
        \/ \E n \in Nat : /\ n <= f.ended + EndedIn(e.deferred)
                          /\ pending' = [pending EXCEPT ![w] = [f EXCEPT !.ended = n]]
                          /\ UNCHANGED <<promise, timer, state>>
    BY <1>0, <1>3, <1>5, <2>1, HandleEffect
  <2>3. /\ state' \in Final \cup {"idle", "starting", "running"}
        /\ \A v \in Windows \ {w} : pending'[v] = pending[v]
    BY <1>0, <2>2 DEF Books, Values, Completes, StateAfter
  <2>4. Values'
    BY <1>1, <1>2, <2>3 DEF Books, Values
  <2>5. pending'[w].scheduled <= requests /\ Load(w)' + out[w] <= requests
    <3>1. CASE Completes(w, f.call)
      <4>1. pending'[w] = NoEntry
        BY <1>0, <3>1 DEF Completes
      <4>2. pending'[w].scheduled = 0 /\ Load(w)' = 0
        BY <4>1, NothingCounted DEF Load
      <4> QED BY <1>0, <1>3, <4>2
    <3>2. ASSUME NEW n \in Nat, n <= f.ended + EndedIn(e.deferred),
                 pending' = [pending EXCEPT ![w] = [f EXCEPT !.ended = n]]
          PROVE  pending'[w].scheduled <= requests /\ Load(w)' + out[w] <= requests
      <4>1. pending'[w] = [f EXCEPT !.ended = n]
        BY <1>0, <3>2
      <4>2. pending'[w].scheduled = filling[c] /\ pending'[w].ended = n /\ pending'[w].deferred = <<>>
        BY <2>1, <4>1 DEF Active
      <4>3. Load(w)' = n
        BY <4>2, EndedInFew DEF Load
      <4> QED BY <1>0, <1>3, <2>1, <3>2, <4>2, <4>3, SMTT(30)
    <3> QED BY <2>2, <3>1, <3>2
  <2>6. \A v \in Windows \ {w} : Load(v)' = Load(v)
    BY <2>3 DEF Load
  <2>7. EntryCounts'
    <3> SUFFICES ASSUME NEW v \in Windows
                 PROVE  pending'[v].scheduled <= requests' /\ Load(v)' + out'[v] <= requests'
      BY DEF EntryCounts
    <3>1. CASE v = w
      BY <1>1, <2>5, <3>1
    <3>2. CASE v # w
      BY <1>1, <2>3, <2>6, <3>2 DEF Books, EntryCounts
    <3> QED BY <3>1, <3>2
  <2> QED BY <1>0, <1>1, <1>2, <2>4, <2>7 DEF BookStep
<1> QED BY <1>1, <1>4, <1>5

LEMMA RecheckedKeepsBooks ==
  ASSUME Inv, Inv', Books, ControllerAssumption, NEW c \in 1..calls, c \in Call, Rechecked(c)
  PROVE  BookStep
<1>9. PICK w \in Windows : w = window[c]
  BY DEF Inv, Shape
<1>0. /\ requests \in Nat /\ filling \in [Call -> Nat] /\ out \in [Windows -> Nat] /\ w \in Windows
      /\ pending \in [Windows -> Active]
  <2>1. requests \in Nat
    BY DEF Books, Values
  <2>2. filling \in [Call -> Nat] /\ out \in [Windows -> Nat] /\ pending \in [Windows -> Active]
    BY DEF Inv, Shape
  <2> QED BY <2>1, <2>2
<1>8. TotalOut <= requests
  BY DEF Books
<1>1. /\ pending' = pending \/ pending' = [pending EXCEPT ![w].scheduled = TotalOut]
      /\ UNCHANGED <<state, aborted, ahead, out, filling, retrying, disabled, failed, exhausted, requests>>
  BY <1>9 DEF Rechecked, lifeVars, engineVars
<1>2. Values'
  BY <1>1 DEF Books, Values
<1>3. EntryCounts'
  <2>1. CASE pending' = pending
    BY <1>0, <1>1, <1>2, <2>1, DroppedCounts
  <2>2. CASE pending' = [pending EXCEPT ![w].scheduled = TotalOut]
    <3> SUFFICES ASSUME NEW v \in Windows
                 PROVE  pending'[v].scheduled <= requests' /\ Load(v)' + out'[v] <= requests'
      BY DEF EntryCounts
    <3>1. /\ pending'[v].scheduled \in {pending[v].scheduled, TotalOut}
          /\ pending'[v].ended = pending[v].ended /\ pending'[v].deferred = pending[v].deferred
      BY <1>0, <2>2 DEF Active
    <3>2. Load(v)' = Load(v)
      BY <3>1 DEF Load
    <3> QED BY <1>0, <1>1, <1>8, <3>1, <3>2 DEF Books, EntryCounts
  <2> QED BY <1>1, <2>1, <2>2
<1> QED BY <1>0, <1>1, <1>2, <1>3 DEF BookStep

LEMMA FillIssuesKeepsBooks ==
  ASSUME Inv, Inv', Books, ControllerAssumption, NEW c \in 1..calls, c \in Call, FillIssues(c)
  PROVE  BookStep
<1>9. PICK w \in Windows : w = window[c]
  BY DEF Inv, Shape
<1>0. /\ requests \in Nat /\ requests <= MaxRequests /\ MaxRequests \in Nat /\ filling \in [Call -> Nat]
      /\ out \in [Windows -> 0..Cap] /\ Cap \in Nat /\ w \in Windows
  BY BookTypes DEF Books, Values, ControllerAssumption
<1>1. /\ out[w] < Cap /\ requests < MaxRequests /\ requests' = requests + 1
      /\ out' = [out EXCEPT ![w] = @ + 1] /\ filling' = [filling EXCEPT ![c] = @ + 1]
      /\ UNCHANGED <<state, aborted, ahead, pending, retrying, disabled, failed, exhausted>>
  BY <1>9 DEF FillIssues, Requests, lifeVars, entryVars
<1>2. Values'
  <2>1. requests' \in 0..MaxRequests /\ out' \in [Windows -> 0..Cap]
    BY <1>0, <1>1
  <2> QED BY <1>1, <2>1 DEF Books, Values
<1>3. EntryCounts'
  <2>1. \A v \in Windows : out'[v] <= out[v] + (requests' - requests)
    BY <1>0, <1>1
  <2> QED BY <1>0, <1>1, <1>2, <2>1, DroppedCounts
<1>4. \A d \in Call : filling'[d] <= filling[d] + (requests' - requests)
  BY <1>0, <1>1
<1>5. requests <= requests'
  BY <1>0, <1>1
<1> QED BY <1>1, <1>2, <1>3, <1>4, <1>5 DEF BookStep

LEMMA CallKeepsBooks ==
  ASSUME Inv, Inv', Books, ControllerAssumption, NEW c \in Call,
         CallProceeds(c) \/ Timeout(c) \/ FillIssues(c) \/ FillFails(c)
  PROVE  BookStep
<1>0. /\ requests \in Nat /\ requests <= MaxRequests /\ MaxRequests \in Nat /\ aborted \in BOOLEAN
      /\ retrying \in [Windows -> Nat] /\ ahead \in [Call -> Nat] /\ out \in [Windows -> 0..Cap]
      /\ state \in Final \cup {"idle", "starting", "running"}
  BY DEF Books, Values, ControllerAssumption
<1>1. c \in 1..calls /\ window[c] \in Windows
  <2>1. stage[c] # "none" => c \in 1..calls
    BY DEF Inv, Shape, Call
  <2>2. stage[c] # "none" \/ c \in timer
    BY DEF CallProceeds, FillRefused, FillStops, MayFill, ScheduledReturns, Rechecked, RecheckFails,
           ResultResolves, ResultRejects, Timeout, FillIssues, FillFails
  <2> QED BY <2>1, <2>2 DEF Inv, Shape
<1>2. CASE FillRefused(c) \/ FillStops(c) \/ RecheckFails(c) \/ ResultResolves(c) \/ ResultRejects(c) \/ Timeout(c)
  <2>1. /\ UNCHANGED <<out, filling, retrying, disabled, exhausted, requests, state, aborted, ahead, pending>>
        /\ failed' = failed \/ FlushReports
    BY <1>2 DEF FillRefused, FillStops, RecheckFails, ResultResolves, ResultRejects, Timeout, Catch,
                lifeVars, entryVars, engineVars
  <2>2. failed' \in SUBSET failed
    BY <2>1 DEF FlushReports
  <2> QED BY <1>0, <2>1, <2>2, RestKeepsBooks
<1>3. CASE ScheduledReturns(c)
  BY <1>1, <1>3, ScheduledKeepsBooks
<1>4. CASE Rechecked(c)
  BY <1>1, <1>4, RecheckedKeepsBooks
<1>5. CASE FillIssues(c)
  BY <1>1, <1>5, FillIssuesKeepsBooks
<1>6. CASE FillFails(c)
  <2>1. PICK w \in Windows : w = window[c]
    BY <1>1
  <2>2. /\ requests < MaxRequests /\ requests' = requests + 1 /\ filling' = filling /\ ahead' = ahead
        /\ \/ \E retry \in BOOLEAN : Settles(w, retry, out[w], retrying[w])
           \/ SaveFails(w, out[w], retrying[w])
    BY <1>6, <2>1 DEF FillFails, Requests
  <2>3. PICK n \in 0..Cap, k \in Nat : n = out[w] /\ k = retrying[w]
    BY <1>0
  <2>4. /\ requests' \in 0..MaxRequests /\ ahead' \in [Call -> Nat]
        /\ (\E retry \in BOOLEAN : Settles(w, retry, n, k)) \/ SaveFails(w, n, k)
    BY <1>0, <2>2, <2>3
  <2> QED BY <2>2, <2>3, <2>4, EndKeepsBooks
<1> QED BY <1>2, <1>3, <1>4, <1>5, <1>6 DEF CallProceeds

LEMMA WindowKeepsBooks ==
  ASSUME Inv, Inv', Books, ControllerAssumption, NEW w \in Windows,
         RequestWindowAgain(w) \/ CancelByOwner(w) \/ RequestEnds(w) \/ RetryRuns(w)
  PROVE  BookStep
<1>0. /\ requests \in Nat /\ requests <= MaxRequests /\ MaxRequests \in Nat /\ aborted \in BOOLEAN
      /\ retrying \in [Windows -> Nat] /\ ahead \in [Call -> Nat] /\ out \in [Windows -> 0..Cap]
      /\ Cap \in Nat /\ out[w] \in 0..Cap /\ filling \in [Call -> Nat]
  BY DEF Books, Values, ControllerAssumption, Inv, Shape
<1>1. CASE RequestWindowAgain(w)
  <2>1. /\ state' = "starting"
        /\ UNCHANGED <<out, filling, retrying, disabled, exhausted, requests, failed, aborted, ahead, pending>>
    BY <1>1 DEF RequestWindowAgain, entryVars, engineVars
  <2> QED BY <1>0, <2>1, RestKeepsBooks
<1>2. CASE CancelByOwner(w)
  <2> DEFINE n == out[w]
             evs == [i \in 1..n |-> Terminal(w, FALSE)]
  <2>1. /\ generation[w] # 0 /\ Emit(w, evs) /\ Cancelled({w}) /\ UNCHANGED <<ahead, failed>>
    BY <1>2 DEF CancelByOwner
  <2>2. evs \in Seq(Event) /\ Len(evs) = n
    <3>1. FALSE \in BOOLEAN
      OBVIOUS
    <3>2. Terminal(w, FALSE) \in Event
      BY <3>1, EventsOfWindow
    <3>3. evs \in [1..n -> Event] /\ n \in Nat
      <4>1. \A i \in 0..Cap : i \in Nat
        BY <1>0
      <4> QED BY <1>0, <3>2, <4>1
    <3> HIDE DEF evs, n
    <3>4. evs \in Seq(Event)
      BY <3>3
    <3> QED BY <3>3, <3>4
  <2> HIDE DEF evs
  <2>3. EndedIn(evs) \in Nat /\ EndedIn(evs) <= out[w]
    BY <2>2, EndedCounts, NothingCounted
  <2>4. Heard(w, EndedIn(evs)) /\ UNCHANGED <<disposal, aborted, calls, window, working>>
    BY <2>1, <2>2, EmitEffect
  <2>5. /\ UNCHANGED <<filling, retrying, exhausted, requests>>
        /\ disabled \subseteq disabled' /\ disabled' \subseteq Windows
        /\ out' = [v \in Windows |-> IF v = w THEN 0 ELSE out[v]]
    BY <1>0, <2>1 DEF Cancelled, Books, Values
  <2>6. out' \in [Windows -> 0..Cap] /\ \A v \in Windows : out'[v] <= out[v]
    BY <1>0, <2>5
  <2>7. state' \in Final \cup {"idle", "starting", "running"}
    BY <2>4 DEF Heard, Completes, StateAfter, Books, Values
  <2>8. Values'
    BY <2>1, <2>4, <2>5, <2>6, <2>7 DEF Books, Values
  <2>9. EntryCounts'
    <3>1. /\ requests <= requests' /\ \A v \in Windows \ {w} : out'[v] <= out[v]
          /\ EndedIn(evs) + out'[w] <= out[w] + (requests' - requests)
      BY <1>0, <2>3, <2>5, <2>6
    <3> QED BY <2>3, <2>4, <2>8, <3>1, HeardCounts
  <2> QED BY <1>0, <2>5, <2>6, <2>8, <2>9 DEF BookStep
<1>3. CASE RequestEnds(w)
  <2>1. /\ out[w] > 0 /\ UNCHANGED <<ahead, filling, requests>>
        /\ \/ \E retry \in BOOLEAN : Settles(w, retry, out[w] - 1, retrying[w])
           \/ Verified(w)
           \/ SaveFails(w, out[w] - 1, retrying[w])
    BY <1>3 DEF RequestEnds
  <2>2. PICK n \in 0..Cap, k \in Nat : n = out[w] - 1 /\ k = retrying[w]
    <3>1. out[w] - 1 \in 0..Cap /\ retrying[w] \in Nat
      BY <1>0, <2>1
    <3> QED BY <3>1
  <2>3. /\ requests' \in 0..MaxRequests /\ ahead' \in [Call -> Nat]
        /\ \/ \E retry \in BOOLEAN : Settles(w, retry, n, k)
           \/ Verified(w) /\ n = out[w] - 1
           \/ SaveFails(w, n, k)
    BY <1>0, <2>1, <2>2
  <2> QED BY <2>1, <2>2, <2>3, EndKeepsBooks
<1>4. CASE RetryRuns(w)
  <2>1. PICK k \in Nat : k = retrying[w] - 1
    <3>1. retrying[w] > 0 /\ retrying[w] \in Nat
      BY <1>0, <1>4 DEF RetryRuns
    <3> QED BY <3>1
  <2>2. /\ filling' = filling
        /\ ahead' = [c \in Call |-> IF window[c] = w /\ ahead[c] > 0 THEN ahead[c] - 1 ELSE ahead[c]]
    BY <1>4 DEF RetryRuns
  <2>3. ahead' \in [Call -> Nat]
    BY <1>0, <2>2
  <2>4. \/ /\ retrying' = [retrying EXCEPT ![w] = k]
           /\ UNCHANGED <<state, aborted, pending, disabled, failed, exhausted>>
           /\ \/ UNCHANGED <<out, requests>>
              \/ /\ out[w] < Cap /\ requests < MaxRequests /\ requests' = requests + 1
                 /\ out' = [out EXCEPT ![w] = @ + 1]
        \/ /\ requests < MaxRequests /\ requests' = requests + 1
           /\ (\E retry \in BOOLEAN : Settles(w, retry, out[w], k)) \/ SaveFails(w, out[w], k)
    BY <1>4, <2>1 DEF RetryRuns, Requests, lifeVars, entryVars
  <2>5. CASE /\ retrying' = [retrying EXCEPT ![w] = k]
             /\ UNCHANGED <<state, aborted, pending, disabled, failed, exhausted>>
             /\ \/ UNCHANGED <<out, requests>>
                \/ /\ out[w] < Cap /\ requests < MaxRequests /\ requests' = requests + 1
                   /\ out' = [out EXCEPT ![w] = @ + 1]
    <3>1. /\ requests <= requests' /\ requests' \in 0..MaxRequests /\ out' \in [Windows -> 0..Cap]
          /\ retrying' \in [Windows -> Nat]
          /\ \A v \in Windows : out'[v] <= out[v] + (requests' - requests)
          /\ \A c \in Call : filling'[c] <= filling[c] + (requests' - requests)
      <4>1. CASE UNCHANGED <<out, requests>>
        BY <1>0, <2>2, <2>5, <4>1
      <4>2. CASE /\ out[w] < Cap /\ requests < MaxRequests /\ requests' = requests + 1
                 /\ out' = [out EXCEPT ![w] = @ + 1]
        BY <1>0, <2>2, <2>5, <4>2
      <4> QED BY <2>5, <4>1, <4>2
    <3>2. Values'
      BY <2>3, <2>5, <3>1 DEF Books, Values
    <3>3. EntryCounts'
      BY <2>5, <3>1, <3>2, DroppedCounts
    <3>4. \/ \A v \in Windows : out'[v] <= out[v]
          \/ requests' = requests + 1 /\ \E v \in Windows : out' = [out EXCEPT ![v] = @ + 1]
      BY <1>0, <2>5
    <3> QED BY <3>1, <3>2, <3>3, <3>4 DEF BookStep
  <2>6. CASE /\ requests < MaxRequests /\ requests' = requests + 1
             /\ (\E retry \in BOOLEAN : Settles(w, retry, out[w], k)) \/ SaveFails(w, out[w], k)
    <3>1. PICK n \in 0..Cap : n = out[w]
      BY <1>0
    <3>2. /\ requests' \in 0..MaxRequests
          /\ (\E retry \in BOOLEAN : Settles(w, retry, n, k)) \/ SaveFails(w, n, k)
      BY <1>0, <2>6, <3>1
    <3> QED BY <2>2, <2>3, <2>6, <3>1, <3>2, EndKeepsBooks
  <2> QED BY <2>4, <2>5, <2>6
<1> QED BY <1>1, <1>2, <1>3, <1>4

LEMMA QueueKeepsBooks ==
  ASSUME Inv, Inv', CleanInv, Books, ControllerAssumption, QueueProceeds
  PROVE  BookStep
<1>0. /\ aborted \in BOOLEAN /\ state \in Final \cup {"idle", "starting", "running"}
      /\ \A i \in 1..Len(jobs) : jobs[i].kind = "fail" => jobs[i].window \in Windows /\ jobs[i].state \in Final
  BY DEF Books, Values, Inv, Shape, Job
<1>1. jobs # <<>> => 1 \in 1..Len(jobs) /\ Head(jobs) = jobs[1]
  BY DEF Inv, Shape
<1>2. CASE JobFindsNothing
  <2>1. UNCHANGED <<out, filling, retrying, disabled, exhausted, requests, state, aborted, ahead, pending, failed>>
    BY <1>2 DEF JobFindsNothing, lifeVars, entryVars, engineVars
  <2> QED BY <1>0, <2>1, RestKeepsBooks
<1>3. CASE JobTakesCall
  <2> DEFINE w == Head(jobs).window
  <2>1. /\ w \in Windows /\ Cancelled({w}) /\ pending' = [pending EXCEPT ![w] = NoEntry]
        /\ UNCHANGED <<failed, state, aborted, ahead>>
    BY <1>0, <1>1, <1>3 DEF JobTakesCall, Turn, lifeVars
  <2> HIDE DEF w
  <2>2. {w} \in SUBSET Windows /\ \A v \in Windows : pending'[v] = pending[v] \/ pending'[v] = NoEntry
    BY <2>1 DEF Inv, Shape
  <2> QED BY <2>1, <2>2, CancelKeepsBooks
<1>4. CASE JobRejectsCall
  <2>1. /\ UNCHANGED <<out, filling, retrying, disabled, exhausted, requests, aborted, ahead, pending>>
        /\ FlushReports /\ state' = StateAfter(Head(jobs).state) /\ working # 0
    BY <1>4 DEF JobRejectsCall
  <2>2. failed' \in SUBSET failed
    BY <2>1 DEF FlushReports
  <2>3. jobs # <<>> /\ jobs[1].kind = "fail"
    BY <2>1 DEF CleanInv, AtWork, Inv, HeadAtWork
  <2>4. state' \in Final \cup {"idle", "starting", "running"}
    BY <1>0, <1>1, <2>1, <2>3 DEF StateAfter
  <2> QED BY <1>0, <2>1, <2>2, <2>4, RestKeepsBooks
<1>5. CASE DisposeRuns \/ DisposeEnds
  <2>1. /\ Cancelled(Windows) /\ UNCHANGED <<state, aborted, ahead, pending>>
        /\ failed' = failed \/ failed' = {}
    BY <1>5 DEF DisposeRuns, DisposeEnds, entryVars
  <2> QED BY <2>1, CancelKeepsBooks
<1> QED BY <1>2, <1>3, <1>4, <1>5 DEF QueueProceeds

LEMMA PageKeepsBooks ==
  ASSUME Inv, Inv', Books, ControllerAssumption,
         TransportFatal \/ Abort \/ OwnerFlush \/ \E o \in Final : Dispose(o)
  PROVE  BookStep
<1>1. /\ UNCHANGED <<out, filling, retrying, disabled, exhausted, requests, ahead>>
      /\ failed' = failed \/ FlushReports
      /\ aborted' = aborted \/ aborted' = TRUE
      /\ state' = state \/ \E o \in Final : state' = StateAfter(o)
      /\ pending' = pending \/ pending' = [w \in Windows |-> NoEntry]
  BY DEF TransportFatal, Abort, OwnerFlush, Dispose, lifeVars, entryVars, engineVars, Final
<1>2. failed' \in SUBSET failed
  BY <1>1 DEF FlushReports
<1>3. /\ aborted' \in BOOLEAN /\ state' \in Final \cup {"idle", "starting", "running"}
      /\ \A v \in Windows : pending'[v] = pending[v] \/ pending'[v] = NoEntry
  BY <1>1 DEF Books, Values, StateAfter
<1> QED BY <1>1, <1>2, <1>3, RestKeepsBooks

-----------------------------------------------------------------------------
Clean == CleanInv /\ Books

LEMMA InitClean == Init => Clean
<1> SUFFICES ASSUME Init PROVE Clean
  OBVIOUS
<1>0. /\ calls = 0 /\ 1..calls = {} /\ jobs = <<>> /\ Len(jobs) = 0 /\ 1..Len(jobs) = {} /\ NoEntry.call = 0
      /\ MaxRequests \in Nat /\ Cap \in Nat /\ NoEntry.scheduled = 0
  BY ControllerAssumption, NothingCounted DEF Init
<1>1. CleanInv
  <2>1. Opened /\ TimersPending /\ Causes /\ Unstarted
    BY <1>0 DEF Init, Opened, TimersPending, Causes, Unstarted
  <2>2. Callers /\ Queued /\ AtWork
    BY <1>0 DEF Init, Callers, Queued, AtWork
  <2>3. Disposal /\ ThrownMeansCancelled
    BY <1>0 DEF Init, Disposal, ThrownMeansCancelled
  <2> QED BY <2>1, <2>2, <2>3 DEF CleanInv
<1>2. Values
  <2>1. 0 \in 0..Cap /\ 0 \in 0..MaxRequests
    BY <1>0
  <2>2. out \in [Windows -> 0..Cap] /\ retrying \in [Windows -> Nat] /\ ahead \in [Call -> Nat]
    BY <2>1 DEF Init
  <2>3. state = "idle" /\ aborted = FALSE /\ disabled = {} /\ failed = {} /\ exhausted = {} /\ requests = 0
    BY DEF Init
  <2> QED BY <2>1, <2>2, <2>3 DEF Values
<1>3. \A w \in Windows : Load(w) = 0
  BY NothingCounted DEF Init, Load
<1>4. EntryCounts
  BY <1>0, <1>3 DEF Init, EntryCounts
<1>5. TotalOut <= requests
  <2> DEFINE S == {x \in Windows \X (1..Cap) : x[2] <= out[x[1]]}
  <2>1. S = {}
    <3> SUFFICES ASSUME NEW x \in S PROVE FALSE
      OBVIOUS
    <3>1. x[1] \in Windows /\ x[2] \in 1..Cap /\ x[2] <= out[x[1]]
      OBVIOUS
    <3> QED BY <1>0, <3>1 DEF Init
  <2>2. TotalOut = Cardinality(S)
    BY DEF TotalOut
  <2>3. requests = 0
    BY DEF Init
  <2> HIDE DEF S
  <2> QED BY <2>1, <2>2, <2>3, FS_EmptySet
<1>6. \A c \in Call : filling[c] <= requests
  BY DEF Init
<1> QED BY <1>1, <1>2, <1>4, <1>5, <1>6 DEF Clean, Books

LEMMA NextClean ==
  ASSUME Inv, Inv', Clean, [Next]_vars
  PROVE  Clean'
<1> USE DEF Clean
<1>0. retrying \in [Windows -> Nat]
  BY DEF Books, Values
<1>1. ASSUME NEW w \in Windows, RequestWindow(w)
      PROVE  Clean'
  BY <1>1, ControllerAssumption, RequestWindowKeepsClean, RequestWindowKeepsBooks, BooksKept
<1>2. CASE QueueProceeds
  <2>1. Books'
    BY <1>2, ControllerAssumption, QueueKeepsBooks, BooksKept
  <2>2. CleanInv'
    BY <1>2, ControllerAssumption, FindsNothingKeepsClean, TakesCallKeepsClean, RejectsCallKeepsClean,
       DisposeKeepsClean DEF QueueProceeds
  <2> QED BY <2>1, <2>2
<1>3. ASSUME NEW w \in Windows,
             RequestWindowAgain(w) \/ CancelByOwner(w) \/ RequestEnds(w) \/ RetryRuns(w)
      PROVE  Clean'
  <2>1. Books'
    BY <1>3, ControllerAssumption, WindowKeepsBooks, BooksKept
  <2>2. OrdinaryStep
    BY <1>0, <1>3, ControllerAssumption, WindowIsOrdinary
  <2> QED BY <2>1, <2>2, ControllerAssumption, OrdinaryKeeps
<1>4. ASSUME NEW c \in Call, CallProceeds(c) \/ Timeout(c) \/ FillIssues(c) \/ FillFails(c)
      PROVE  Clean'
  <2>1. Books'
    BY <1>4, ControllerAssumption, CallKeepsBooks, BooksKept
  <2>2. OrdinaryStep
    BY <1>0, <1>4, ControllerAssumption, CallIsOrdinary
  <2> QED BY <2>1, <2>2, ControllerAssumption, OrdinaryKeeps
<1>5. CASE TransportFatal \/ Abort \/ OwnerFlush \/ \E o \in Final : Dispose(o)
  <2>1. Books'
    BY <1>5, ControllerAssumption, PageKeepsBooks, BooksKept
  <2>2. CASE TransportFatal \/ Abort \/ OwnerFlush
    <3>1. OrdinaryStep
      BY <2>2, ControllerAssumption, PageIsOrdinary
    <3> QED BY <2>1, <3>1, ControllerAssumption, OrdinaryKeeps
  <2>3. CASE \E o \in Final : Dispose(o)
    BY <2>1, <2>3, ControllerAssumption, DisposeKeepsClean
  <2> QED BY <1>5, <2>2, <2>3
<1>6. CASE UNCHANGED vars
  <2>1. UNCHANGED <<state, disposal, calls, window, stage, promise, timer, pending, ahead, jobs, working,
                    aborted, out, filling, retrying, generation, disabled, failed, exhausted, requests>>
    BY <1>6 DEF vars, lifeVars, callVars, entryVars, jobVars, engineVars
  <2>2. CleanInv'
    BY <2>1 DEF CleanInv, Opened, TimersPending, Causes, Overtaken, Doomed, Unstarted, Callers, Queued, AtWork,
                Disposal, ThrownMeansCancelled
  <2>3. Books'
    BY <2>1 DEF Books, Values, EntryCounts, Load, TotalOut
  <2> QED BY <2>2, <2>3
<1> QED BY <1>1, <1>2, <1>3, <1>4, <1>5, <1>6 DEF Next

LEMMA CleanTyped ==
  ASSUME Inv, Clean, ControllerAssumption
  PROVE  EndedIsClean
<1>0. /\ pending \in [Windows -> Active] /\ requests \in Nat /\ requests <= MaxRequests /\ MaxRequests \in Nat
      /\ out \in [Windows -> Nat]
  BY DEF Inv, Shape, Clean, Books, Values, ControllerAssumption
<1>1. \A w \in Windows : /\ pending[w].call \in Call \cup {0}
                         /\ pending[w].scheduled \in 0..MaxRequests
                         /\ pending[w].generation \in Nat /\ pending[w].ended \in 0..MaxRequests
  <2> SUFFICES ASSUME NEW w \in Windows
               PROVE  /\ pending[w].call \in Call \cup {0}
                      /\ pending[w].scheduled \in 0..MaxRequests
                      /\ pending[w].generation \in Nat /\ pending[w].ended \in 0..MaxRequests
    OBVIOUS
  <2>1. /\ pending[w].ended \in Nat /\ EndedIn(pending[w].deferred) \in Nat /\ pending[w].scheduled \in Nat
    BY <1>0, EntryLoad
  <2>2. pending[w].scheduled <= requests /\ pending[w].ended + EndedIn(pending[w].deferred) + out[w] <= requests
    BY DEF Clean, Books, EntryCounts, Load
  <2>3. pending[w].call \in Call \cup {0} /\ pending[w].generation \in Nat
    BY <1>0 DEF Active
  <2> QED BY <1>0, <2>1, <2>2, <2>3
<1>2. TypeOK
  <2>1. timer \subseteq Call /\ working \in Call \cup {0}
    <3>1. calls \in Nat /\ calls <= MaxCalls /\ MaxCalls \in Nat /\ timer \subseteq 1..calls /\ working \in 0..calls
      BY DEF Inv, Shape, ControllerAssumption
    <3> QED BY <3>1 DEF Call
  <2> QED BY <1>1, <2>1 DEF TypeOK, Inv, Shape, Stage, Clean, CleanInv, Disposal, Books, Values
<1>3. DisposedIsQuiet
  <2> SUFFICES ASSUME disposal = "done"
               PROVE  /\ timer = {} /\ \A w \in Windows : pending[w] = NoEntry /\ out[w] = 0 /\ retrying[w] = 0
                      /\ \A c \in 1..calls : promise[c] # "open"
    BY DEF DisposedIsQuiet
  <2>1. /\ \A w \in Windows : pending[w] = NoEntry /\ out[w] = 0 /\ retrying[w] = 0
        /\ working = 0 /\ NoEntry.call = 0
        /\ \A c \in 1..calls : window[c] \in Windows /\ c # 0
        /\ timer \subseteq 1..calls
    BY NothingCounted DEF Clean, CleanInv, Disposal, Inv, Shape, ControllerAssumption
  <2>2. timer = {}
    BY <2>1 DEF Clean, CleanInv, TimersPending
  <2>3. \A c \in 1..calls : promise[c] # "open"
    BY <2>1 DEF Inv, NoForgottenCall
  <2> QED BY <2>1, <2>2, <2>3
<1> QED BY <1>2, <1>3 DEF EndedIsClean, Clean, CleanInv

(* A call of requestWindow that threw has its window cancelled, or a dispose *)
(* queued that will cancel it, and the controller in a final state; a        *)
(* dispose that ended left no pending call, no timer, no request and no open *)
(* promise - whichever failures, retries and cancellations raced it - and    *)
(* the controller never counts more than the engine has issued.             *)
THEOREM EndedClean == Spec => []EndedIsClean
<1>1. Init => Inv /\ Clean
  BY InitInv, InitClean
<1>2. Inv /\ Clean /\ [Next]_vars => (Inv /\ Clean)'
  BY NextInv, NextClean
<1>3. Inv /\ Clean => EndedIsClean
  BY CleanTyped, ControllerAssumption
<1> QED BY <1>1, <1>2, <1>3, PTL DEF Spec
=============================================================================
