-------------------------- MODULE TransferController --------------------------
(* DirectTransferController (apps/demo/src/direct-transfer-controller.ts):    *)
(* turns the events of the engine's direct windows into one promise per call *)
(* of requestWindow.  A call can end by its terminals, a timeout, an         *)
(* exhausted window, a lifecycle error, a lost transport, an abort or a      *)
(* dispose; failures run one after another on a cleanup queue.  The engine   *)
(* is reduced to what its events depend on: how many requests a window has   *)
(* outstanding, its generation and whether it is disabled.  All calls are    *)
(* for one file of one peer.                                                *)
EXTENDS Naturals, Sequences, FiniteSets

CONSTANTS
  Windows,      \* window keys
  Cap,          \* maxInFlight
  MaxCalls,     \* bound: calls of requestWindow
  MaxRequests   \* bound: requests the engine issues

ASSUME ControllerAssumption ==
  /\ IsFiniteSet(Windows) /\ "none" \notin Windows
  /\ Cap \in Nat \ {0} /\ MaxCalls \in Nat /\ MaxRequests \in Nat

Call == 1..MaxCalls
Final == {"succeeded", "failed", "cancelled"}

VARIABLES
  state,       \* the controller's state
  disposal,    \* dispose: "none", "queued", "cancelling" or "done"
  calls,       \* calls of requestWindow so far
  window,      \* call -> its window key
  stage,       \* call -> the await its requestWindow is at
  promise,     \* call -> its result promise
  timer,       \* calls whose 30 s timer is armed
  pending,     \* window -> its Active entry in the pending map
  ahead,       \* call -> retry tasks of its window its flush still waits for
  jobs,        \* the cleanup queue: failWindow jobs and the disposal
  working,     \* call a failWindow job has taken and not yet rejected, 0 for none
  aborted,     \* the AbortSignal has fired
  out,         \* engine: window -> requests outstanding
  filling,     \* engine: call -> requests its top-up has issued, while it runs
  retrying,    \* engine: window -> retry tasks queued
  generation,  \* engine: window -> generation, 0 before the window exists
  disabled,    \* engine: windows disabled
  failed,      \* engine: windows with an error no flush has reported yet
  exhausted,   \* engine: windows whose exhaustion has been announced
  requests     \* engine: requests issued so far

lifeVars == <<state, disposal, aborted>>
callVars == <<calls, window>>
entryVars == <<promise, timer, pending>>
jobVars == <<jobs, working>>
engineVars == <<out, filling, retrying, generation, disabled, failed, exhausted, requests>>
vars == <<lifeVars, callVars, stage, ahead, entryVars, jobVars, engineVars>>

(* Active: the call, its generation (0 while undefined), scheduled, the      *)
(* terminals without a retry so far, and the events deferred until the       *)
(* generation is known.  NoEntry: the map has no such key.                  *)
Entry(c) == [call |-> c, generation |-> 0, scheduled |-> 0, ended |-> 0, deferred |-> <<>>]
NoEntry == Entry(0)

Init ==
  /\ state = "idle" /\ disposal = "none" /\ calls = 0 /\ aborted = FALSE
  /\ window = [c \in Call |-> "none"]
  /\ stage = [c \in Call |-> "none"]
  /\ promise = [c \in Call |-> "open"]
  /\ timer = {}
  /\ pending = [w \in Windows |-> NoEntry]
  /\ ahead = [c \in Call |-> 0]
  /\ jobs = <<>> /\ working = 0
  /\ out = [w \in Windows |-> 0]
  /\ filling = [c \in Call |-> 0]
  /\ retrying = [w \in Windows |-> 0]
  /\ generation = [w \in Windows |-> 0]
  /\ disabled = {} /\ failed = {} /\ exhausted = {} /\ requests = 0

-----------------------------------------------------------------------------
(* Helpers.                                                                 *)

(* setState: a final state stays.                                           *)
StateAfter(s) == IF state \in Final THEN state ELSE s

(* failWindow queues a job; it takes the call, if any, that is pending under  *)
(* the key when its turn comes.  by is the call that waits for the job.     *)
FailJob(w, s, by) == [kind |-> "fail", window |-> w, state |-> s, by |-> by]
DisposeJob == [kind |-> "dispose", by |-> 0]

Terminal(w, retry) == [kind |-> IF retry THEN "retried" ELSE "ended", generation |-> generation[w]]
Exhausted(w) == [kind |-> "exhausted", generation |-> generation[w]]
ErrorEvent(w) == [kind |-> "error", generation |-> generation[w]]

IsTerminal(e) == e.kind \in {"retried", "ended"}

(* The first terminal that brings an entry e that knows its generation to    *)
(* its number of scheduled requests completes and removes it.               *)
EndedAfter(e, evs, i) ==
  e.ended + Cardinality({j \in 1..i : evs[j].kind = "ended" /\ evs[j].generation = e.generation})
Completing(e, evs) ==
  {i \in 1..Len(evs) : /\ e.scheduled > 0
                       /\ IsTerminal(evs[i]) /\ evs[i].generation = e.generation
                       /\ EndedAfter(e, evs, i) >= e.scheduled}

(* handleTerminal, handleExhausted and handleError for the events evs of     *)
(* window w, in order, on its entry e: terminals are counted, the others     *)
(* queue a failWindow, until the entry is complete.                         *)
Handle(w, e, evs) ==
  LET done == Completing(e, evs)
      failures == {i \in 1..Len(evs) : /\ ~IsTerminal(evs[i]) /\ evs[i].generation = e.generation
                                       /\ \A j \in done : i < j}
  IN  /\ jobs' = jobs \o [i \in 1..Cardinality(failures) |-> FailJob(w, "failed", 0)]
      /\ IF done # {}
         THEN /\ pending' = [pending EXCEPT ![w] = NoEntry]
              /\ promise' = [promise EXCEPT ![e.call] = "resolved"]
              /\ timer' = timer \ {e.call}
              /\ state' = StateAfter("running")
         ELSE /\ pending' = [pending EXCEPT ![w] = [e EXCEPT !.ended = EndedAfter(e, evs, Len(evs))]]
              /\ UNCHANGED <<promise, timer, state>>

(* The engine emits evs for window w: nobody listens for a window that is not *)
(* pending, and events before the generation is known are deferred.         *)
Emit(w, evs) ==
  LET e == pending[w] IN
  /\ IF e.call # 0 /\ e.generation # 0
     THEN Handle(w, e, evs)
     ELSE /\ pending' = IF e.call = 0 THEN pending
                        ELSE [pending EXCEPT ![w].deferred = @ \o evs]
          /\ UNCHANGED <<jobs, promise, timer, state>>
  /\ UNCHANGED <<disposal, aborted, callVars, working>>

(* engine.cancelDirectRequests for the windows in S that exist.              *)
CancelledWithoutDisabling(S) ==
  LET open == {w \in S : generation[w] # 0} IN
  /\ generation' = [w \in Windows |-> IF w \in open THEN generation[w] + 1 ELSE generation[w]]
  /\ out' = [w \in Windows |-> IF w \in open THEN 0 ELSE out[w]]
  /\ UNCHANGED <<disabled, filling, retrying, exhausted, requests>>
Cancelled(S) ==
  LET open == {w \in S : generation[w] # 0} IN
  /\ disabled' = disabled \cup open
  /\ generation' = [w \in Windows |-> IF w \in open THEN generation[w] + 1 ELSE generation[w]]
  /\ out' = [w \in Windows |-> IF w \in open THEN 0 ELSE out[w]]
  /\ UNCHANGED <<filling, retrying, exhausted, requests>>

(* A flush of the engine ends: it rethrows and clears one window's error.   *)
FlushReports == IF failed = {} THEN failed' = failed ELSE \E w \in failed : failed' = failed \ {w}

(* No task of window w is queued or running.                                *)
Drained(w) == retrying[w] = 0 /\ \A c \in Call : window[c] = w => stage[c] \notin {"scheduling", "filling"}

(* getOutstandingRequestCount, over all the windows of the peer.             *)
TotalOut == Cardinality({x \in Windows \X (1..Cap) : x[2] <= out[x[1]]})

-----------------------------------------------------------------------------
(* requestWindow.                                                           *)

(* Up to the await of engine.requestPieceWindow, for a key with no call      *)
(* pending ...                                                             *)
RequestWindow(w) ==
  LET c == calls + 1 IN
  /\ disposal = "none" /\ state \notin Final
  /\ pending[w] = NoEntry
  /\ c \in Call
  /\ calls' = c
  /\ state' = "starting"
  /\ window' = [window EXCEPT ![c] = w]
  /\ stage' = [stage EXCEPT ![c] = "scheduling"]
  /\ pending' = [pending EXCEPT ![w] = Entry(c)]
  /\ timer' = timer \cup {c}
  /\ generation' = [generation EXCEPT ![w] = IF @ = 0 THEN 1 ELSE @]
  /\ UNCHANGED <<disposal, aborted, ahead, promise, jobVars, out, filling, retrying,
                 disabled, failed, exhausted, requests>>

(* ... and for a key that has one: refused, in state starting.              *)
RequestWindowAgain(w) ==
  /\ disposal = "none" /\ state \notin Final
  /\ pending[w] # NoEntry
  /\ state' = "starting"
  /\ UNCHANGED <<disposal, aborted, callVars, stage, ahead, entryVars, jobVars, engineVars>>

(* The catch of requestWindow: failWindow, then throw.                      *)
Catch(c) ==
  /\ jobs' = Append(jobs, FailJob(window[c], "failed", c))
  /\ stage' = [stage EXCEPT ![c] = "cleaning"]
  /\ UNCHANGED <<lifeVars, callVars, ahead, entryVars, working>>

(* The engine refuses a disabled window, at the call or when the top-up's    *)
(* turn comes.                                                             *)
FillRefused(c) ==
  /\ stage[c] = "scheduling" /\ window[c] \in disabled
  /\ Catch(c)
  /\ UNCHANGED engineVars

(* engine.requestPieceWindow resolved with the pieces it scheduled: the      *)
(* entry pending under the key, if any, learns its generation and the        *)
(* deferred events are replayed.                                           *)
ScheduledReturns(c) ==
  LET w == window[c]
      e == pending[w]
      dry == filling[c] = 0 /\ TotalOut = 0
  IN  /\ stage[c] = "returning"
      /\ stage' = [stage EXCEPT ![c] = IF dry THEN "recheck" ELSE "awaiting"]
      /\ ahead' = [ahead EXCEPT ![c] = IF dry THEN retrying[w] ELSE 0]
      /\ filling' = [filling EXCEPT ![c] = 0]
      /\ IF e.call # 0
         THEN Handle(w, [e EXCEPT !.scheduled = filling[c], !.generation = generation[w],
                                  !.deferred = <<>>], e.deferred)
         ELSE UNCHANGED <<jobs, entryVars, state>>
      /\ UNCHANGED <<disposal, aborted, callVars, working, out, retrying, generation, disabled, failed,
                     exhausted, requests>>

(* Nothing was scheduled and nothing was outstanding: after a flush, which   *)
(* waits for the tasks then queued in the window, the entry takes what is   *)
(* outstanding now, in any window, for its own, or fails.                   *)
Rechecked(c) ==
  LET w == window[c] IN
  /\ stage[c] = "recheck" /\ ahead[c] = 0 /\ failed = {}
  /\ IF TotalOut > 0
     THEN /\ stage' = [stage EXCEPT ![c] = "awaiting"]
          /\ pending' = IF pending[w].call = 0 THEN pending
                        ELSE [pending EXCEPT ![w].scheduled = TotalOut]
          /\ UNCHANGED jobs
     ELSE /\ stage' = [stage EXCEPT ![c] = "failing"]
          /\ jobs' = Append(jobs, FailJob(w, "failed", c))
          /\ UNCHANGED pending
  /\ UNCHANGED <<lifeVars, callVars, ahead, promise, timer, working, engineVars>>

(* The flush rethrows the error of a window.                                *)
RecheckFails(c) ==
  /\ stage[c] = "recheck" /\ ahead[c] = 0 /\ failed # {}
  /\ FlushReports
  /\ Catch(c)
  /\ UNCHANGED <<out, filling, retrying, generation, disabled, exhausted, requests>>

ResultResolves(c) ==
  /\ stage[c] = "awaiting" /\ promise[c] = "resolved"
  /\ stage' = [stage EXCEPT ![c] = "returned"]
  /\ UNCHANGED <<lifeVars, callVars, ahead, entryVars, jobVars, engineVars>>

ResultRejects(c) ==
  /\ stage[c] = "awaiting" /\ promise[c] = "rejected"
  /\ Catch(c)
  /\ UNCHANGED engineVars

-----------------------------------------------------------------------------
(* Failures, the cleanup queue and dispose.                                 *)

Pending == {c \in 1..calls : pending[window[c]].call = c}

(* failWindow for every pending call, in the order of the map.              *)
FailAll(s) ==
  \E n \in 0..calls : \E order \in [1..n -> Pending] :
    /\ n = Cardinality(Pending)
    /\ \A i, j \in 1..n : i < j => order[i] < order[j]
    /\ jobs' = jobs \o [i \in 1..n |-> FailJob(window[order[i]], s, 0)]

TimeoutOnceScheduled(c) ==
  /\ c \in timer
  /\ timer' = timer \ {c}
  /\ jobs' = IF pending[window[c]].generation = 0 THEN jobs ELSE Append(jobs, FailJob(window[c], "failed", 0))
  /\ UNCHANGED <<lifeVars, callVars, stage, ahead, promise, pending, working, engineVars>>
Timeout(c) ==
  /\ c \in timer
  /\ timer' = timer \ {c}
  /\ jobs' = Append(jobs, FailJob(window[c], "failed", 0))
  /\ UNCHANGED <<lifeVars, callVars, stage, ahead, promise, pending, working, engineVars>>

(* failPeer, for the one peer; bounded to once while a failure is queued.   *)
TransportFatal ==
  /\ Pending # {}
  /\ \A i \in 1..Len(jobs) : jobs[i].kind = "fail" => pending[jobs[i].window] = NoEntry
  /\ FailAll("failed")
  /\ UNCHANGED <<lifeVars, callVars, stage, ahead, entryVars, working, engineVars>>

Abort ==
  /\ ~aborted /\ disposal # "done"
  /\ aborted' = TRUE
  /\ state' = StateAfter("cancelled")
  /\ FailAll("cancelled")
  /\ UNCHANGED <<disposal, callVars, stage, ahead, entryVars, working, engineVars>>

(* The caller that waits for the job at the head of the queue goes on.       *)
JobDone ==
  LET c == Head(jobs).by IN
  /\ jobs' = Tail(jobs)
  /\ stage' = IF c = 0 THEN stage
              ELSE [stage EXCEPT ![c] = IF @ = "failing" THEN "awaiting" ELSE "threw"]

(* The turn of a job of this kind has come.                                 *)
TurnUntilDisposed(kind) == working = 0 /\ disposal = "none" /\ jobs # <<>> /\ Head(jobs).kind = kind
Turn(kind) == working = 0 /\ disposal # "cancelling" /\ jobs # <<>> /\ Head(jobs).kind = kind

(* A failWindow job whose window has no pending call is over at once.        *)
JobFindsNothing ==
  /\ Turn("fail")
  /\ pending[Head(jobs).window] = NoEntry
  /\ JobDone
  /\ UNCHANGED <<lifeVars, callVars, ahead, entryVars, working, engineVars>>

(* It takes the pending call, cancels the window and flushes the engine.     *)
JobTakesCall ==
  LET w == Head(jobs).window IN
  /\ Turn("fail")
  /\ pending[w] # NoEntry
  /\ working' = pending[w].call
  /\ timer' = timer \ {pending[w].call}
  /\ pending' = [pending EXCEPT ![w] = NoEntry]
  /\ Cancelled({w})
  /\ UNCHANGED <<lifeVars, callVars, stage, ahead, promise, jobs, failed>>

(* The flush settled, either way: the call's promise is rejected.           *)
RejectsUnlessFinal(c) == IF state \in Final THEN promise ELSE [promise EXCEPT ![c] = "rejected"]
Rejects(c) == [promise EXCEPT ![c] = "rejected"]
JobRejectsCall ==
  /\ working # 0
  /\ Drained(window[working])
  /\ FlushReports
  /\ state' = StateAfter(Head(jobs).state)
  /\ promise' = Rejects(working)
  /\ working' = 0
  /\ JobDone
  /\ UNCHANGED <<disposal, aborted, callVars, ahead, timer, pending, out, filling, retrying,
                 generation, disabled, exhausted, requests>>

(* dispose: the pending calls are rejected at once, the rest queues behind   *)
(* the failures: cancel every window, flush, dispose the engine, which       *)
(* cancels and flushes again.                                              *)
Dispose(outcome) ==
  /\ disposal = "none"
  /\ disposal' = "queued"
  /\ state' = StateAfter(outcome)
  /\ promise' = [c \in Call |-> IF c \in Pending THEN "rejected" ELSE promise[c]]
  /\ timer' = timer \ Pending
  /\ pending' = [w \in Windows |-> NoEntry]
  /\ jobs' = Append(jobs, DisposeJob)
  /\ UNCHANGED <<aborted, callVars, stage, ahead, working, engineVars>>

DisposeRuns ==
  /\ Turn("dispose")
  /\ disposal' = "cancelling"
  /\ Cancelled(Windows)
  /\ UNCHANGED <<state, aborted, callVars, stage, ahead, entryVars, jobVars, failed>>

DisposeEnds ==
  /\ disposal = "cancelling"
  /\ \A w \in Windows : Drained(w)
  /\ failed' = {}
  /\ disposal' = "done"
  /\ Cancelled(Windows)
  /\ JobDone
  /\ UNCHANGED <<state, aborted, callVars, ahead, entryVars, working>>

-----------------------------------------------------------------------------
(* The engine.                                                              *)

Requests(w) == out[w] < Cap /\ requests < MaxRequests

(* The top-up of call c may request in window w: it is not disabled, or the  *)
(* loop has started.                                                       *)
MayFill(c) ==
  \/ stage[c] = "scheduling" /\ window[c] \notin disabled
  \/ stage[c] = "filling" /\ (filling[c] > 0 \/ window[c] \notin disabled)

FillIssues(c) ==
  LET w == window[c] IN
  /\ MayFill(c) /\ Requests(w)
  /\ stage' = [stage EXCEPT ![c] = "filling"]
  /\ filling' = [filling EXCEPT ![c] = @ + 1]
  /\ out' = [out EXCEPT ![w] = @ + 1]
  /\ requests' = requests + 1
  /\ UNCHANGED <<lifeVars, callVars, ahead, entryVars, jobVars, retrying, generation,
                 disabled, failed, exhausted>>

(* The loop ends: no room, nothing to request, or a failed send of a request *)
(* settled meanwhile.                                                      *)
FillStops(c) ==
  /\ MayFill(c) \/ stage[c] = "filling"
  /\ stage' = [stage EXCEPT ![c] = "returning"]
  /\ UNCHANGED <<lifeVars, callVars, ahead, entryVars, jobVars, engineVars>>

(* Three ways a request of window w ends, before or after it was sent: n is  *)
(* the change of out[w], k the retry tasks of w that are left.              *)
Settles(w, retry, n, k) ==
  LET last == ~retry /\ w \notin exhausted IN
  /\ Emit(w, <<Terminal(w, retry)>> \o IF last THEN <<Exhausted(w)>> ELSE <<>>)
  /\ exhausted' = IF last THEN exhausted \cup {w} ELSE exhausted
  /\ retrying' = [retrying EXCEPT ![w] = IF retry /\ w \notin disabled THEN k + 1 ELSE k]
  /\ out' = [out EXCEPT ![w] = n]
  /\ UNCHANGED <<generation, disabled, failed>>
Verified(w) ==
  /\ Emit(w, <<Terminal(w, FALSE)>>)
  /\ out' = [out EXCEPT ![w] = @ - 1]
  /\ UNCHANGED <<retrying, generation, disabled, failed, exhausted>>
SaveFails(w, n, k) ==
  /\ Emit(w, <<ErrorEvent(w), Terminal(w, FALSE)>>)
  /\ disabled' = disabled \cup {w}
  /\ failed' = failed \cup {w}
  /\ retrying' = [retrying EXCEPT ![w] = k]
  /\ out' = [out EXCEPT ![w] = n]
  /\ UNCHANGED <<generation, exhausted>>

(* A request of the top-up fails before requestNextPiece returns.            *)
FillFails(c) ==
  LET w == window[c] IN
  /\ MayFill(c) /\ Requests(w)
  /\ stage' = [stage EXCEPT ![c] = "returning"]
  /\ requests' = requests + 1
  /\ \/ \E retry \in BOOLEAN : Settles(w, retry, out[w], retrying[w])
     \/ SaveFails(w, out[w], retrying[w])
  /\ UNCHANGED <<ahead, filling>>

(* A request that has been sent ends.                                       *)
RequestEnds(w) ==
  /\ out[w] > 0
  /\ \/ \E retry \in BOOLEAN : Settles(w, retry, out[w] - 1, retrying[w])
     \/ Verified(w)
     \/ SaveFails(w, out[w] - 1, retrying[w])
  /\ UNCHANGED <<stage, ahead, filling, requests>>

(* A retry task runs: dropped, or a request that is sent or fails.          *)
RetryRuns(w) ==
  LET k == retrying[w] - 1 IN
  /\ retrying[w] > 0
  /\ \A c \in Call : window[c] = w => stage[c] # "filling"
  /\ ahead' = [c \in Call |-> IF window[c] = w /\ ahead[c] > 0 THEN ahead[c] - 1 ELSE ahead[c]]
  /\ \/ /\ retrying' = [retrying EXCEPT ![w] = k]
        /\ UNCHANGED <<lifeVars, callVars, entryVars, jobVars, out, generation, disabled,
                       failed, exhausted, requests>>
     \/ /\ w \notin disabled /\ Requests(w)
        /\ requests' = requests + 1
        /\ \/ /\ retrying' = [retrying EXCEPT ![w] = k]
              /\ out' = [out EXCEPT ![w] = @ + 1]
              /\ UNCHANGED <<lifeVars, callVars, entryVars, jobVars, generation, disabled,
                             failed, exhausted>>
           \/ \E retry \in BOOLEAN : Settles(w, retry, out[w], k)
           \/ SaveFails(w, out[w], k)
  /\ UNCHANGED <<stage, filling>>

(* The page cancels the windows through the public cancelDirectRequests.    *)
CancelByOwner(w) ==
  /\ generation[w] # 0 /\ w \notin disabled
  /\ Emit(w, [i \in 1..out[w] |-> Terminal(w, FALSE)])
  /\ Cancelled({w})
  /\ UNCHANGED <<stage, ahead, failed>>

OwnerFlush ==
  /\ failed # {}
  /\ FlushReports
  /\ UNCHANGED <<lifeVars, callVars, stage, ahead, entryVars, jobVars, out, filling, retrying,
                 generation, disabled, exhausted, requests>>

-----------------------------------------------------------------------------
CallProceeds(c) ==
  \/ FillRefused(c) \/ FillStops(c) \/ ScheduledReturns(c) \/ Rechecked(c) \/ RecheckFails(c)
  \/ ResultResolves(c) \/ ResultRejects(c)
QueueProceeds == JobFindsNothing \/ JobTakesCall \/ JobRejectsCall \/ DisposeRuns \/ DisposeEnds

Next ==
  \/ \E w \in Windows : RequestWindow(w) \/ RequestWindowAgain(w) \/ CancelByOwner(w)
  \/ \E c \in Call : CallProceeds(c) \/ Timeout(c) \/ FillIssues(c) \/ FillFails(c)
  \/ \E w \in Windows : RequestEnds(w) \/ RetryRuns(w)
  \/ QueueProceeds \/ TransportFatal \/ Abort \/ OwnerFlush
  \/ \E o \in Final : Dispose(o)

Spec == Init /\ [][Next]_vars

(* What the runtime and the engine give: continuations run, armed timers     *)
(* fire, and the engine's tasks settle.  Nothing is asked of the provider.  *)
Fairness ==
  /\ \A c \in Call : WF_vars(CallProceeds(c)) /\ WF_vars(Timeout(c))
  /\ \A w \in Windows : WF_vars(RetryRuns(w))
  /\ WF_vars(QueueProceeds)
FairSpec == Spec /\ Fairness

-----------------------------------------------------------------------------
(* Properties.                                                              *)

(* Every variable holds a value of its type.                                *)
TypeOK ==
  /\ state \in Final \cup {"idle", "starting", "running"}
  /\ disposal \in {"none", "queued", "cancelling", "done"}
  /\ calls \in 0..MaxCalls
  /\ window \in [Call -> Windows \cup {"none"}]
  /\ stage \in [Call -> {"none", "scheduling", "filling", "returning", "recheck", "failing",
                         "awaiting", "cleaning", "returned", "threw"}]
  /\ promise \in [Call -> {"open", "resolved", "rejected"}]
  /\ timer \subseteq Call
  /\ \A w \in Windows : /\ pending[w].call \in Call \cup {0}
                        /\ pending[w].scheduled \in 0..MaxRequests
                        /\ pending[w].generation \in Nat /\ pending[w].ended \in 0..MaxRequests
  /\ working \in Call \cup {0}
  /\ ahead \in [Call -> Nat]
  /\ out \in [Windows -> 0..Cap] /\ retrying \in [Windows -> Nat] /\ generation \in [Windows -> Nat]
  /\ filling \in [Call -> Nat]
  /\ disabled \subseteq Windows /\ failed \subseteq disabled /\ exhausted \subseteq Windows
  /\ requests \in 0..MaxRequests /\ aborted \in BOOLEAN

(* A call whose promise is open is still in the pending map, under its own   *)
(* key, or in the hands of the cleanup job that will reject it: no path of   *)
(* failWindow, dispose or completeWindowIfSettled forgets it.               *)
NoForgottenCall ==
  \A c \in 1..calls : promise[c] = "open" => pending[window[c]].call = c \/ working = c

(* A pending call can always still end by itself: its timer is armed or a    *)
(* failWindow for its key is queued.  The engine owes it nothing.           *)
PendingIsGuarded ==
  \A c \in 1..calls : pending[window[c]].call = c =>
    \/ c \in timer
    \/ \E i \in 1..Len(jobs) : jobs[i].kind = "fail" /\ jobs[i].window = window[c]

(* No open call depends on the engine: it is held by someone, and whoever    *)
(* holds it will be told to end it.                                         *)
OpenCallCanEnd == NoForgottenCall /\ PendingIsGuarded

(* When requestWindow throws, the clean-up it promises has happened: its     *)
(* window is cancelled in the engine, or a dispose that will do so is queued *)
(* (its failure, queued before, then found the pending map cleared), and    *)
(* the controller is in a final state, whichever failure got there first.   *)
ThrownMeansCancelled ==
  \A c \in 1..calls : stage[c] = "threw" =>
    state \in Final /\ (window[c] \in disabled \/ disposal = "queued")

(* The clean-up evidence of dispose: once it ended no call is pending, no    *)
(* timer armed and no request outstanding, and nothing starts again.        *)
DisposedIsQuiet ==
  disposal = "done" =>
    /\ timer = {} /\ \A w \in Windows : pending[w] = NoEntry /\ out[w] = 0 /\ retrying[w] = 0
    /\ \A c \in 1..calls : promise[c] # "open"

(* A call or a controller that ended in failure leaves nothing behind.       *)
EndedIsClean == TypeOK /\ ThrownMeansCancelled /\ DisposedIsQuiet

(* Every call of requestWindow ends, though the provider may never answer,   *)
(* terminals may be missed, and a failing window may take long to clean up. *)
CallReturns == \A c \in Call : stage[c] # "none" ~> stage[c] \in {"returned", "threw"}

(* dispose returns, behind whatever failures are queued before it.           *)
ControllerDisposeReturns == disposal = "queued" ~> disposal = "done"
=============================================================================
