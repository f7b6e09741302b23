--------------------------- MODULE DataChannelQueue ---------------------------
(***************************************************************************)
(* The send queue of DataChannelWrapper (packages/webrtc/src/index.ts): a   *)
(* bounded queue, one pump that waits at the high watermark, and the        *)
(* browser's channel below it.  The component is open: whoever extends it   *)
(* says what is sent (Enqueue, QueueStep and ChannelFails are its actions).  *)
(* Sizes stand for bytes; a wait for a microtask is a step of its own.      *)
(***************************************************************************)
EXTENDS Naturals, Sequences, FiniteSets, SequencesExt

CONSTANTS
  High, Low,  \* highWaterMark, lowWaterMark
  Capacity,   \* max(highWaterMark, MIN_PENDING_SEND_BYTES)
  MaxFailures \* bound: close and error events

ASSUME QueueAssumption ==
  {High, Low, Capacity, MaxFailures} \subseteq Nat /\ Low < High /\ High <= Capacity

VARIABLES
  pending,   \* pendingSends
  bytes,     \* pendingSendBytes
  pump,      \* drainSendQueue: idle, or what it waits for
  current,   \* the send it has shifted off the queue, in a sequence
  channel,   \* readyState
  buffer,    \* sends the channel has not put on the wire
  lowEvent,  \* a bufferedamountlow event is on its way
  wire,      \* sends on their way to the receiver
  rejected,  \* sends whose promise was rejected
  failures

queueVars == <<pending, bytes, pump, current, channel, buffer, lowEvent, wire, rejected, failures>>

QueueInit ==
  /\ pending = <<>> /\ bytes = 0 /\ pump = "idle" /\ current = <<>>
  /\ channel = "open" /\ buffer = <<>> /\ lowEvent = FALSE /\ wire = <<>>
  /\ rejected = {} /\ failures = 0

\* One pair per byte.
BytesOf(items) == UNION {{i} \X (1..items[i].size) : i \in DOMAIN items}
Total(items) == Cardinality(BytesOf(items))
BufferedAmount == Total(buffer)

Fits(item) == bytes + item.size <= Capacity

\* enqueueSend: the promise of a send that does not fit is rejected at once.
Enqueue(item) ==
  /\ IF Fits(item)
     THEN pending' = Append(pending, item) /\ bytes' = bytes + item.size /\ UNCHANGED rejected
     ELSE rejected' = rejected \cup {item} /\ UNCHANGED <<pending, bytes>>
  /\ UNCHANGED <<pump, current, channel, buffer, lowEvent, wire, failures>>

\* One turn of drainSendQueue up to its await: waitForWritable.
PumpTakes ==
  /\ pump = "idle" /\ pending # <<>>
  /\ current' = <<Head(pending)>> /\ pending' = Tail(pending)
  /\ pump' = IF channel = "open" /\ BufferedAmount >= High THEN "waiting" ELSE "sending"
  /\ UNCHANGED <<bytes, channel, buffer, lowEvent, wire, rejected, failures>>

PumpSends ==
  /\ pump = "sending"
  /\ pump' = "idle" /\ current' = <<>> /\ bytes' = bytes - Total(current)
  /\ IF channel = "open"
     THEN buffer' = buffer \o current /\ UNCHANGED rejected
     ELSE rejected' = rejected \cup ToSet(current) /\ UNCHANGED buffer
  /\ UNCHANGED <<pending, channel, lowEvent, wire, failures>>

\* The browser sends from its buffer, and fires bufferedamountlow when the
\* amount falls from above bufferedAmountLowThreshold to it or below.
FallsToDefault == Total(Tail(buffer)) = 0
FallsToLow == BufferedAmount > Low /\ Total(Tail(buffer)) <= Low
BufferDrains ==
  /\ channel = "open" /\ buffer # <<>>
  /\ buffer' = Tail(buffer) /\ wire' = Append(wire, Head(buffer))
  /\ lowEvent' = (lowEvent \/ FallsToLow)
  /\ UNCHANGED <<pending, bytes, pump, current, channel, rejected, failures>>

IsLowStrict == BufferedAmount < Low
IsLow == BufferedAmount <= Low

HandleDrain ==
  /\ lowEvent /\ lowEvent' = FALSE
  /\ pump' = IF pump = "waiting" /\ IsLow THEN "sending" ELSE pump
  /\ UNCHANGED <<pending, bytes, current, channel, buffer, wire, rejected, failures>>

\* handleClose, handleError and dispose: the waiter and the queue are rejected;
\* a send that is past its wait finds out by itself.
Dropped == bytes - Total(pending)
ChannelFails ==
  /\ channel = "open" /\ failures < MaxFailures /\ failures' = failures + 1
  /\ \E state \in {"open", "closed"} :
       /\ channel' = state
       /\ buffer' = IF state = "open" THEN buffer ELSE <<>>
       /\ wire' = IF state = "open" THEN wire ELSE <<>>
  /\ pending' = <<>>
  /\ IF pump = "waiting"
     THEN /\ pump' = "idle" /\ current' = <<>>
          /\ rejected' = rejected \cup ToSet(pending) \cup ToSet(current)
          /\ bytes' = Dropped - Total(current)
     ELSE /\ rejected' = rejected \cup ToSet(pending) /\ bytes' = Dropped
          /\ UNCHANGED <<pump, current>>
  /\ UNCHANGED lowEvent

QueueStep == PumpTakes \/ PumpSends \/ BufferDrains \/ HandleDrain

-----------------------------------------------------------------------------
(* Properties of the queue, for whoever extends it.                        *)

(* The byte counter that bounds the queue is reduced by a send, by a failed  *)
(* send and by the bulk rejection at close, which overlap: it stays equal to *)
(* what is queued or being sent.                                            *)
BytesAreExact == bytes = Total(pending) + Total(current) /\ bytes <= Capacity

(* No lost wake-up: a pump that waits for the buffer to drain will be woken, *)
(* since the amount is above the low mark or the event has been fired.      *)
WaiterIsWoken == pump = "waiting" => channel = "open" /\ (BufferedAmount > Low \/ lowEvent)
=============================================================================
