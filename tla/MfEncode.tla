------------------------------ MODULE MfEncode ------------------------------
(***************************************************************************)
(* run_mf_gpu_encode (crates/sender/src/lib.rs) with AsyncMfEncoder        *)
(* (mf_encoder.rs): one thread renders pictures, queues them and pumps the *)
(* events of an asynchronous Media Foundation transform, which asks for    *)
(* every input, reads the texture when it comes to it, and announces every *)
(* output.                                                                 *)
(*                                                                         *)
(* The transform and its event queue are external and run on their own.    *)
(* It reads a texture whenever it comes to it, and sees what is in it then. *)
(*                                                                         *)
(* A sample also notes, for the properties, how many calls of convert()    *)
(* had failed when it was queued; torn says that the transform has read a  *)
(* texture into which another picture had been rendered meanwhile.         *)
(*                                                                         *)
(* Abstracted: samples and media types, clocks, the contents of an access  *)
(* unit but for the picture it shows.                                      *)
(***************************************************************************)
EXTENDS GpuLoop, Sequences, FiniteSets

CONSTANTS
  Ahead,          \* how many pictures may be queued (2 in the code)
  MftDepth,       \* how many the transform takes before it has encoded one
  MaxFailures,    \* bound: calls of convert() that fail
  PumpLimit,      \* events handled by one call of pump (32, in finish 64)
  FinishRounds    \* calls of pump in finish (100 in the code)

ASSUME MfAssumption ==
  /\ Ahead \in Nat /\ MftDepth \in Nat /\ MaxFailures \in Nat
  /\ PumpLimit \in Nat \ {0} /\ FinishRounds \in Nat \ {0}

VARIABLES
  (* AsyncMfEncoder. *)
  tex_queue,
  pending,       \* pending_need_input
  finished,
  collected,     \* the units pump or finish have collected
  iters,         \* events this call of pump may still handle
  rounds,        \* calls of pump that finish may still make
  failures,
  (* The transform. *)
  events,
  granted,       \* inputs it has asked for and not been given
  reading,       \* inputs it has and has not read
  ready,         \* outputs not yet fetched: a picture, or 0 for a new type
  renegotiated,
  stream,        \* "open", "ending" when it was told so, or "drained"
  torn           \* history: it has read a texture rendered into again

mftVars == <<events, granted, reading, ready, renegotiated, stream, torn>>
pumpVars == <<tex_queue, pending, finished, collected, iters, rounds>>
mfVars == <<pumpVars, failures, mftVars>>

----------------------------------------------------------------------------
(* The transform (external).                                                *)

Announce(e) == events' = Append(events, e)

MftAsks ==
  /\ stream = "open"
  /\ granted + Len(reading) < MftDepth
  /\ granted' = granted + 1
  /\ Announce("need")
  /\ UNCHANGED <<reading, ready, renegotiated, stream, torn>>

Holds(s) == ring[s.slot] = s.frame

MftEncodes ==
  /\ reading # <<>>
  /\ reading' = Tail(reading)
  /\ ready' = Append(ready, ring[Head(reading).slot])
  /\ torn' = (torn \/ ~Holds(Head(reading)))
  /\ Announce("have")
  /\ UNCHANGED <<granted, renegotiated, stream>>

(* Once, when it has seen input, it may want another output type.           *)
MftRenegotiates ==
  /\ ~renegotiated /\ reading # <<>>
  /\ ready' = Append(ready, 0)
  /\ Announce("have")
  /\ renegotiated' = TRUE
  /\ UNCHANGED <<granted, reading, stream, torn>>

(* It may answer the end of the stream, once all it was given is encoded.   *)
MftDrains ==
  /\ stream = "ending"
  /\ reading = <<>>
  /\ stream' = "drained"
  /\ Announce("drained")
  /\ UNCHANGED <<granted, reading, ready, renegotiated, torn>>

----------------------------------------------------------------------------
(* The loop.                                                                *)

BeginPump == loop' = "pump" /\ iters' = PumpLimit

Sample == [frame |-> calls', slot |-> ring_index', failures |-> failures]

(* Mutant: one picture more.                                                *)
ConvertAndEnqueue_OneMore ==
  /\ loop = "top" /\ ~shutdown
  /\ Len(tex_queue) <= Ahead
  /\ calls < MaxCalls
  /\ Convert
  /\ tex_queue' = Append(tex_queue, Sample)
  /\ BeginPump
  /\ UNCHANGED <<shutdown, sentVars, pending, finished, collected, rounds, failures, mftVars>>

ConvertAndEnqueue ==
  /\ loop = "top" /\ ~shutdown
  /\ Len(tex_queue) < Ahead
  /\ calls < MaxCalls
  /\ Convert
  /\ tex_queue' = Append(tex_queue, Sample)
  /\ BeginPump
  /\ UNCHANGED <<shutdown, sentVars, pending, finished, collected, rounds, failures, mftVars>>

(* The loop goes round without a call of pump; the ring has moved on.       *)
GpuConvertFails ==
  /\ loop = "top" /\ ~shutdown
  /\ Len(tex_queue) < Ahead
  /\ failures < MaxFailures /\ calls < MaxCalls
  /\ failures' = failures + 1
  /\ ConvertFails
  /\ UNCHANGED <<loopVars, pumpVars, mftVars>>

(* Enough is queued (or the bound on calls is reached).                     *)
SkipConvert ==
  /\ loop = "top" /\ ~shutdown
  /\ Len(tex_queue) >= Ahead \/ calls = MaxCalls
  /\ BeginPump
  /\ UNCHANGED <<converterVars, shutdown, sentVars, tex_queue, pending, finished,
                 collected, rounds, failures, mftVars>>

(* The first transform of three that opens on the device, or none.          *)
MfOpens ==
  /\ loop = "mf_open"
  /\ loop' \in {"top", "done"}
  /\ UNCHANGED <<converterVars, shutdown, sentVars, pumpVars, failures, mftVars>>

(* finish() tells the transform and begins the first of its rounds.         *)
BeginFinish ==
  /\ loop' = "finish"
  /\ stream' = "ending"
  /\ collected' = <<>>
  /\ iters' = PumpLimit /\ rounds' = FinishRounds

MfSeesShutdown ==
  /\ loop = "top" /\ shutdown
  /\ BeginFinish
  /\ UNCHANGED <<converterVars, shutdown, sentVars, tex_queue, pending, finished,
                 failures, events, granted, reading, ready, renegotiated, torn>>

(* enqueue_texture fails; the picture is lost.                              *)
EnqueueFails ==
  /\ loop = "top" /\ ~shutdown
  /\ Len(tex_queue) < Ahead
  /\ calls < MaxCalls
  /\ Convert
  /\ BeginFinish
  /\ UNCHANGED <<shutdown, sentVars, tex_queue, pending, finished, failures,
                 events, granted, reading, ready, renegotiated, torn>>

(* finish() pumps with an empty queue of its own.                           *)
InputQueue == IF loop = "finish" THEN <<>> ELSE tex_queue

Pumping == loop \in {"pump", "finish"} /\ iters > 0

(* Mutant: the one queued last goes first.                                  *)
Submit_Last ==
  /\ reading' = Append(reading, tex_queue[Len(tex_queue)])
  /\ tex_queue' = SubSeq(tex_queue, 1, Len(tex_queue) - 1)
  /\ granted' = granted - 1

(* ProcessInput with the first of the queue.                                *)
Submit ==
  /\ reading' = Append(reading, Head(tex_queue))
  /\ tex_queue' = Tail(tex_queue)
  /\ granted' = granted - 1

Deferred == pending > 0 /\ InputQueue # <<>>

(* Requests that came when the queue was empty come first.                  *)
ServeDeferred ==
  /\ Pumping /\ Deferred
  /\ Submit
  /\ pending' = pending - 1
  /\ UNCHANGED <<converterVars, loopVars, finished, collected, iters, rounds,
                 failures, events, ready, renegotiated, stream, torn>>

(* GetEvent without waiting.                                                *)
GetEvent(e) ==
  /\ Pumping /\ ~Deferred
  /\ events # <<>> /\ Head(events) = e
  /\ events' = Tail(events)
  /\ iters' = iters - 1

(* Mutant: a request that finds the queue empty is forgotten.               *)
NeedInput_Forgotten ==
  /\ GetEvent("need")
  /\ IF InputQueue # <<>> THEN Submit ELSE UNCHANGED <<reading, tex_queue, granted>>
  /\ UNCHANGED <<converterVars, loopVars, pending, finished, collected, rounds,
                 failures, ready, renegotiated, stream, torn>>

NeedInput ==
  /\ GetEvent("need")
  /\ IF InputQueue # <<>>
     THEN Submit /\ UNCHANGED pending
     ELSE pending' = pending + 1 /\ UNCHANGED <<reading, tex_queue, granted>>
  /\ UNCHANGED <<converterVars, loopVars, finished, collected, rounds,
                 failures, ready, renegotiated, stream, torn>>

(* drain_one_output: a change of type is accepted and gives no unit.        *)
HaveOutput ==
  /\ GetEvent("have")
  /\ ready' = Tail(ready)
  /\ collected' = IF Head(ready) = 0 THEN collected ELSE Append(collected, Head(ready))
  /\ UNCHANGED <<converterVars, loopVars, tex_queue, pending, finished, rounds,
                 failures, granted, reading, renegotiated, stream, torn>>

DrainComplete ==
  /\ GetEvent("drained")
  /\ finished' = TRUE
  /\ UNCHANGED <<converterVars, loopVars, tex_queue, pending, collected, rounds,
                 failures, granted, reading, ready, renegotiated, stream, torn>>

pumpLeaves == <<converterVars, shutdown, sentVars, tex_queue, pending, finished, failures>>

RoundOver == iters = 0 \/ (events = <<>> /\ ~Deferred)

PumpReturns ==
  /\ loop = "pump" /\ RoundOver
  /\ loop' = "send"
  /\ UNCHANGED <<pumpLeaves, collected, iters, rounds, mftVars>>

(* Mutant: it waits for the transform to say that it has drained.           *)
FinishRound_Waits ==
  /\ loop = "finish" /\ RoundOver
  /\ IF finished
     THEN loop' = "send_tail" /\ UNCHANGED <<iters, rounds>>
     ELSE iters' = PumpLimit /\ UNCHANGED <<loop, rounds>>
  /\ UNCHANGED <<pumpLeaves, collected, mftVars>>

FinishRound ==
  /\ loop = "finish" /\ RoundOver
  /\ IF finished \/ rounds = 1
     THEN loop' = "send_tail" /\ UNCHANGED <<iters, rounds>>
     ELSE rounds' = rounds - 1 /\ iters' = PumpLimit /\ UNCHANGED loop
  /\ UNCHANGED <<pumpLeaves, collected, mftVars>>

(* A call fails: GetEvent, ProcessInput, which has taken the sample from    *)
(* the queue and perhaps the request from the events, or ProcessOutput.     *)
CallFails ==
  \/ ~Deferred /\ UNCHANGED <<events, tex_queue>>
  \/ Deferred /\ tex_queue' = Tail(tex_queue) /\ UNCHANGED events
  \/ /\ ~Deferred /\ events # <<>>
     /\ events' = Tail(events)
     /\ \/ Head(events) = "need" /\ InputQueue # <<>> /\ tex_queue' = Tail(tex_queue)
        \/ Head(events) = "have" /\ UNCHANGED tex_queue

(* With it what was collected since pump, or finish, began is lost.         *)
PumpFails ==
  /\ loop = "pump" /\ iters > 0
  /\ CallFails
  /\ BeginFinish
  /\ UNCHANGED <<converterVars, shutdown, sentVars, pending, finished, failures,
                 granted, reading, ready, renegotiated, torn>>

FinishFails ==
  /\ loop = "finish" /\ iters > 0
  /\ CallFails
  /\ loop' = "done"
  /\ collected' = <<>>
  /\ UNCHANGED <<converterVars, shutdown, sentVars, pending, finished, failures, iters, rounds,
                 granted, reading, ready, renegotiated, stream, torn>>

(* try_send: a unit that does not fit is dropped.                           *)
SendUnit ==
  /\ loop \in {"send", "send_tail"} /\ collected # <<>>
  /\ collected' = Tail(collected)
  /\ TrySendUnit(Head(collected))
  /\ UNCHANGED <<converterVars, loop, shutdown, tex_queue, pending, finished, iters,
                 rounds, failures, mftVars>>

AllSent ==
  /\ loop \in {"send", "send_tail"} /\ collected = <<>>
  /\ loop' = IF loop = "send" THEN "top" ELSE "done"
  /\ UNCHANGED <<pumpLeaves, collected, iters, rounds, mftVars>>

----------------------------------------------------------------------------
MfInit ==
  /\ tex_queue = <<>> /\ pending = 0 /\ finished = FALSE /\ collected = <<>>
  /\ iters = 0 /\ rounds = 0 /\ failures = 0
  /\ events = <<>> /\ granted = 0 /\ reading = <<>> /\ ready = <<>>
  /\ renegotiated = FALSE /\ stream = "open" /\ torn = FALSE

(* It exists from when it is opened until the thread drops it.              *)
MftSteps ==
  /\ loop \notin {"unborn", "mf_open", "done"}
  /\ MftAsks \/ MftEncodes \/ MftRenegotiates \/ MftDrains
  /\ UNCHANGED <<converterVars, loopVars, pumpVars, failures>>

Pump == ServeDeferred \/ NeedInput \/ HaveOutput \/ DrainComplete
MfLoop ==
  \/ MfOpens \/ ConvertAndEnqueue \/ SkipConvert \/ MfSeesShutdown
  \/ Pump \/ PumpReturns \/ FinishRound \/ SendUnit \/ AllSent
MfTroubles == GpuConvertFails \/ EnqueueFails \/ PumpFails \/ FinishFails

MfNext == MfLoop \/ MfTroubles \/ MftSteps

----------------------------------------------------------------------------
Samples == [frame : Nat, slot : Slots, failures : Nat]

MfTypeOK ==
  /\ tex_queue \in Seq(Samples) /\ reading \in Seq(Samples)
  /\ pending \in Nat /\ granted \in Nat
  /\ finished \in BOOLEAN /\ renegotiated \in BOOLEAN /\ torn \in BOOLEAN
  /\ stream \in {"open", "ending", "drained"}
  /\ collected \in Seq(Nat) /\ ready \in Seq(Nat)
  /\ iters \in 0 .. PumpLimit /\ rounds \in 0 .. FinishRounds
  /\ failures \in 0 .. MaxFailures
  /\ events \in Seq({"need", "have", "drained"})

FailuresSince(s) == failures - s.failures

(* When a texture lent to the transform is safe.  The loop counts only what *)
(* it has queued, so the ring leaves Ring - Ahead textures for all the rest *)
(* that makes it go round: a queued picture is in its texture unless more   *)
(* conversions than that have failed since, and one that the transform has  *)
(* unless the transform holds so many unread ones from it on, with the      *)
(* failures, that they exceed them.                                         *)
QueuedSurfacesIntact ==
  /\ \A i \in 1 .. Len(tex_queue) :
       Ahead + FailuresSince(tex_queue[i]) <= Ring => Holds(tex_queue[i])
  /\ \A i \in 1 .. Len(reading) :
       Ahead + (Len(reading) - i + 1) + FailuresSince(reading[i]) <= Ring => Holds(reading[i])

(* "Cap convert-ahead at 2 frames so we never overwrite an NV12 ring slot   *)
(* the encoder still references", without that condition.                   *)
NeverOverwritten ==
  /\ \A i \in 1 .. Len(tex_queue) : Holds(tex_queue[i])
  /\ \A i \in 1 .. Len(reading) : Holds(reading[i])

NeedsUnder(q) == {i \in 1 .. Len(q) : q[i] = "need"}

Finishing == loop \in {"finish", "send_tail", "done"}

(* No request for input is lost or answered twice, also one that came when  *)
(* nothing was queued: while the loop runs those deferred, and those not    *)
(* yet handled, are exactly the ones the transform waits for.  It accepts   *)
(* no other input.                                                          *)
RequestsAreAccountedFor ==
  /\ ~Finishing => granted = pending + Cardinality(NeedsUnder(events))
  /\ granted + Len(reading) <= MftDepth

Waiting == tex_queue # <<>> \/ reading # <<>>

(* A picture once queued goes to the transform and is encoded, or the loop  *)
(* comes to its end: no request for input is forgotten while the transform  *)
(* waits for it.  (No more are queued once the bound on calls is met, so if *)
(* none is forgotten nothing is in flight in the end.)                      *)
QueuedIsEncoded == Waiting ~> ~Waiting \/ Finishing
=============================================================================
