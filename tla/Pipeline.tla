------------------------------ MODULE Pipeline ------------------------------
(***************************************************************************)
(* One run of the sender's pipeline (crates/sender/src/lib.rs): start()    *)
(* with the attempt at the GPU path and the fall back to the CPU path, the *)
(* threads and tasks of either path, and their end.  Workers are a label   *)
(* each, pc; an action is the code between two waits.  They communicate    *)
(* through bounded channels whose closing, when the last sender or the     *)
(* receiver goes out of scope, is how one worker's end reaches the next.   *)
(*                                                                         *)
(* Frames are counted, and only where they are; a queued access unit is    *)
(* the number of connections there had been when its encoder queued it.  A *)
(* channel whose receiver is gone is kept empty.                           *)
(*                                                                         *)
(* Abstracted: pixels, settings, clocks, the Publishing heartbeats.  A     *)
(* grab or a conversion that fails is tried again and changes nothing      *)
(* here.                                                                   *)
(***************************************************************************)
EXTENDS Naturals, Sequences

CONSTANTS
  Encoders,       \* what encoding on the CPU path may turn out to be
  FrameDepth,     \* capacity of the frame channel (2 in the code)
  AuDepth,        \* AU_CHANNEL_DEPTH
  QueueDepth,     \* input queue of run_async_mf (4 in the code)
  EncoderDepth,   \* how many frames an encoder, with its pipes, may hold
  MaxRequests,    \* how many inputs an asynchronous encoder asks for ahead
  MaxAttempts,    \* bound: connections attempted
  Retrying        \* bound: the encoders with which more than one is

Kinds == {"ffmpeg", "mf_sync", "mf_async", "missing"}
Paths == {"gpu", "cpu"}
Workers == {"capture", "writer", "encoder", "gpu", "publisher", "orchestrator"}

ASSUME PipelineAssumption ==
  /\ Encoders \subseteq Kinds
  /\ \A n \in {FrameDepth, AuDepth, QueueDepth, MaxRequests} :
       n \in Nat \ {0}
  /\ EncoderDepth \in Nat /\ EncoderDepth >= 2
  /\ MaxAttempts \in Nat /\ Retrying \subseteq Kinds

VARIABLES
  (* Pipeline::start and its caller. *)
  phase,        \* where start() is
  path,         \* the path it committed to, or "none"
  init,         \* what the GPU worker sent through init_tx
  owner,        \* "none", "holding" the Pipeline or "dropped" it
  shutdown,     \* the flag of each path
  told,         \* the events sent
  (* Workers and what they share. *)
  pc,
  encoder,      \* the kind of encoder on the CPU path
  ffmpeg,       \* the process is alive
  frames,       \* how many are in the frame channel
  queue,        \* how many run_async_mf has taken, but not yet its encoder
  requests,     \* pending_need_input
  inside,       \* how many the encoder was given and whose unit is not out
  aus,          \* the access unit channel
  (* publisher_worker. *)
  attempt,
  connections,  \* how many attempts succeeded
  pump          \* the tasks of Publisher::connect: "none", "up" or why they ended

startVars == <<phase, path, init>>
codecVars == <<frames, queue, requests, inside, ffmpeg>>
publisherVars == <<attempt, connections, pump>>
publisherLeaves == <<startVars, owner, shutdown, encoder, codecVars>>
codecLeaves == <<startVars, owner, shutdown, told, publisherVars>>
vars == <<phase, path, init, owner, shutdown, told, pc, encoder, ffmpeg,
          frames, queue, requests, inside, aus, attempt, connections, pump>>

Event == INSTANCE PipelinePromise WITH
           Numbers <- 1 .. MaxAttempts,
           asked <- path # "none" /\ shutdown[path],
           owned <- owner = "holding",
           over <- pc["orchestrator"] = "done" /\ pc["publisher"] = "done"

Goto(w, label) == pc' = [pc EXCEPT ![w] = label]
Return(w) == Goto(w, "done")

Least(m, n) == IF m < n THEN m ELSE n
First(n, s) == SubSeq(s, 1, Least(n, Len(s)))

----------------------------------------------------------------------------
(* Channels.                                                                *)

(* events_tx.send(..).await: fails without a receiver, which every caller  *)
(* ignores.  It would wait with 64 events unread, but both owners read all  *)
(* the time.                                                                *)
Tell(e) == told' = IF owner = "holding" THEN Append(told, e) ELSE told

(* Whether the units of a path have a receiver.  start() holds it while it *)
(* waits for the GPU worker.                                                *)
Receives(p) ==
  /\ pc["publisher"] # "done"
  /\ path = p \/ (p = "gpu" /\ phase = "gpu_wait")

Fresh(n) == [i \in 1 .. n |-> connections]

(* Mutants: send instead of try_send; a channel without a bound.            *)
TrySend_Waits(p, n) ==
  /\ Receives(p) => Len(aus) + n <= AuDepth
  /\ aus' = IF Receives(p) THEN aus \o Fresh(n) ELSE aus

TrySend_Unbounded(p, n) == aus' = IF Receives(p) THEN aus \o Fresh(n) ELSE aus

(* au_tx.try_send of n units: what does not fit is dropped.                 *)
TrySend(p, n) == aus' = IF Receives(p) THEN First(AuDepth, aus \o Fresh(n)) ELSE aus

(* An encoder that now has n frames lets some of the units out.             *)
EncoderHolds(p, n) ==
  \E out \in 0 .. n :
    /\ n - out <= EncoderDepth
    /\ inside' = n - out
    /\ TrySend(p, out)

(* encoder.finish(): the tail, or nothing if that fails.                    *)
EncoderFinishes(p) ==
  /\ \E tail \in {0, inside} : TrySend(p, tail)
  /\ inside' = 0

FrameReader == IF encoder = "ffmpeg" THEN "writer" ELSE "encoder"
FramesAreRead == pc[FrameReader] # "done"
FramesEnded == frames = 0 /\ pc["capture"] = "done"
AusEnded == aus = <<>> /\ pc[IF path = "gpu" THEN "gpu" ELSE "encoder"] = "done"

----------------------------------------------------------------------------
(* Pipeline::start.                                                         *)

(* The room is given or minted.  A Spout source is tried on the GPU first,  *)
(* any other source is opened for the CPU path.                             *)
ResolveRoom ==
  /\ phase = "resolving"
  /\ phase' \in {"probing", "opening", "failed"}
  /\ UNCHANGED <<path, init, owner, shutdown, told, pc, encoder, codecVars, aus, publisherVars>>

GpuNotViable ==
  /\ phase = "probing"
  /\ phase' = "opening"
  /\ UNCHANGED <<path, init, owner, shutdown, told, pc, encoder, codecVars, aus, publisherVars>>

SpawnGpuWorker ==
  /\ phase = "probing"
  /\ phase' = "gpu_wait"
  /\ Goto("gpu", "init")
  /\ UNCHANGED <<path, init, owner, shutdown, told, encoder, codecVars, aus, publisherVars>>

CommitToGpu ==
  /\ phase = "gpu_wait" /\ init = "ok"
  /\ phase' = "running" /\ path' = "gpu"
  /\ told' = <<Event!Started>>
  /\ owner' = "holding"
  /\ pc' = [pc EXCEPT !["publisher"] = "top", !["orchestrator"] = "select"]
  /\ UNCHANGED <<init, shutdown, encoder, codecVars, aus, publisherVars>>

(* The worker failed, or ten seconds have passed without a word of it.  The *)
(* receivers of its channels are dropped.                                   *)
GiveUpGpu ==
  /\ phase = "gpu_wait" /\ init # "ok"
  /\ shutdown' = [shutdown EXCEPT !["gpu"] = TRUE]
  /\ phase' = "opening"
  /\ init' = "pending" /\ aus' = <<>> /\ inside' = 0
  /\ UNCHANGED <<path, owner, told, pc, encoder, ffmpeg, frames, queue,
                 requests, publisherVars>>

NoSource ==
  /\ phase = "opening"
  /\ phase' = "failed"
  /\ UNCHANGED <<path, init, owner, shutdown, told, pc, encoder, codecVars, aus, publisherVars>>

OpenSource ==
  /\ phase = "opening"
  /\ phase' = "running" /\ path' = "cpu"
  /\ told' = <<Event!Started>>
  /\ owner' = "holding"
  /\ Goto("orchestrator", "spawn")
  /\ UNCHANGED <<init, shutdown, encoder, codecVars, aus, publisherVars>>

(* orchestrate() up to its select.  When ffmpeg cannot be started, or no MF *)
(* encoder can be opened, the encoder tasks are over at once.               *)
Spawn ==
  /\ pc["orchestrator"] = "spawn"
  /\ \E e \in Encoders :
       /\ encoder' = e
       /\ ffmpeg' = (e = "ffmpeg")
       /\ pc' = [pc EXCEPT !["capture"] = "loop",
                           !["writer"] = IF e = "ffmpeg" THEN "loop" ELSE "unborn",
                           !["encoder"] = IF e = "missing" THEN "done" ELSE "loop",
                           !["publisher"] = "top",
                           !["orchestrator"] = "select"]
  /\ UNCHANGED <<codecLeaves, frames, queue, requests, inside, aus>>

(* select! on the join handles of the path's workers.                       *)
SomeWorkerEnded ==
  \E w \in Workers \ {"orchestrator"} :
    /\ pc[w] = "done"
    /\ path = "cpu" => w # "gpu"

StopAll ==
  /\ pc["orchestrator"] = "select"
  /\ SomeWorkerEnded
  /\ shutdown' = [shutdown EXCEPT ![path] = TRUE]
  /\ Goto("orchestrator", "sleep")
  /\ UNCHANGED <<startVars, owner, told, encoder, codecVars, aus, publisherVars>>

(* Mutant: it joins the other workers first.                                *)
TellStopped_Joins ==
  /\ pc["orchestrator"] = "sleep"
  /\ \A w \in Workers \ {"orchestrator"} : pc[w] \in {"unborn", "done"}
  /\ Tell(Event!Stopped)
  /\ Return("orchestrator")
  /\ UNCHANGED <<startVars, owner, shutdown, encoder, codecVars, aus, publisherVars>>

(* After 200 ms, whoever is still at work.                                  *)
TellStopped ==
  /\ pc["orchestrator"] = "sleep"
  /\ Tell(Event!Stopped)
  /\ Return("orchestrator")
  /\ UNCHANGED <<startVars, owner, shutdown, encoder, codecVars, aus, publisherVars>>

----------------------------------------------------------------------------
(* The capture thread.                                                      *)

Grab ==
  /\ pc["capture"] = "loop"
  /\ ~shutdown["cpu"]
  /\ Goto("capture", "send")
  /\ UNCHANGED <<codecLeaves, encoder, codecVars, aus>>

SendFrame ==
  /\ pc["capture"] = "send"
  /\ FramesAreRead
  /\ frames < FrameDepth
  /\ frames' = frames + 1
  /\ Goto("capture", "loop")
  /\ UNCHANGED <<codecLeaves, encoder, ffmpeg, queue, requests, inside, aus>>

CaptureEnds ==
  /\ \/ pc["capture"] = "loop" /\ shutdown["cpu"]
     \/ pc["capture"] = "send" /\ ~FramesAreRead
  /\ Return("capture")
  /\ UNCHANGED <<codecLeaves, encoder, codecVars, aus>>

----------------------------------------------------------------------------
(* spawn_ffmpeg_encode.  `inside' is what is in the pipes, in ffmpeg and,  *)
(* its first, in the parser, which lets a unit out when the next begins.    *)

WriteFrame ==
  /\ pc["writer"] = "loop"
  /\ frames > 0 /\ ffmpeg
  /\ inside < EncoderDepth
  /\ frames' = frames - 1
  /\ inside' = inside + 1
  /\ UNCHANGED <<codecLeaves, pc, encoder, ffmpeg, queue, requests, aus>>

(* What the process had not written when it died is lost.                   *)
FfmpegIsGone ==
  /\ ffmpeg' = FALSE
  /\ IF ffmpeg THEN inside' \in 0 .. inside ELSE UNCHANGED inside

(* Mutant: the process outlives the writer.                                 *)
WriterEnds_KeepsChild ==
  /\ pc["writer"] = "loop"
  /\ FramesEnded \/ (frames > 0 /\ ~ffmpeg)
  /\ Return("writer")
  /\ frames' = 0
  /\ UNCHANGED <<codecLeaves, encoder, ffmpeg, inside, queue, requests, aus>>

(* Dropping the Child kills the process (kill_on_drop).                     *)
WriterEnds ==
  /\ pc["writer"] = "loop"
  /\ FramesEnded \/ (frames > 0 /\ ~ffmpeg)
  /\ Return("writer")
  /\ frames' = 0
  /\ FfmpegIsGone
  /\ UNCHANGED <<codecLeaves, encoder, queue, requests, aus>>

(* A writer in the middle of a frame finds out at once, one that waits for *)
(* a frame when it has the next.                                            *)
FfmpegCrashes ==
  /\ ffmpeg
  /\ FfmpegIsGone
  /\ \/ UNCHANGED <<pc, frames>>
     \/ Return("writer") /\ frames' = 0
  /\ UNCHANGED <<codecLeaves, encoder, queue, requests, aus>>

ReadUnit ==
  /\ encoder = "ffmpeg" /\ pc["encoder"] = "loop"
  /\ inside > 1
  /\ TrySend("cpu", 1)
  /\ inside' = inside - 1
  /\ UNCHANGED <<codecLeaves, pc, encoder, ffmpeg, frames, queue, requests>>

ReaderEnds ==
  /\ encoder = "ffmpeg" /\ pc["encoder"] = "loop"
  /\ ~ffmpeg /\ inside <= 1
  /\ TrySend("cpu", inside)
  /\ inside' = 0
  /\ Return("encoder")
  /\ UNCHANGED <<codecLeaves, encoder, ffmpeg, frames, queue, requests>>

----------------------------------------------------------------------------
(* spawn_mf_encode: run_sync_mf and run_async_mf.                           *)

EncodeSync ==
  /\ encoder = "mf_sync" /\ pc["encoder"] = "loop"
  /\ frames > 0
  /\ frames' = frames - 1
  /\ EncoderHolds("cpu", inside + 1)
  /\ UNCHANGED <<codecLeaves, pc, encoder, ffmpeg, queue, requests>>

(* One round of the loop: fill the queue without waiting, then pump, which *)
(* serves requests for input, those outstanding and the new ones, and       *)
(* collects output.  Only without frames and requests does it wait.         *)
EncodeAsync(asks) ==
  LET taken    == Least(QueueDepth - queue, frames)
      filled   == queue + taken
      wanted   == requests + asks
      consumed == Least(wanted, filled)
  IN  /\ encoder = "mf_async" /\ pc["encoder"] = "loop"
      /\ filled > 0 \/ requests > 0
      /\ wanted - consumed <= MaxRequests
      /\ frames' = frames - taken
      /\ queue' = filled - consumed
      /\ requests' = wanted - consumed
      /\ EncoderHolds("cpu", inside + consumed)
      /\ UNCHANGED <<codecLeaves, pc, encoder, ffmpeg>>

MfReturns ==
  /\ EncoderFinishes("cpu")
  /\ Return("encoder")
  /\ frames' = 0 /\ queue' = 0 /\ requests' = 0
  /\ UNCHANGED <<codecLeaves, encoder, ffmpeg>>

(* blocking_recv returns None.  run_async_mf calls it only when it has      *)
(* nothing queued and its encoder asks for nothing.                         *)
MfEnds ==
  /\ encoder \in {"mf_sync", "mf_async"} /\ pc["encoder"] = "loop"
  /\ FramesEnded
  /\ encoder = "mf_async" => queue = 0 /\ requests = 0
  /\ MfReturns

MfFails ==
  /\ encoder \in {"mf_sync", "mf_async"} /\ pc["encoder"] = "loop"
  /\ frames > 0 \/ queue > 0 \/ requests > 0
  /\ MfReturns

----------------------------------------------------------------------------
(* gpu_encode_loop, with run_nvenc_encode or run_mf_gpu_encode.             *)

(* The oneshot channel to start(), which may have stopped waiting.          *)
InitTx(result) == init' = IF phase = "gpu_wait" THEN result ELSE init

GpuInitFails ==
  /\ pc["gpu"] = "init"
  /\ InitTx("failed")
  /\ Return("gpu")
  /\ UNCHANGED <<phase, path, owner, shutdown, told, encoder, codecVars, aus,
                 publisherVars>>

(* NVENC has encoded a first frame by then and sends its unit.              *)
GpuInitSucceeds ==
  /\ pc["gpu"] = "init"
  /\ InitTx("ok")
  /\ Goto("gpu", "loop")
  /\ UNCHANGED aus \/ TrySend("gpu", 1)
  /\ UNCHANGED <<phase, path, owner, shutdown, told, encoder, codecVars, publisherVars>>

EncodeOnGpu ==
  /\ pc["gpu"] = "loop"
  /\ ~shutdown["gpu"]
  /\ EncoderHolds("gpu", inside + 1)
  /\ UNCHANGED <<codecLeaves, pc, encoder, ffmpeg, frames, queue, requests>>

(* An abandoned worker has nothing of the CPU path's encoder to finish.     *)
GpuReturns ==
  /\ IF Receives("gpu") THEN EncoderFinishes("gpu") ELSE UNCHANGED <<inside, aus>>
  /\ Return("gpu")
  /\ UNCHANGED <<codecLeaves, encoder, ffmpeg, frames, queue, requests>>

GpuEnds == pc["gpu"] = "loop" /\ shutdown["gpu"] /\ GpuReturns

GpuFails == pc["gpu"] = "loop" /\ ~shutdown["gpu"] /\ GpuReturns

----------------------------------------------------------------------------
(* publisher_worker.                                                        *)

PublisherReturns ==
  /\ Return("publisher")
  /\ aus' = <<>>
  /\ UNCHANGED <<publisherLeaves, attempt, connections, pump>>

TryConnect ==
  /\ pc["publisher"] = "top"
  /\ ~shutdown[path]
  /\ attempt < MaxAttempts /\ (attempt > 0 => encoder \in Retrying)
  /\ attempt' = attempt + 1
  /\ Goto("publisher", "connecting")
  /\ UNCHANGED <<publisherLeaves, told, aus, connections, pump>>

SeesShutdown ==
  /\ pc["publisher"] = "top"
  /\ shutdown[path]
  /\ PublisherReturns
  /\ UNCHANGED told

ConnectFails ==
  /\ pc["publisher"] = "connecting"
  /\ Goto("publisher", "backoff")
  /\ UNCHANGED <<publisherLeaves, told, aus, publisherVars>>

ConnectSucceeds ==
  /\ pc["publisher"] = "connecting"
  /\ connections' = connections + 1
  /\ pump' = "up"
  /\ Goto("publisher", "connected")
  /\ UNCHANGED <<publisherLeaves, told, aus, attempt>>

TellConnected ==
  /\ pc["publisher"] = "connected"
  /\ Tell(Event!Connected(attempt))
  /\ Goto("publisher", "draining")
  /\ UNCHANGED <<publisherLeaves, aus, publisherVars>>

(* Mutant: what is buffered is kept.                                        *)
Drain_Skipped ==
  /\ pc["publisher"] = "draining"
  /\ Goto("publisher", "sending")
  /\ UNCHANGED <<publisherLeaves, told, aus, publisherVars>>

Drain ==
  /\ pc["publisher"] = "draining"
  /\ aus' = <<>>
  /\ Goto("publisher", "sending")
  /\ UNCHANGED <<publisherLeaves, told, publisherVars>>

WriteSample ==
  /\ pc["publisher"] = "sending"
  /\ aus # <<>>
  /\ aus' = Tail(aus)
  /\ UNCHANGED <<publisherLeaves, pc, told, attempt, connections, pump>>

(* Dropping the join handle of the pump leaves the pump running.            *)
AuChannelClosed ==
  /\ pc["publisher"] = "sending"
  /\ AusEnded
  /\ PublisherReturns
  /\ UNCHANGED told

(* The connection is cut or closed, or the relay sends an Error.  Without a *)
(* publisher nobody asks which.                                             *)
PumpEnds ==
  /\ pump = "up"
  /\ pump' \in IF pc["publisher"] = "done" THEN {"closed"} ELSE {"closed", "rejected"}
  /\ UNCHANGED <<startVars, owner, shutdown, told, pc, encoder, codecVars, aus,
                 attempt, connections>>

(* What happens when the pump's result arrives.                             *)
AfterPump(ended) == IF ended = "rejected" THEN "rejected" ELSE "lost"

SeesPumpEnd ==
  /\ pc["publisher"] = "sending"
  /\ pump # "up"
  /\ Goto("publisher", AfterPump(pump))
  /\ pump' = "none"
  /\ UNCHANGED <<publisherLeaves, told, aus, attempt, connections>>

TellDisconnected ==
  /\ pc["publisher"] \in {"lost", "rejected"}
  /\ Tell(Event!Disconnected(pc["publisher"] = "lost"))
  /\ Goto("publisher", IF pc["publisher"] = "lost" THEN "backoff" ELSE "fatal")
  /\ UNCHANGED <<publisherLeaves, aus, publisherVars>>

(* Mutant: no return, the loop goes on.                                     *)
TellError_Retries ==
  /\ pc["publisher"] = "fatal"
  /\ Tell(Event!Error)
  /\ Goto("publisher", "backoff")
  /\ UNCHANGED <<publisherLeaves, aus, publisherVars>>

TellError ==
  /\ pc["publisher"] = "fatal"
  /\ Tell(Event!Error)
  /\ PublisherReturns

BackoffOver ==
  /\ pc["publisher"] = "backoff"
  /\ Goto("publisher", "top")
  /\ UNCHANGED <<publisherLeaves, told, aus, publisherVars>>
----------------------------------------------------------------------------
(* The owner: the CLI, the desktop application.                             *)

(* Pipeline::stop, or StopHandle::stop, which outlives the Pipeline.        *)
Stop ==
  /\ path # "none"
  /\ ~shutdown[path]
  /\ shutdown' = [shutdown EXCEPT ![path] = TRUE]
  /\ UNCHANGED <<startVars, owner, told, pc, encoder, codecVars, aus,
                 publisherVars>>

(* The CLI leaves its loop, the application its listener, at Stopped.       *)
Drop ==
  /\ owner = "holding"
  /\ Event!HasStopped(told)
  /\ owner' = "dropped"
  /\ UNCHANGED <<startVars, shutdown, told, pc, encoder, codecVars, aus,
                 publisherVars>>

----------------------------------------------------------------------------
Init ==
  /\ phase = "resolving" /\ path = "none" /\ init = "pending"
  /\ owner = "none" /\ told = <<>>
  /\ shutdown = [p \in Paths |-> FALSE]
  /\ pc = [w \in Workers |-> "unborn"]
  /\ encoder = "missing" /\ ffmpeg = FALSE
  /\ requests = 0
  /\ frames = 0 /\ queue = 0 /\ inside = 0 /\ aus = <<>>
  /\ attempt = 0 /\ connections = 0
  /\ pump = "none"

Starting ==
  \/ ResolveRoom \/ GpuNotViable \/ SpawnGpuWorker
  \/ CommitToGpu \/ GiveUpGpu \/ NoSource \/ OpenSource

Orchestrator == Spawn \/ StopAll \/ TellStopped
Capture == Grab \/ SendFrame \/ CaptureEnds
Writer == WriteFrame \/ WriterEnds
Reader == ReadUnit \/ ReaderEnds
MfEncoder == EncodeSync \/ MfEnds \/ \E asks \in 1 .. 2 : EncodeAsync(asks)
GpuWorker == GpuInitFails \/ GpuInitSucceeds \/ GpuEnds

PublisherWorker ==
  \/ TryConnect \/ SeesShutdown \/ ConnectFails \/ ConnectSucceeds
  \/ TellConnected \/ Drain \/ WriteSample
  \/ AuChannelClosed \/ TellDisconnected \/ TellError \/ BackoffOver

Troubles == FfmpegCrashes \/ MfFails \/ GpuFails \/ PumpEnds

Next ==
  \/ Starting \/ Orchestrator \/ Capture \/ Writer \/ Reader \/ MfEncoder
  \/ GpuWorker \/ PublisherWorker \/ SeesPumpEnd
  \/ EncodeAsync(0) \/ EncodeOnGpu
  \/ Stop \/ Drop
  \/ Troubles

Spec == Init /\ [][Next]_vars

(* Threads and tasks run, encoders take and return frames, an attempt to    *)
(* connect ends; tokio's select! polls its branches in a random order, so   *)
(* that the pump's end is seen however many units there are to send.        *)
(* Nothing need go wrong, nobody need stop or drop anything, and start()    *)
(* need not go on.                                                          *)
FairSpec ==
  /\ Spec
  /\ WF_vars(Orchestrator)
  /\ WF_vars(Capture)
  /\ WF_vars(Writer)
  /\ WF_vars(Reader)
  /\ WF_vars(MfEncoder)
  /\ WF_vars(GpuWorker)
  /\ WF_vars(PublisherWorker)
  /\ WF_vars(SeesPumpEnd)

----------------------------------------------------------------------------
Labels == {"unborn", "done", "loop", "send", "init", "spawn", "select", "sleep", "top",
           "connecting", "connected", "draining", "sending", "lost",
           "rejected", "fatal", "backoff"}

(* Types; the channels keep within their capacity, whoever sends when.      *)
TypeOK ==
  /\ phase \in {"resolving", "probing", "gpu_wait", "opening", "running", "failed"}
  /\ path \in Paths \cup {"none"}
  /\ init \in {"pending", "ok", "failed"}
  /\ owner \in {"none", "holding", "dropped"}
  /\ shutdown \in [Paths -> BOOLEAN]
  /\ pc \in [Workers -> Labels]
  /\ encoder \in Kinds /\ ffmpeg \in BOOLEAN
  /\ frames \in 0 .. FrameDepth
  /\ queue \in 0 .. QueueDepth
  /\ requests \in 0 .. MaxRequests
  /\ inside \in 0 .. EncoderDepth
  /\ aus \in Seq(0 .. connections) /\ Len(aus) <= AuDepth
  /\ attempt \in 0 .. MaxAttempts /\ connections \in 0 .. attempt
  /\ pump \in {"none", "up", "closed", "rejected"}

(* What was queued while the publisher was away is not sent when it is back *)
(* ("Drop stale AUs buffered during the down period"): while the publisher  *)
(* sends, all that waits was queued after its present connection came up,   *)
(* whatever failed and however full the channel was.                        *)
NothingStaleIsSent ==
  pc["publisher"] = "sending" =>
    \A i \in 1 .. Len(aus) : aus[i] = connections

(* A slow or absent publisher does not hold up the capture ("so ffmpeg      *)
(* never blocks waiting for a disconnected publisher"): a frame that waits  *)
(* for room is taken, or the pipeline ends, though no connection is ever    *)
(* made.                                                                    *)
CaptureNeverStalls == pc["capture"] = "send" ~> pc["capture"] # "send"

Ended(w) == pc[w] \in {"unborn", "done"}
AllEnded(p) ==
  IF p = "gpu"
  THEN Ended("gpu") /\ (path = "gpu" => Ended("publisher") /\ Ended("orchestrator"))
  ELSE \A w \in Workers \ {"gpu"} : Ended(w) /\ ~ffmpeg

Ending(p) == shutdown[p] \/ (path = p /\ SomeWorkerEnded)

(* The workers end together: whether stop is asked for, the GPU attempt is  *)
(* abandoned, or one of the workers fails at any point, all of the path's   *)
(* workers, and the ffmpeg process, come to their end.  The asynchronous    *)
(* Media Foundation loop is the exception, as long as its encoder asks for  *)
(* input it will not get.                                                   *)
WorkersEndTogether ==
  (\E p \in Paths : Ending(p)) ~>
    \A p \in Paths :
      Ending(p) => AllEnded(p) \/ (p = "cpu" /\ encoder = "mf_async" /\ requests > 0)

(* The owner sees only the events that PipelinePromise allows, in an order  *)
(* it allows, whatever fails when: no disconnection without a connection,   *)
(* nothing about a connection after the relay's rejection, Stopped once and *)
(* only when asked for or when a worker has ended.                          *)
EventsInOrder == Event!Init /\ [][Event!Next]_(Event!vars)

(* The same, and a request to stop, or the end of a worker, is answered by  *)
(* Stopped even when a worker never ends.                                   *)
ImplementsPromise == Event!Spec

(* "All worker tasks have exited. Pipeline is fully stopped"                *)
(* (PipelineEvent::Stopped), if not at once: in particular it has left the  *)
(* relay.                                                                   *)
StoppedMeansAllOver == Event!HasStopped(told) ~> AllEnded(path) /\ pump # "up"
=============================================================================
