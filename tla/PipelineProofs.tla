--------------------------- MODULE PipelineProofs ---------------------------
(***************************************************************************)
(* Proofs about Pipeline: its types and the bounds of its channels, that   *)
(* nothing stale is sent, and that the events it tells are those of        *)
(* PipelinePromise.                                                        *)
(*                                                                         *)
(* TInv is inductive by itself: a unit is put into the channel under the   *)
(* number of the present connection, and the publisher begins to send with *)
(* an empty channel.  EInv adds, for the events, where start(), the        *)
(* orchestrator and the publisher can be, given what was told last.        *)
(* The promise's liveness, that a request to stop is answered, is left to   *)
(* TLC.                                                                    *)
(***************************************************************************)
EXTENDS Pipeline, SequenceTheorems, TLAPS

----------------------------------------------------------------------------
(* Channels.                                                                *)

AllFresh == \A i \in 1 .. Len(aus) : aus[i] = connections

LEMMA FreshFacts ==
  ASSUME connections \in Nat, NEW n \in Nat
  PROVE  /\ Fresh(n) \in Seq(0 .. connections) /\ Len(Fresh(n)) = n
         /\ \A i \in 1 .. n : Fresh(n)[i] = connections
<1>1. Fresh(n) \in [1 .. n -> 0 .. connections]
  BY DEF Fresh
<1>2. Fresh(n) \in Seq(0 .. connections)
  BY <1>1, SeqDef
<1>. QED  BY <1>1, <1>2 DEF Fresh

LEMMA FirstFacts ==
  ASSUME NEW S, NEW s \in Seq(S), NEW n \in Nat
  PROVE  /\ First(n, s) \in Seq(S) /\ Len(First(n, s)) <= n /\ Len(First(n, s)) <= Len(s)
         /\ Len(First(n, s)) \in Nat
         /\ \A i \in 1 .. Len(First(n, s)) : First(n, s)[i] = s[i]
<1>. DEFINE m == Least(n, Len(s))
<1>1. m \in 0 .. Len(s) /\ m <= n /\ Len(s) \in Nat
  BY DEF Least
<1>. HIDE DEF m
<1>2. \A i \in 1 .. m : s[i] \in S
  BY <1>1, ElementOfSeq
<1>3. /\ SubSeq(s, 1, m) \in Seq(S) /\ Len(SubSeq(s, 1, m)) = m
      /\ \A i \in 1 .. m : SubSeq(s, 1, m)[i] = s[i]
  <2>1. 1 \in Int /\ m \in Int
    BY <1>1
  <2>2. /\ SubSeq(s, 1, m) \in Seq(S)
        /\ Len(SubSeq(s, 1, m)) = IF 1 <= m THEN m - 1 + 1 ELSE 0
        /\ \A i \in 1 .. m - 1 + 1 : SubSeq(s, 1, m)[i] = s[1 + i - 1]
    BY <1>2, <2>1, SubSeqProperties
  <2>. QED  BY <1>1, <2>2
<1>. QED  BY <1>1, <1>3 DEF First, m

(* What try_send does to the channel: it stays within its capacity, and what *)
(* is put into it is of the present connection.                              *)
LEMMA SentFacts ==
  ASSUME aus \in Seq(0 .. connections), Len(aus) <= AuDepth, connections \in Nat,
         NEW p, NEW n \in Nat, TrySend(p, n)
  PROVE  /\ aus' \in Seq(0 .. connections) /\ Len(aus') <= AuDepth
         /\ AllFresh => \A i \in 1 .. Len(aus') : aus'[i] = connections
<1>1. AuDepth \in Nat
  BY PipelineAssumption
<1>2. CASE ~ Receives(p)
  BY <1>2 DEF TrySend, AllFresh
<1>3. CASE Receives(p)
  <2>. DEFINE s == aus \o Fresh(n)
  <2>1. /\ s \in Seq(0 .. connections) /\ Len(s) = Len(aus) + n /\ Len(aus) \in Nat
        /\ \A i \in 1 .. Len(aus) + n : s[i] = IF i <= Len(aus) THEN aus[i] ELSE Fresh(n)[i - Len(aus)]
    <3>1. /\ Fresh(n) \in Seq(0 .. connections) /\ Len(Fresh(n)) = n
          /\ aus \in Seq(0 .. connections) /\ Len(aus) \in Nat
      BY FreshFacts
    <3>. QED  BY <3>1, ConcatProperties
  <2>2. ASSUME AllFresh, NEW i \in 1 .. Len(s) PROVE s[i] = connections
    <3>1. i \in 1 .. Len(aus) + n /\ i \in Nat
      BY <2>1
    <3>2. i > Len(aus) => i - Len(aus) \in 1 .. n
      BY <2>1, <3>1
    <3>3. \A j \in 1 .. n : Fresh(n)[j] = connections
      BY FreshFacts
    <3>. HIDE DEF s
    <3>4. CASE i <= Len(aus)
      BY <2>1, <2>2, <3>1, <3>4 DEF AllFresh
    <3>5. CASE i > Len(aus)
      <4>1. s[i] = Fresh(n)[i - Len(aus)]
        BY <2>1, <3>1, <3>5
      <4>. QED  BY <3>2, <3>3, <3>5, <4>1
    <3>. QED  BY <2>1, <3>1, <3>4, <3>5
  <2>3. aus' = First(AuDepth, s)
    BY <1>3 DEF TrySend
  <2>. HIDE DEF s
  <2>4. /\ aus' \in Seq(0 .. connections) /\ Len(aus') <= AuDepth
        /\ Len(aus') <= Len(s) /\ Len(aus') \in Nat /\ Len(s) \in Nat
        /\ \A i \in 1 .. Len(aus') : aus'[i] = s[i]
    BY SMTT(30), <1>1, <2>1, <2>3, FirstFacts
  <2>. QED  BY <2>2, <2>4
<1>. QED  BY <1>2, <1>3

----------------------------------------------------------------------------
(* Types and channels.                                                      *)

(* An attempt under way has not been counted among the connections yet. *)
Attempts == pc["publisher"] = "connecting" => connections < attempt

AuTypeOK == aus \in Seq(0 .. connections) /\ Len(aus) <= AuDepth

TInv == TypeOK /\ Attempts /\ NothingStaleIsSent

Leaves == <<startVars, owner, shutdown, told, pc, encoder, codecVars, aus, publisherVars>>

LEMMA Bounds ==
  /\ FrameDepth \in Nat \ {0} /\ AuDepth \in Nat \ {0} /\ QueueDepth \in Nat \ {0}
  /\ MaxRequests \in Nat \ {0} /\ EncoderDepth \in Nat /\ EncoderDepth >= 2 /\ MaxAttempts \in Nat
  BY PipelineAssumption

LEMMA InitTypes == Init => TInv
<1>. SUFFICES ASSUME Init PROVE TInv
  OBVIOUS
<1>1. shutdown \in [Paths -> BOOLEAN] /\ pc \in [Workers -> Labels]
  BY DEF Init, Labels
<1>2. aus \in Seq(0 .. connections) /\ Len(aus) <= AuDepth
  BY Bounds DEF Init
<1>3. /\ frames \in 0 .. FrameDepth /\ queue \in 0 .. QueueDepth /\ requests \in 0 .. MaxRequests
      /\ inside \in 0 .. EncoderDepth
  BY Bounds DEF Init
<1>4. attempt \in 0 .. MaxAttempts /\ connections \in 0 .. attempt
  BY Bounds DEF Init
<1>5. encoder \in Kinds /\ ffmpeg \in BOOLEAN /\ path \in Paths \cup {"none"}
  BY DEF Init, Kinds
<1>6. Attempts /\ NothingStaleIsSent
  BY <1>1 DEF Init, Attempts, NothingStaleIsSent, Workers
<1>. QED  BY <1>1, <1>2, <1>3, <1>4, <1>5, <1>6 DEF Init, TInv, TypeOK

(* A step that leaves the access units, the connections and the publisher   *)
(* alone.                                                                    *)
LEMMA PublisherRests ==
  ASSUME TInv, UNCHANGED <<aus, attempt, connections>>, pc'["publisher"] = pc["publisher"]
  PROVE  Attempts' /\ NothingStaleIsSent'
  BY DEF TInv, Attempts, NothingStaleIsSent

LEMMA GotoFacts ==
  ASSUME TypeOK, NEW w \in Workers, NEW l \in Labels, Goto(w, l)
  PROVE  /\ pc' \in [Workers -> Labels] /\ pc'[w] = l
         /\ \A v \in Workers : v # w => pc'[v] = pc[v]
  BY DEF TypeOK, Goto

LEMMA StartingTypes ==
  ASSUME TInv, Starting
  PROVE  TInv'
<1>. USE DEF startVars, codecVars, publisherVars
<1>1. CASE ResolveRoom \/ GpuNotViable \/ NoSource
  BY SMTT(30), <1>1 DEF ResolveRoom, GpuNotViable, NoSource, TInv, TypeOK, Attempts, NothingStaleIsSent
<1>2. CASE SpawnGpuWorker
  <2>1. pc' \in [Workers -> Labels] /\ pc'["publisher"] = pc["publisher"]
    BY <1>2, GotoFacts DEF SpawnGpuWorker, TInv, Workers, Labels
  <2>2. TypeOK'
    BY <1>2, <2>1 DEF SpawnGpuWorker, TInv, TypeOK
  <2>. QED  BY <1>2, <2>1, <2>2, PublisherRests DEF SpawnGpuWorker, TInv
<1>3. CASE CommitToGpu
  <2>1. pc' \in [Workers -> Labels] /\ pc'["publisher"] = "top"
    BY <1>3 DEF CommitToGpu, TInv, TypeOK, Workers, Labels
  <2>2. TypeOK'
    BY <1>3, <2>1 DEF CommitToGpu, TInv, TypeOK, Paths
  <2>. QED  BY <2>1, <2>2 DEF TInv, Attempts, NothingStaleIsSent
<1>4. CASE GiveUpGpu
  <2>1. aus' \in Seq(0 .. connections') /\ Len(aus') <= AuDepth /\ inside' \in 0 .. EncoderDepth
    BY <1>4, Bounds DEF GiveUpGpu
  <2>2. shutdown' \in [Paths -> BOOLEAN]
    BY <1>4 DEF GiveUpGpu, TInv, TypeOK
  <2>3. TypeOK'
    BY <1>4, <2>1, <2>2 DEF GiveUpGpu, TInv, TypeOK
  <2>4. Attempts' /\ NothingStaleIsSent'
    BY <1>4 DEF GiveUpGpu, TInv, Attempts, NothingStaleIsSent
  <2>. QED  BY <2>3, <2>4 DEF TInv
<1>5. CASE OpenSource
  <2>1. pc' \in [Workers -> Labels] /\ pc'["publisher"] = pc["publisher"]
    BY <1>5, GotoFacts DEF OpenSource, TInv, Workers, Labels
  <2>2. TypeOK'
    BY <1>5, <2>1 DEF OpenSource, TInv, TypeOK, Paths
  <2>. QED  BY <1>5, <2>1, <2>2, PublisherRests DEF OpenSource, TInv
<1>. QED  BY <1>1, <1>2, <1>3, <1>4, <1>5 DEF Starting

LEMMA OrchestratorTypes ==
  ASSUME TInv, Orchestrator
  PROVE  TInv'
<1>. USE DEF startVars, codecVars, publisherVars, codecLeaves
<1>1. CASE Spawn
  <2>1. PICK e \in Encoders :
          /\ encoder' = e
          /\ ffmpeg' = (e = "ffmpeg")
          /\ pc' = [pc EXCEPT !["capture"] = "loop",
                              !["writer"] = IF e = "ffmpeg" THEN "loop" ELSE "unborn",
                              !["encoder"] = IF e = "missing" THEN "done" ELSE "loop",
                              !["publisher"] = "top",
                              !["orchestrator"] = "select"]
    BY <1>1 DEF Spawn
  <2>2. pc' \in [Workers -> Labels] /\ pc'["publisher"] = "top"
    BY <2>1 DEF TInv, TypeOK, Workers, Labels
  <2>3. encoder' \in Kinds /\ ffmpeg' \in BOOLEAN
    BY <2>1, PipelineAssumption
  <2>4. TypeOK'
    BY <1>1, <2>2, <2>3 DEF Spawn, TInv, TypeOK
  <2>. QED  BY <2>2, <2>4 DEF TInv, Attempts, NothingStaleIsSent
<1>2. CASE StopAll \/ TellStopped
  <2>1. pc' \in [Workers -> Labels] /\ pc'["publisher"] = pc["publisher"]
    BY <1>2, GotoFacts DEF StopAll, TellStopped, Return, TInv, Workers, Labels
  <2>2. shutdown' \in [Paths -> BOOLEAN]
    BY <1>2 DEF StopAll, TellStopped, TInv, TypeOK
  <2>3. UNCHANGED <<startVars, owner, encoder, codecVars, aus, publisherVars>>
    BY <1>2 DEF StopAll, TellStopped
  <2>4. TypeOK'
    BY <2>1, <2>2, <2>3 DEF TInv, TypeOK
  <2>. QED  BY <2>1, <2>3, <2>4, PublisherRests DEF TInv
<1>. QED  BY <1>1, <1>2 DEF Orchestrator

(* The workers of the CPU path but for the publisher. *)
LEMMA CaptureTypes ==
  ASSUME TInv, Capture \/ Writer \/ FfmpegCrashes
  PROVE  TInv'
<1>. USE DEF startVars, codecVars, publisherVars, codecLeaves
<1>1. /\ UNCHANGED <<codecLeaves, encoder, queue, requests, aus>>
      /\ pc' \in [Workers -> Labels] /\ pc'["publisher"] = pc["publisher"]
  BY GotoFacts DEF Capture, Writer, Grab, SendFrame, CaptureEnds, WriteFrame, WriterEnds,
     FfmpegCrashes, Return, TInv, TypeOK, Workers, Labels
<1>2. frames' \in 0 .. FrameDepth
  BY Bounds DEF Capture, Writer, Grab, SendFrame, CaptureEnds, WriteFrame, WriterEnds,
     FfmpegCrashes, TInv, TypeOK
<1>3. inside' \in 0 .. EncoderDepth /\ ffmpeg' \in BOOLEAN
  <2>1. inside \in 0 .. EncoderDepth /\ ffmpeg \in BOOLEAN /\ EncoderDepth \in Nat
    BY Bounds DEF TInv, TypeOK
  <2>2. CASE WriteFrame
    BY <2>1, <2>2 DEF WriteFrame
  <2>3. CASE FfmpegIsGone
    <3>1. ffmpeg' = FALSE /\ (inside' \in 0 .. inside \/ inside' = inside)
      BY <2>3 DEF FfmpegIsGone
    <3>2. inside' \in 0 .. EncoderDepth
      BY <2>1, <3>1
    <3>. QED  BY <3>1, <3>2
  <2>4. CASE UNCHANGED <<inside, ffmpeg>>
    BY <2>1, <2>4
  <2>. QED  BY <2>2, <2>3, <2>4 DEF Capture, Writer, Grab, SendFrame, CaptureEnds, WriterEnds, FfmpegCrashes
<1>4. TypeOK'
  BY <1>1, <1>2, <1>3 DEF TInv, TypeOK
<1>. QED  BY <1>1, <1>4, PublisherRests DEF TInv

(* Encoders that send what they have. *)
LEMMA UnitsTypes ==
  ASSUME TInv, UNCHANGED <<connections, attempt>>, pc'["publisher"] = pc["publisher"],
         aus' = aus \/ \E p \in Paths, n \in Nat : TrySend(p, n)
  PROVE  /\ aus' \in Seq(0 .. connections') /\ Len(aus') <= AuDepth
         /\ Attempts' /\ NothingStaleIsSent'
<1>1. aus \in Seq(0 .. connections) /\ Len(aus) <= AuDepth /\ connections \in Nat
  BY DEF TInv, TypeOK
<1>2. CASE aus' = aus
  BY <1>1, <1>2 DEF TInv, Attempts, NothingStaleIsSent
<1>3. CASE \E p \in Paths, n \in Nat : TrySend(p, n)
  BY <1>1, <1>3, SentFacts DEF TInv, Attempts, NothingStaleIsSent, AllFresh
<1>. QED  BY <1>2, <1>3

LEMMA HeldFacts ==
  ASSUME TInv, NEW p \in Paths, NEW n \in Nat, EncoderHolds(p, n)
  PROVE  inside' \in 0 .. EncoderDepth /\ \E m \in Nat : TrySend(p, m)
<1>1. PICK out \in 0 .. n : n - out <= EncoderDepth /\ inside' = n - out /\ TrySend(p, out)
  BY DEF EncoderHolds
<1>2. out \in Nat /\ n - out \in Nat
  BY <1>1
<1>. QED  BY <1>1, <1>2, Bounds

LEMMA FinishFacts ==
  ASSUME TInv, NEW p \in Paths, EncoderFinishes(p)
  PROVE  inside' \in 0 .. EncoderDepth /\ \E m \in Nat : TrySend(p, m)
<1>1. inside \in Nat
  BY Bounds DEF TInv, TypeOK
<1>. QED  BY <1>1, Bounds DEF EncoderFinishes

LEMMA LeastFacts ==
  ASSUME NEW m \in Nat, NEW n \in Nat
  PROVE  Least(m, n) \in Nat /\ Least(m, n) <= m /\ Least(m, n) <= n
  BY DEF Least

LEMMA EncoderTypes ==
  ASSUME TInv, \/ Reader \/ EncodeSync \/ MfEnds \/ MfFails
               \/ \E asks \in 0 .. 2 : EncodeAsync(asks)
  PROVE  TInv'
<1>. USE DEF startVars, codecVars, publisherVars, codecLeaves
<1>1. /\ UNCHANGED <<codecLeaves, encoder>>
      /\ pc' \in [Workers -> Labels] /\ pc'["publisher"] = pc["publisher"]
      /\ ffmpeg' \in BOOLEAN
  BY GotoFacts DEF Reader, ReadUnit, ReaderEnds, EncodeSync, EncodeAsync, MfEnds, MfFails, MfReturns,
     Return, TInv, TypeOK, Workers, Labels
<1>2. "cpu" \in Paths /\ inside \in 0 .. EncoderDepth /\ EncoderDepth \in Nat
      /\ inside \in Nat /\ inside + 1 \in Nat
  BY Bounds DEF Paths, TInv, TypeOK
<1>3. /\ frames' \in 0 .. FrameDepth /\ queue' \in 0 .. QueueDepth /\ requests' \in 0 .. MaxRequests
      /\ inside' \in 0 .. EncoderDepth /\ \E m \in Nat : TrySend("cpu", m)
  <2>1. /\ frames \in 0 .. FrameDepth /\ queue \in 0 .. QueueDepth /\ requests \in 0 .. MaxRequests
        /\ frames \in Nat /\ queue \in Nat /\ requests \in Nat
        /\ FrameDepth \in Nat /\ QueueDepth \in Nat /\ MaxRequests \in Nat
    BY Bounds DEF TInv, TypeOK
  <2>2. CASE ReadUnit \/ ReaderEnds
    <3>1. inside' \in 0 .. EncoderDepth
      BY <1>2, <2>2 DEF ReadUnit, ReaderEnds
    <3>2. TrySend("cpu", 1) \/ TrySend("cpu", inside)
      BY <2>2 DEF ReadUnit, ReaderEnds
    <3>. QED  BY <1>2, <2>1, <2>2, <3>1, <3>2 DEF ReadUnit, ReaderEnds
  <2>3. CASE EncodeSync
    <3>1. EncoderHolds("cpu", inside + 1) /\ frames' \in 0 .. FrameDepth
      BY <2>1, <2>3 DEF EncodeSync
    <3>. QED  BY <1>2, <2>1, <2>3, <3>1, HeldFacts DEF EncodeSync
  <2>4. CASE MfEnds \/ MfFails
    <3>1. EncoderFinishes("cpu") /\ frames' = 0 /\ queue' = 0 /\ requests' = 0
      BY <2>4 DEF MfEnds, MfFails, MfReturns
    <3>. QED  BY <1>2, <2>1, <3>1, FinishFacts
  <2>5. ASSUME NEW asks \in 0 .. 2, EncodeAsync(asks)
        PROVE  /\ frames' \in 0 .. FrameDepth /\ queue' \in 0 .. QueueDepth
               /\ requests' \in 0 .. MaxRequests
               /\ inside' \in 0 .. EncoderDepth /\ \E m \in Nat : TrySend("cpu", m)
    <3>. DEFINE taken == Least(QueueDepth - queue, frames)
                filled == queue + taken
                wanted == requests + asks
                consumed == Least(wanted, filled)
    <3>1. QueueDepth - queue \in Nat /\ wanted \in Nat
      BY <2>1
    <3>2. taken \in Nat /\ taken <= QueueDepth - queue /\ taken <= frames
      BY <2>1, <3>1, LeastFacts
    <3>. HIDE DEF taken
    <3>3. filled \in Nat /\ filled <= QueueDepth
      BY <2>1, <3>2
    <3>. HIDE DEF wanted, filled
    <3>4. consumed \in Nat /\ consumed <= wanted /\ consumed <= filled
      BY <3>1, <3>3, LeastFacts
    <3>5. /\ frames' = frames - taken /\ queue' = filled - consumed /\ requests' = wanted - consumed
          /\ wanted - consumed <= MaxRequests
          /\ EncoderHolds("cpu", inside + consumed)
      BY <2>5 DEF EncodeAsync, taken, filled, wanted, consumed
    <3>. HIDE DEF consumed
    <3>6. inside + consumed \in Nat
      BY <1>2, <3>4
    <3>7. frames' \in 0 .. FrameDepth /\ queue' \in 0 .. QueueDepth /\ requests' \in 0 .. MaxRequests
      BY <2>1, <3>1, <3>2, <3>3, <3>4, <3>5
    <3>. QED  BY <1>2, <3>5, <3>6, <3>7, HeldFacts
  <2>. QED  BY <2>2, <2>3, <2>4, <2>5 DEF Reader
<1>4. UNCHANGED <<connections, attempt>> /\ \E p \in Paths, n \in Nat : TrySend(p, n)
  BY <1>1, <1>2, <1>3
<1>5. aus' \in Seq(0 .. connections') /\ Len(aus') <= AuDepth /\ Attempts' /\ NothingStaleIsSent'
  BY <1>1, <1>4, UnitsTypes
<1>6. TypeOK'
  BY SMTT(30), <1>1, <1>3, <1>5 DEF TInv, TypeOK
<1>. QED  BY SMTT(30), <1>5, <1>6 DEF TInv

LEMMA GpuTypes ==
  ASSUME TInv, GpuWorker \/ EncodeOnGpu \/ GpuFails
  PROVE  TInv'
<1>. USE DEF startVars, codecVars, publisherVars, codecLeaves
<1>1. /\ UNCHANGED <<phase, path, owner, shutdown, told, publisherVars, encoder, ffmpeg, frames, queue,
                     requests>>
      /\ pc' \in [Workers -> Labels] /\ pc'["publisher"] = pc["publisher"]
  BY GotoFacts DEF GpuWorker, GpuInitFails, GpuInitSucceeds, EncodeOnGpu, GpuEnds, GpuFails, GpuReturns,
     Return, TInv, TypeOK, Workers, Labels
<1>2. init' \in {"pending", "ok", "failed"}
  BY DEF GpuWorker, GpuInitFails, GpuInitSucceeds, EncodeOnGpu, GpuEnds, GpuFails, GpuReturns,
     InitTx, TInv, TypeOK
<1>3. "gpu" \in Paths /\ inside \in 0 .. EncoderDepth /\ inside + 1 \in Nat
  BY Bounds DEF Paths, TInv, TypeOK
<1>4. inside' \in 0 .. EncoderDepth /\ (aus' = aus \/ \E m \in Nat : TrySend("gpu", m))
  <2>1. CASE GpuInitFails \/ GpuInitSucceeds
    BY <1>3, <2>1 DEF GpuInitFails, GpuInitSucceeds
  <2>2. CASE EncodeOnGpu
    BY <1>3, <2>2, HeldFacts DEF EncodeOnGpu
  <2>3. CASE GpuReturns
    BY <1>3, <2>3, FinishFacts DEF GpuReturns
  <2>. QED  BY <2>1, <2>2, <2>3 DEF GpuWorker, GpuEnds, GpuFails
<1>5. aus' \in Seq(0 .. connections') /\ Len(aus') <= AuDepth /\ Attempts' /\ NothingStaleIsSent'
  <2>1. UNCHANGED <<connections, attempt>>
    BY <1>1
  <2>2. aus' = aus \/ \E p \in Paths, n \in Nat : TrySend(p, n)
    BY <1>3, <1>4
  <2>. QED  BY <1>1, <2>1, <2>2, UnitsTypes
<1>6. TypeOK'
  BY <1>1, <1>2, <1>4, <1>5 DEF TInv, TypeOK
<1>. QED  BY <1>5, <1>6 DEF TInv

LEMMA PublisherTypes ==
  ASSUME TInv, PublisherWorker \/ SeesPumpEnd
  PROVE  TInv'
<1>. USE DEF startVars, codecVars, publisherVars, publisherLeaves
<1>1. UNCHANGED publisherLeaves
  BY DEF PublisherWorker, SeesPumpEnd, TryConnect, SeesShutdown, ConnectFails, ConnectSucceeds, TellConnected,
     Drain, WriteSample, AuChannelClosed, TellDisconnected, TellError, BackoffOver, PublisherReturns
<1>2. /\ attempt \in Nat /\ connections \in Nat /\ connections <= attempt /\ attempt <= MaxAttempts
      /\ MaxAttempts \in Nat /\ AuDepth \in Nat
      /\ aus \in Seq(0 .. connections) /\ Len(aus) <= AuDepth
      /\ pump \in {"none", "up", "closed", "rejected"} /\ pc \in [Workers -> Labels]
  BY Bounds DEF TInv, TypeOK
<1>3. /\ attempt' \in 0 .. MaxAttempts /\ connections' \in 0 .. attempt'
      /\ Attempts' /\ NothingStaleIsSent'
      /\ aus' \in Seq(0 .. connections') /\ Len(aus') <= AuDepth
      /\ pump' \in {"none", "up", "closed", "rejected"}
      /\ pc' \in [Workers -> Labels]
  <2>1. CASE TryConnect
    <3>1. attempt' = attempt + 1 /\ attempt < MaxAttempts /\ UNCHANGED <<aus, connections, pump>>
      BY <2>1 DEF TryConnect
    <3>2. pc' \in [Workers -> Labels] /\ pc'["publisher"] = "connecting"
      BY <1>2, <2>1 DEF TryConnect, Goto, Workers, Labels
    <3>3. attempt' \in 0 .. MaxAttempts /\ connections' \in 0 .. attempt' /\ connections' < attempt'
      BY <1>2, <3>1
    <3>. QED  BY <1>2, <3>1, <3>2, <3>3 DEF Attempts, NothingStaleIsSent
  <2>2. CASE ConnectSucceeds
    <3>1. connections' = connections + 1 /\ UNCHANGED <<aus, attempt>> /\ pump' = "up"
      BY <2>2 DEF ConnectSucceeds
    <3>2. pc' \in [Workers -> Labels] /\ pc'["publisher"] = "connected"
      BY <1>2, <2>2 DEF ConnectSucceeds, Goto, Workers, Labels
    <3>3. connections < attempt
      BY <2>2 DEF ConnectSucceeds, TInv, Attempts
    <3>4. attempt' \in 0 .. MaxAttempts /\ connections' \in 0 .. attempt'
      BY <1>2, <3>1, <3>3
    <3>5. aus' \in Seq(0 .. connections')
      <4>1. 0 .. connections \subseteq 0 .. connections'
        BY <1>2, <3>1
      <4>. QED  BY <1>2, <3>1, <4>1, SeqMonotonic
    <3>. QED  BY <1>2, <3>1, <3>2, <3>4, <3>5 DEF Attempts, NothingStaleIsSent
  <2>3. CASE \/ ConnectFails \/ TellConnected \/ TellDisconnected \/ BackoffOver \/ SeesPumpEnd
    <3>1. UNCHANGED <<aus, attempt, connections>> /\ pump' \in {pump, "none"}
      BY <2>3 DEF ConnectFails, TellConnected, TellDisconnected, BackoffOver, SeesPumpEnd
    <3>2. /\ pc' \in [Workers -> Labels]
          /\ pc'["publisher"] \notin {"connecting", "sending"}
      BY <1>2, <2>3 DEF ConnectFails, TellConnected, TellDisconnected, BackoffOver, SeesPumpEnd, AfterPump,
         Goto, Workers, Labels
    <3>. QED  BY <1>2, <3>1, <3>2 DEF Attempts, NothingStaleIsSent
  <2>4. CASE \/ SeesShutdown \/ AuChannelClosed \/ TellError \/ Drain
    <3>1. UNCHANGED <<attempt, connections, pump>> /\ aus' = <<>>
      BY <2>4 DEF SeesShutdown, AuChannelClosed, TellError, Drain, PublisherReturns
    <3>2. pc' \in [Workers -> Labels] /\ pc'["publisher"] # "connecting"
      BY <1>2, <2>4 DEF SeesShutdown, AuChannelClosed, TellError, Drain, PublisherReturns, Return,
         Goto, Workers, Labels
    <3>. QED  BY <1>2, <3>1, <3>2 DEF Attempts, NothingStaleIsSent
  <2>5. CASE WriteSample
    <3>1. /\ UNCHANGED <<attempt, connections, pump, pc>> /\ aus # <<>> /\ aus' = Tail(aus)
      BY <2>5 DEF WriteSample
    <3>2. /\ aus' \in Seq(0 .. connections) /\ Len(aus') = Len(aus) - 1 /\ Len(aus) \in Nat
          /\ \A i \in 1 .. Len(aus') : aus'[i] = aus[i + 1] /\ i + 1 \in 1 .. Len(aus)
      BY <1>2, <3>1, HeadTailProperties
    <3>3. Len(aus') <= AuDepth
      BY <1>2, <3>2
    <3>4. Attempts' /\ NothingStaleIsSent'
      BY <3>1, <3>2 DEF TInv, Attempts, NothingStaleIsSent
    <3>. QED  BY <1>2, <3>1, <3>2, <3>3, <3>4
  <2>. QED  BY <2>1, <2>2, <2>3, <2>4, <2>5 DEF PublisherWorker
<1>4. TypeOK'
  BY <1>1, <1>3 DEF TInv, TypeOK
<1>. QED  BY <1>3, <1>4 DEF TInv

LEMMA OwnerTypes ==
  ASSUME TInv, PumpEnds \/ Stop \/ Drop
  PROVE  TInv'
<1>. USE DEF startVars, codecVars, publisherVars
<1>1. /\ UNCHANGED <<startVars, told, pc, encoder, codecVars, aus, attempt, connections>>
      /\ shutdown' \in [Paths -> BOOLEAN]
      /\ owner' \in {"none", "holding", "dropped"}
      /\ pump' \in {"none", "up", "closed", "rejected"}
  BY DEF PumpEnds, Stop, Drop, TInv, TypeOK
<1>2. TypeOK'
  BY <1>1 DEF TInv, TypeOK
<1>. QED  BY <1>1, <1>2, PublisherRests DEF TInv

LEMMA NextTypes == TInv /\ [Next]_vars => TInv'
<1>. SUFFICES ASSUME TInv, [Next]_vars PROVE TInv'
  OBVIOUS
<1>1. CASE UNCHANGED vars
  BY <1>1 DEF vars, TInv, TypeOK, Attempts, NothingStaleIsSent
<1>2. CASE Next
  <2>1. \A asks \in 1 .. 2 : EncodeAsync(asks) => \E a \in 0 .. 2 : EncodeAsync(a)
    OBVIOUS
  <2>2. EncodeAsync(0) => \E a \in 0 .. 2 : EncodeAsync(a)
    OBVIOUS
  <2>. QED  BY <1>2, <2>1, <2>2, StartingTypes, OrchestratorTypes, CaptureTypes, EncoderTypes, GpuTypes,
            PublisherTypes, OwnerTypes DEF Next, MfEncoder, Troubles
<1>. QED  BY <1>1, <1>2

THEOREM Typed == Spec => []TInv
  BY InitTypes, NextTypes, PTL DEF Spec

(* Every variable keeps its type; the channels keep within their capacity,   *)
(* whoever sends when.                                                       *)
THEOREM TypesAreRight == Spec => []TypeOK
<1>1. TInv => TypeOK
  BY DEF TInv
<1>. QED  BY <1>1, Typed, PTL

(* "Drop stale AUs buffered during the down period": for every capacity of   *)
(* the channel and any number of connections, while the publisher sends all  *)
(* that waits was queued after its present connection came up.               *)
THEOREM StaleUnitsAreDropped == Spec => []NothingStaleIsSent
<1>1. TInv => NothingStaleIsSent
  BY DEF TInv
<1>. QED  BY <1>1, Typed, PTL

----------------------------------------------------------------------------
(* Events.                                                                  *)

EventSet == {Event!Started, Event!Stopped} \cup Event!PublisherEvents

LatestOf(s) == s[CHOOSE i \in Event!Last(s) : TRUE]

LEMMA EventFacts ==
  /\ Event!Started.kind = "started" /\ Event!Stopped.kind = "stopped" /\ Event!Error.kind = "error"
  /\ \A n : Event!Connected(n).kind = "connected" /\ Event!Connected(n).attempt = n
  /\ \A b : Event!Disconnected(b).kind = "disconnected"
  /\ Event!Disconnected(TRUE) # Event!Disconnected(FALSE)
  BY DEF Event!Started, Event!Stopped, Event!Error, Event!Connected, Event!Disconnected

LEMMA PublisherEventFacts ==
  /\ \A f \in Event!PublisherEvents : f # Event!Stopped /\ f \in EventSet
  /\ \A n \in 1 .. MaxAttempts : Event!Connected(n) \in Event!PublisherEvents
  /\ \A b \in BOOLEAN : Event!Disconnected(b) \in Event!PublisherEvents
  /\ Event!Error \in Event!PublisherEvents
<1>1. \A f \in Event!PublisherEvents : f.kind # "stopped"
  BY EventFacts DEF Event!PublisherEvents
<1>2. \A n \in 1 .. MaxAttempts : Event!Connected(n) \in Event!PublisherEvents
  BY DEF Event!PublisherEvents
<1>3. \A b \in BOOLEAN : Event!Disconnected(b) \in Event!PublisherEvents
  BY DEF Event!PublisherEvents
<1>4. Event!Error \in Event!PublisherEvents
  BY DEF Event!PublisherEvents
<1>. QED  BY <1>1, <1>2, <1>3, <1>4, EventFacts DEF EventSet

(* What is told about the publisher is the latest from then on. *)
LEMMA TellFacts ==
  ASSUME NEW s \in Seq(EventSet), NEW f \in EventSet
  PROVE  /\ Append(s, f) \in Seq(EventSet) /\ Len(Append(s, f)) = Len(s) + 1 /\ Len(s) \in Nat
         /\ \A i \in 1 .. Len(s) : Append(s, f)[i] = s[i]
         /\ Append(s, f)[Len(s) + 1] = f
         /\ f # Event!Stopped => LatestOf(Append(s, f)) = f /\ Event!Last(Append(s, f)) # {}
         /\ f = Event!Stopped /\ Event!Last(s) # {} =>
              LatestOf(Append(s, f)) = LatestOf(s) /\ Event!Last(Append(s, f)) # {}
         /\ Event!HasStopped(Append(s, f)) <=> Event!HasStopped(s) \/ f = Event!Stopped
<1>. DEFINE t == Append(s, f)
<1>1. /\ t \in Seq(EventSet) /\ Len(t) = Len(s) + 1 /\ Len(s) \in Nat
      /\ \A i \in 1 .. Len(s) : t[i] = s[i]
      /\ t[Len(s) + 1] = f
  BY AppendProperties
<1>. HIDE DEF t
<1>2. ASSUME f # Event!Stopped PROVE LatestOf(t) = f /\ Event!Last(t) # {}
  <2>1. Event!Last(t) = {Len(s) + 1}
    BY <1>1, <1>2 DEF Event!Last
  <2>. QED  BY <1>1, <2>1 DEF LatestOf
<1>3. ASSUME f = Event!Stopped, Event!Last(s) # {}
      PROVE  LatestOf(t) = LatestOf(s) /\ Event!Last(t) # {}
  <2>1. ASSUME NEW i \in Event!Last(t) PROVE i \in Event!Last(s)
    <3>1. i \in 1 .. Len(s) + 1 /\ t[i] # Event!Stopped
      BY <1>1, <2>1 DEF Event!Last
    <3>2. i \in 1 .. Len(s) /\ s[i] # Event!Stopped
      BY <1>1, <1>3, <3>1
    <3>3. \A j \in i + 1 .. Len(s) : s[j] = Event!Stopped
      BY <1>1, <2>1, <3>2 DEF Event!Last
    <3>. QED  BY <3>2, <3>3 DEF Event!Last
  <2>2. ASSUME NEW i \in Event!Last(s) PROVE i \in Event!Last(t)
    <3>1. i \in 1 .. Len(s) /\ s[i] # Event!Stopped
      BY <2>2 DEF Event!Last
    <3>2. i \in 1 .. Len(t) /\ t[i] # Event!Stopped
      BY <1>1, <3>1
    <3>3. \A j \in i + 1 .. Len(t) : t[j] = Event!Stopped
      BY <1>1, <1>3, <2>2, <3>1 DEF Event!Last
    <3>. QED  BY <3>2, <3>3 DEF Event!Last
  <2>3. Event!Last(t) = Event!Last(s)
    BY <2>1, <2>2
  <2>4. PICK k : k = CHOOSE i \in Event!Last(s) : TRUE
    OBVIOUS
  <2>5. k \in Event!Last(s)
    BY <1>3, <2>4
  <2>6. k \in 1 .. Len(s)
    BY <2>5 DEF Event!Last
  <2>. QED  BY <1>1, <1>3, <2>3, <2>4, <2>6 DEF LatestOf
<1>4. Event!HasStopped(t) <=> Event!HasStopped(s) \/ f = Event!Stopped
  BY <1>1 DEF Event!HasStopped
<1>. QED  BY <1>1, <1>2, <1>3, <1>4 DEF t

(* start() has either not begun anything or handed it all over. *)
Launched ==
  /\ phase # "running" => /\ path = "none" /\ told = <<>> /\ owner = "none"
                          /\ pc["orchestrator"] = "unborn" /\ pc["publisher"] = "unborn"
  /\ phase = "running" => path # "none" /\ owner # "none" /\ pc["orchestrator"] # "unborn"
  /\ path = "none" => ~shutdown["cpu"]
  /\ phase \in {"resolving", "probing", "gpu_wait"} => ~shutdown["gpu"]

(* The orchestrator says Stopped, and only when the path is to stop. *)
Stopping ==
  /\ pc["orchestrator"] \in {"unborn", "spawn", "select", "sleep", "done"}
  /\ pc["publisher"] = "unborn" <=> pc["orchestrator"] \in {"unborn", "spawn"}
  /\ pc["orchestrator"] \in {"spawn", "select", "sleep"} =>
       owner = "holding" /\ ~Event!HasStopped(told)
  /\ pc["orchestrator"] = "sleep" => shutdown[path]
  /\ pc["orchestrator"] = "done" => Event!HasStopped(told)

(* Where the publisher is is what it said last. *)
Talking ==
  owner = "holding" =>
    /\ pc["publisher"] \in {"unborn", "top", "connecting", "backoff", "connected"} =>
         LatestOf(told) \in {Event!Started, Event!Disconnected(TRUE)}
    /\ pc["publisher"] \in {"draining", "sending", "lost", "rejected"} =>
         LatestOf(told).kind = "connected"
    /\ pc["publisher"] = "fatal" => LatestOf(told) = Event!Disconnected(FALSE)

(* The attempt under way has not been reported. *)
Counting ==
  /\ \A i \in 1 .. Len(told) : told[i].kind = "connected" => told[i].attempt <= attempt
  /\ pc["publisher"] \in {"connecting", "connected"} =>
       /\ attempt # 0
       /\ \A i \in 1 .. Len(told) : told[i].kind = "connected" => told[i].attempt < attempt

PublisherLabels ==
  {"unborn", "top", "connecting", "connected", "draining", "sending", "lost", "rejected", "fatal",
   "backoff", "done"}

EInv ==
  /\ Launched /\ Stopping /\ Talking /\ Counting
  /\ pc["publisher"] \in PublisherLabels
  /\ told \in Seq(EventSet)
  /\ phase = "running" => Event!Last(told) # {}

IInv == TypeOK /\ EInv

LEMMA InitEvents == Init => EInv /\ Event!Init
<1>. SUFFICES ASSUME Init PROVE EInv /\ Event!Init
  OBVIOUS
<1>1. /\ phase = "resolving" /\ path = "none" /\ owner = "none" /\ told = <<>> /\ attempt = 0
      /\ ~shutdown["cpu"] /\ ~shutdown["gpu"]
      /\ pc["orchestrator"] = "unborn" /\ pc["publisher"] = "unborn"
  BY DEF Init, Paths, Workers
<1>2. told \in Seq(EventSet) /\ 1 .. Len(told) = {}
  BY <1>1
<1>. QED  BY <1>1, <1>2 DEF EInv, Launched, Stopping, Talking, Counting, PublisherLabels, Event!Init

(* A step of anyone but start(), the orchestrator, the publisher and the    *)
(* owner is none of the promise's.                                           *)
LEMMA QuietSteps ==
  ASSUME EInv, UNCHANGED <<phase, path, owner, shutdown, told, attempt>>,
         pc'["orchestrator"] = pc["orchestrator"], pc'["publisher"] = pc["publisher"]
  PROVE  EInv' /\ UNCHANGED Event!vars
  BY DEF EInv, Launched, Stopping, Talking, Counting, LatestOf, Event!Last, Event!HasStopped,
     Event!Started, Event!Stopped, Event!Disconnected, Event!vars

LEMMA WorkerSteps ==
  ASSUME IInv, \/ Capture \/ Writer \/ Reader \/ MfEncoder \/ GpuWorker
               \/ EncodeAsync(0) \/ EncodeOnGpu \/ Troubles
  PROVE  EInv' /\ UNCHANGED Event!vars
<1>. USE DEF startVars, codecVars, publisherVars, codecLeaves
<1>1. pc \in [Workers -> Labels]
  BY DEF IInv, TypeOK
<1>2. CASE Capture \/ Writer \/ Reader
  <2>1. /\ UNCHANGED <<phase, path, owner, shutdown, told, attempt>>
        /\ pc'["orchestrator"] = pc["orchestrator"] /\ pc'["publisher"] = pc["publisher"]
    BY <1>1, <1>2 DEF Capture, Grab, SendFrame, CaptureEnds, Writer, WriteFrame, WriterEnds,
       Reader, ReadUnit, ReaderEnds, Return, Goto, Workers
  <2>. QED  BY <2>1, QuietSteps DEF IInv
<1>3. CASE MfEncoder \/ EncodeAsync(0)
  <2>1. /\ UNCHANGED <<phase, path, owner, shutdown, told, attempt>>
        /\ pc'["orchestrator"] = pc["orchestrator"] /\ pc'["publisher"] = pc["publisher"]
    BY <1>1, <1>3 DEF MfEncoder, EncodeSync, EncodeAsync, MfEnds, MfReturns, Return, Goto, Workers
  <2>. QED  BY <2>1, QuietSteps DEF IInv
<1>4. CASE GpuWorker \/ EncodeOnGpu
  <2>1. /\ UNCHANGED <<phase, path, owner, shutdown, told, attempt>>
        /\ pc'["orchestrator"] = pc["orchestrator"] /\ pc'["publisher"] = pc["publisher"]
    BY <1>1, <1>4 DEF GpuWorker, GpuInitFails, GpuInitSucceeds, GpuEnds, GpuReturns, EncodeOnGpu,
       Return, Goto, Workers
  <2>. QED  BY <2>1, QuietSteps DEF IInv
<1>5. CASE Troubles
  <2>1. /\ UNCHANGED <<phase, path, owner, shutdown, told, attempt>>
        /\ pc'["orchestrator"] = pc["orchestrator"] /\ pc'["publisher"] = pc["publisher"]
    BY <1>1, <1>5 DEF Troubles, FfmpegCrashes, MfFails, MfReturns, GpuFails, GpuReturns, PumpEnds,
       Return, Goto, Workers
  <2>. QED  BY <2>1, QuietSteps DEF IInv
<1>. QED  BY <1>2, <1>3, <1>4, <1>5

(* start(). *)
LEMMA StartingSteps ==
  ASSUME IInv, Starting
  PROVE  EInv' /\ [Event!Next]_(Event!vars)
<1>. USE DEF startVars, codecVars, publisherVars
<1>1. pc \in [Workers -> Labels] /\ shutdown \in [Paths -> BOOLEAN]
  BY DEF IInv, TypeOK
<1>2. /\ phase # "running"
      /\ path = "none" /\ told = <<>> /\ owner = "none"
      /\ pc["orchestrator"] = "unborn" /\ pc["publisher"] = "unborn"
      /\ ~shutdown["cpu"]
      /\ phase \in {"resolving", "probing", "gpu_wait"} => ~shutdown["gpu"]
  BY DEF Starting, ResolveRoom, GpuNotViable, SpawnGpuWorker, CommitToGpu, GiveUpGpu, NoSource,
     OpenSource, IInv, EInv, Launched
<1>3. told \in Seq(EventSet) /\ 1 .. Len(told) = {}
  BY <1>2
<1>4. CASE ResolveRoom \/ GpuNotViable \/ SpawnGpuWorker \/ GiveUpGpu \/ NoSource
  <2>1. /\ UNCHANGED <<path, owner, told, attempt>> /\ phase' # "running"
        /\ pc'["orchestrator"] = "unborn" /\ pc'["publisher"] = "unborn"
        /\ ~shutdown'["cpu"]
        /\ phase' \in {"resolving", "probing", "gpu_wait"} => ~shutdown'["gpu"]
    BY <1>1, <1>2, <1>4 DEF ResolveRoom, GpuNotViable, SpawnGpuWorker, GiveUpGpu, NoSource,
       Goto, Workers, Paths
  <2>2. EInv'
    BY <1>2, <1>3, <2>1 DEF EInv, Launched, Stopping, Talking, Counting, PublisherLabels
  <2>3. UNCHANGED Event!vars
    BY <1>2, <2>1 DEF Event!vars
  <2>. QED  BY <2>2, <2>3
<1>5. CASE CommitToGpu \/ OpenSource
  <2>1. /\ phase' = "running" /\ path' \in {"gpu", "cpu"} /\ told' = <<Event!Started>>
        /\ owner' = "holding" /\ UNCHANGED <<shutdown, attempt>>
        /\ ~shutdown[path']
        /\ \/ pc'["orchestrator"] = "select" /\ pc'["publisher"] = "top"
           \/ pc'["orchestrator"] = "spawn" /\ pc'["publisher"] = "unborn"
    BY <1>1, <1>2, <1>5 DEF CommitToGpu, OpenSource, Goto, Workers
  <2>2. /\ told' \in Seq(EventSet) /\ Len(told') = 1 /\ told'[1] = Event!Started
    BY <2>1 DEF EventSet
  <2>3. /\ Event!Started # Event!Stopped /\ Event!Started.kind # "connected"
    BY EventFacts
  <2>4. Event!Last(told') = {1} /\ ~Event!HasStopped(told') /\ LatestOf(told') = Event!Started
    <3>1. Event!Last(told') = {1}
      BY <2>2, <2>3 DEF Event!Last
    <3>. QED  BY <2>2, <2>3, <3>1 DEF Event!HasStopped, LatestOf
  <2>5. EInv'
    <3>1. Launched' /\ Stopping'
      BY <1>2, <2>1, <2>4 DEF Launched, Stopping, Event!HasStopped, Event!Stopped
    <3>2. Talking' /\ Counting'
      BY <2>1, <2>2, <2>3, <2>4 DEF Talking, Counting, LatestOf, Event!Last, Event!Started, Event!Stopped,
         Event!Disconnected
    <3>3. (phase = "running" => Event!Last(told) # {})'
      BY <2>4 DEF Event!Last, Event!Stopped
    <3>. QED  BY <2>1, <2>2, <3>1, <3>2, <3>3 DEF EInv, PublisherLabels
  <2>6. Event!Start
    BY <1>1, <1>2, <2>1 DEF Event!Start, Paths
  <2>. QED  BY <2>5, <2>6 DEF Event!Next
<1>. QED  BY <1>4, <1>5 DEF Starting

LEMMA OrchestratorSteps ==
  ASSUME IInv, Orchestrator
  PROVE  EInv' /\ [Event!Next]_(Event!vars)
<1>. USE DEF startVars, codecVars, publisherVars, codecLeaves
<1>1. pc \in [Workers -> Labels] /\ shutdown \in [Paths -> BOOLEAN] /\ path \in Paths \cup {"none"}
  BY DEF IInv, TypeOK
<1>2. CASE Spawn
  <2>1. /\ UNCHANGED <<phase, path, owner, shutdown, told, attempt>>
        /\ pc["orchestrator"] = "spawn" /\ pc["publisher"] = "unborn"
        /\ pc'["orchestrator"] = "select" /\ pc'["publisher"] = "top"
    BY <1>1, <1>2 DEF Spawn, IInv, EInv, Stopping, Workers
  <2>2. Launched' /\ Stopping'
    BY <2>1 DEF IInv, EInv, Launched, Stopping, Event!HasStopped, Event!Stopped
  <2>3. Talking' /\ Counting'
    BY <2>1 DEF IInv, EInv, Talking, Counting, LatestOf, Event!Last, Event!Started, Event!Stopped,
       Event!Disconnected
  <2>4. (phase = "running" => Event!Last(told) # {})'
    BY <2>1 DEF IInv, EInv, Event!Last, Event!Stopped
  <2>5. EInv'
    BY <2>1, <2>2, <2>3, <2>4 DEF IInv, EInv, PublisherLabels
  <2>. QED  BY <2>1, <2>5 DEF Event!vars
<1>3. CASE StopAll
  <2>1. /\ UNCHANGED <<phase, path, owner, told, attempt>>
        /\ pc["orchestrator"] = "select" /\ pc'["orchestrator"] = "sleep"
        /\ pc'["publisher"] = pc["publisher"]
        /\ path # "none" /\ phase = "running"
        /\ shutdown' = [shutdown EXCEPT ![path] = TRUE]
    BY <1>1, <1>3 DEF StopAll, Goto, IInv, EInv, Launched, Workers
  <2>2. shutdown'[path'] = TRUE
    BY <1>1, <2>1
  <2>3. Launched' /\ Stopping'
    BY <2>1, <2>2 DEF IInv, EInv, Launched, Stopping, Event!HasStopped, Event!Stopped
  <2>4. Talking' /\ Counting'
    BY <2>1 DEF IInv, EInv, Talking, Counting, LatestOf, Event!Last, Event!Started, Event!Stopped,
       Event!Disconnected
  <2>5. (phase = "running" => Event!Last(told) # {})'
    BY <2>1 DEF IInv, EInv, Event!Last, Event!Stopped
  <2>6. EInv'
    BY <2>1, <2>3, <2>4, <2>5 DEF IInv, EInv, PublisherLabels
  <2>7. Event!Ask \/ UNCHANGED Event!vars
    BY <2>1, <2>2 DEF Event!Ask, Event!vars
  <2>. QED  BY <2>6, <2>7 DEF Event!Next
<1>4. CASE TellStopped
  <2>1. /\ UNCHANGED <<phase, path, owner, shutdown, attempt>>
        /\ pc["orchestrator"] = "sleep" /\ pc'["orchestrator"] = "done"
        /\ pc'["publisher"] = pc["publisher"]
        /\ owner = "holding" /\ ~Event!HasStopped(told)
        /\ path # "none" /\ phase = "running" /\ shutdown[path]
        /\ told' = Append(told, Event!Stopped)
        /\ told \in Seq(EventSet) /\ Event!Last(told) # {}
    BY <1>1, <1>4 DEF TellStopped, Tell, Return, Goto, IInv, EInv, Launched, Stopping, Workers
  <2>2. /\ told' \in Seq(EventSet) /\ Len(told') = Len(told) + 1 /\ Len(told) \in Nat
        /\ \A i \in 1 .. Len(told) : told'[i] = told[i]
        /\ told'[Len(told) + 1] = Event!Stopped
        /\ LatestOf(told') = LatestOf(told) /\ Event!Last(told') # {}
        /\ Event!HasStopped(told')
    BY <2>1, TellFacts DEF EventSet
  <2>3. Launched' /\ Stopping'
    BY <2>1, <2>2 DEF IInv, EInv, Launched, Stopping, Event!HasStopped, Event!Stopped
  <2>4. Talking'
    BY <2>1, <2>2 DEF IInv, EInv, Talking, LatestOf, Event!Last, Event!Started, Event!Stopped,
       Event!Disconnected
  <2>5. Counting'
    <3>1. ASSUME NEW i \in 1 .. Len(told'), told'[i].kind = "connected"
          PROVE  i \in 1 .. Len(told) /\ told'[i] = told[i]
      BY <2>2, <3>1, EventFacts
    <3>. QED  BY <2>1, <3>1 DEF IInv, EInv, Counting
  <2>6. (phase = "running" => Event!Last(told) # {})'
    BY <2>2 DEF Event!Last, Event!Stopped
  <2>7. EInv'
    BY <2>1, <2>2, <2>3, <2>4, <2>5, <2>6 DEF IInv, EInv, PublisherLabels
  <2>8. Event!TellStopped
    BY <2>1, <2>2 DEF Event!TellStopped, Event!Tell
  <2>. QED  BY <2>7, <2>8 DEF Event!Next
<1>. QED  BY <1>2, <1>3, <1>4 DEF Orchestrator

LEMMA OwnerSteps ==
  ASSUME IInv, Stop \/ Drop
  PROVE  EInv' /\ [Event!Next]_(Event!vars)
<1>. USE DEF startVars, codecVars, publisherVars
<1>1. shutdown \in [Paths -> BOOLEAN] /\ path \in Paths \cup {"none"}
  BY DEF IInv, TypeOK
<1>2. UNCHANGED <<phase, path, told, pc, attempt>>
  BY DEF Stop, Drop
<1>3. (phase = "running" => Event!Last(told) # {})' /\ Counting'
  BY <1>2 DEF IInv, EInv, Counting, Event!Last, Event!Stopped
<1>4. CASE Stop
  <2>1. /\ owner' = owner /\ path # "none" /\ phase = "running"
        /\ shutdown' = [shutdown EXCEPT ![path] = TRUE] /\ ~shutdown[path]
    BY <1>4 DEF Stop, IInv, EInv, Launched
  <2>2. shutdown'[path'] = TRUE
    BY <1>1, <1>2, <2>1
  <2>3. Launched' /\ Stopping'
    BY <1>2, <2>1, <2>2 DEF IInv, EInv, Launched, Stopping, Event!HasStopped, Event!Stopped
  <2>4. Talking'
    BY <1>2, <2>1 DEF IInv, EInv, Talking, LatestOf, Event!Last, Event!Started, Event!Stopped,
       Event!Disconnected
  <2>5. Event!Ask
    BY <1>2, <2>1, <2>2 DEF Event!Ask
  <2>. QED  BY <1>2, <1>3, <2>3, <2>4, <2>5 DEF IInv, EInv, PublisherLabels, Event!Next
<1>5. CASE Drop
  <2>1. owner = "holding" /\ owner' = "dropped" /\ shutdown' = shutdown /\ Event!HasStopped(told)
    BY <1>5 DEF Drop
  <2>2. Launched' /\ Stopping'
    BY <1>2, <2>1 DEF IInv, EInv, Launched, Stopping, Event!HasStopped, Event!Stopped
  <2>3. Talking'
    BY <2>1 DEF Talking
  <2>4. Event!Drop
    BY <1>2, <2>1 DEF Event!Drop
  <2>. QED  BY <1>2, <1>3, <2>2, <2>3, <2>4 DEF IInv, EInv, PublisherLabels, Event!Next
<1>. QED  BY <1>4, <1>5

(* A step of the publisher, as far as the others are concerned. *)
LEMMA PublisherLeavesBe ==
  ASSUME IInv, UNCHANGED <<phase, path, owner, shutdown>>, pc'["orchestrator"] = pc["orchestrator"],
         pc["publisher"] # "unborn", pc'["publisher"] \in PublisherLabels \ {"unborn"},
         Event!HasStopped(told') <=> Event!HasStopped(told)
  PROVE  Launched' /\ Stopping'
<1>1. (Event!HasStopped(told))' <=> Event!HasStopped(told)
  BY DEF Event!HasStopped, Event!Stopped
<1>2. phase = "running"
  BY DEF IInv, EInv, Launched
<1>3. Launched'
  BY <1>2 DEF IInv, EInv, Launched
<1>4. Stopping'
  BY <1>1 DEF IInv, EInv, Stopping
<1>. QED  BY <1>3, <1>4

(* The steps of the publisher that tell nothing. *)
LEMMA SilentSteps ==
  ASSUME IInv, \/ TryConnect \/ SeesShutdown \/ ConnectFails \/ ConnectSucceeds \/ Drain \/ WriteSample
               \/ AuChannelClosed \/ BackoffOver \/ SeesPumpEnd
  PROVE  EInv' /\ [Event!Next]_(Event!vars)
<1>. USE DEF startVars, codecVars, publisherVars, publisherLeaves
<1>. DEFINE Before == pc["publisher"]
            After  == pc'["publisher"]
<1>1. pc \in [Workers -> Labels] /\ attempt \in Nat
  BY Bounds DEF IInv, TypeOK
<1>2. /\ UNCHANGED <<phase, path, owner, shutdown, told>>
      /\ pc'["orchestrator"] = pc["orchestrator"]
      /\ \/ Before = "top" /\ After = "connecting" /\ attempt' = attempt + 1
         \/ Before \in {"top", "sending"} /\ After = "done" /\ attempt' = attempt
         \/ Before = "connecting" /\ After \in {"backoff", "connected"} /\ attempt' = attempt
         \/ Before = "backoff" /\ After = "top" /\ attempt' = attempt
         \/ /\ Before \in {"draining", "sending"} /\ After \in {"sending", "lost", "rejected"}
            /\ attempt' = attempt
  BY <1>1 DEF TryConnect, SeesShutdown, ConnectFails, ConnectSucceeds, Drain, WriteSample,
     AuChannelClosed, BackoffOver, SeesPumpEnd, AfterPump, PublisherReturns, Return, Goto, Workers
<1>3. Launched' /\ Stopping'
  <2>1. Before # "unborn" /\ After \in PublisherLabels \ {"unborn"}
    BY <1>2 DEF PublisherLabels
  <2>2. Event!HasStopped(told') <=> Event!HasStopped(told)
    BY <1>2
  <2>. QED  BY <1>2, <2>1, <2>2, PublisherLeavesBe
<1>4. Talking'
  BY <1>2 DEF IInv, EInv, Talking, LatestOf, Event!Last, Event!Started, Event!Stopped,
     Event!Disconnected
<1>5. Counting'
  <2>1. \A i \in 1 .. Len(told) : told[i].kind = "connected" => told[i].attempt <= attempt
    BY DEF IInv, EInv, Counting
  <2>2. \A i \in 1 .. Len(told) : told[i].kind = "connected" => told[i].attempt \in Nat
    <3>1. told \in Seq(EventSet)
      BY DEF IInv, EInv
    <3>2. ASSUME NEW i \in 1 .. Len(told), told[i].kind = "connected" PROVE told[i].attempt \in Nat
      <4>1. told[i] \in EventSet
        BY <3>1, ElementOfSeq
      <4>2. PICK n \in 1 .. MaxAttempts : told[i] = Event!Connected(n)
        BY <3>2, <4>1, EventFacts DEF EventSet, Event!PublisherEvents
      <4>. QED  BY <4>2, Bounds, EventFacts
    <3>. QED  BY <3>2
  <2>3. CASE After = "connecting"
    <3>1. attempt' = attempt + 1
      BY <1>2, <2>3
    <3>2. \A n \in Nat : n <= attempt => n < attempt'
      BY <1>1, <3>1
    <3>3. attempt' # 0
      BY <1>1, <3>1
    <3>4. ASSUME NEW i \in 1 .. Len(told'), told'[i].kind = "connected"
          PROVE  told'[i].attempt < attempt' /\ told'[i].attempt <= attempt'
      <4>1. told[i].attempt \in Nat /\ told[i].attempt <= attempt /\ told'[i] = told[i]
        BY <1>2, <2>1, <2>2, <3>4
      <4>. QED  BY <1>1, <3>1, <4>1
    <3>. QED  BY <3>3, <3>4 DEF Counting
  <2>4. CASE After = "connected"
    BY <1>2, <2>1, <2>4 DEF IInv, EInv, Counting
  <2>5. CASE After \notin {"connecting", "connected"}
    BY <1>2, <2>1, <2>5 DEF Counting
  <2>. QED  BY <2>3, <2>4, <2>5
<1>6. (phase = "running" => Event!Last(told) # {})'
  BY <1>2 DEF IInv, EInv, Event!Last, Event!Stopped
<1>7. EInv'
  BY <1>2, <1>3, <1>4, <1>5, <1>6 DEF IInv, EInv, PublisherLabels
<1>8. Event!End \/ UNCHANGED Event!vars
  <2>1. CASE After # "done"
    BY <1>2, <2>1 DEF Event!vars
  <2>2. CASE After = "done"
    <3>1. pc["orchestrator"] = "done" => Event!HasStopped(told)
      BY DEF IInv, EInv, Stopping
    <3>2. Before # "done"
      BY <1>2, <2>2
    <3>. QED  BY <1>2, <2>2, <3>1, <3>2 DEF Event!End, Event!vars
  <2>. QED  BY <2>1, <2>2
<1>. QED  BY <1>7, <1>8 DEF Event!Next

(* An owner that has dropped the Pipeline is told nothing. *)
LEMMA UnheardSteps ==
  ASSUME IInv, owner # "holding", TellConnected \/ TellDisconnected \/ TellError
  PROVE  EInv' /\ [Event!Next]_(Event!vars)
<1>. USE DEF startVars, codecVars, publisherVars, publisherLeaves
<1>. DEFINE Before == pc["publisher"]
            After  == pc'["publisher"]
<1>1. pc \in [Workers -> Labels]
  BY DEF IInv, TypeOK
<1>2. /\ UNCHANGED <<phase, path, owner, shutdown, told, attempt>>
      /\ pc'["orchestrator"] = pc["orchestrator"]
      /\ Before \in {"connected", "lost", "rejected", "fatal"}
      /\ After \in {"draining", "backoff", "fatal", "done"}
  BY <1>1 DEF TellConnected, TellDisconnected, TellError, Tell, PublisherReturns, Return, Goto, Workers
<1>3. Launched' /\ Stopping'
  <2>1. Before # "unborn" /\ After \in PublisherLabels \ {"unborn"}
    BY <1>2 DEF PublisherLabels
  <2>2. Event!HasStopped(told') <=> Event!HasStopped(told)
    BY <1>2
  <2>. QED  BY <1>2, <2>1, <2>2, PublisherLeavesBe
<1>4. Talking'
  BY <1>2 DEF Talking
<1>5. Counting'
  BY <1>2 DEF IInv, EInv, Counting
<1>6. (phase = "running" => Event!Last(told) # {})'
  BY <1>2 DEF IInv, EInv, Event!Last, Event!Stopped
<1>7. EInv'
  BY <1>2, <1>3, <1>4, <1>5, <1>6 DEF IInv, EInv, PublisherLabels
<1>8. Event!End \/ UNCHANGED Event!vars
  <2>1. Before # "done"
    BY <1>2
  <2>. QED  BY <1>2, <2>1 DEF Event!End, Event!vars
<1>. QED  BY <1>7, <1>8 DEF Event!Next

(* To whoever holds the Pipeline the publisher tells what may follow. *)
LEMMA HeardSteps ==
  ASSUME IInv, owner = "holding", TellConnected \/ TellDisconnected \/ TellError
  PROVE  EInv' /\ [Event!Next]_(Event!vars)
<1>. USE DEF startVars, codecVars, publisherVars, publisherLeaves
<1>. DEFINE Before == pc["publisher"]
            After  == pc'["publisher"]
            Connects(f) == Before = "connected" /\ After = "draining" /\ f = Event!Connected(attempt)
            Loses(f) == Before = "lost" /\ After = "backoff" /\ f = Event!Disconnected(TRUE)
            IsRejected(f) == Before = "rejected" /\ After = "fatal" /\ f = Event!Disconnected(FALSE)
            GivesUp(f) == Before = "fatal" /\ After = "done" /\ f = Event!Error
<1>1. /\ pc \in [Workers -> Labels] /\ attempt \in 0 .. MaxAttempts /\ MaxAttempts \in Nat
      /\ told \in Seq(EventSet)
  BY Bounds DEF IInv, EInv, TypeOK
<1>2. PICK f :
        /\ Connects(f) \/ Loses(f) \/ IsRejected(f) \/ GivesUp(f)
        /\ told' = Append(told, f)
        /\ UNCHANGED <<phase, path, owner, shutdown, attempt>>
        /\ pc'["orchestrator"] = pc["orchestrator"]
  <2>1. CASE TellConnected
    BY <1>1, <2>1 DEF TellConnected, Tell, Goto, Workers
  <2>2. CASE TellDisconnected /\ Before = "lost"
    <3>1. told' = Append(told, Event!Disconnected(TRUE))
      BY <2>2 DEF TellDisconnected, Tell
    <3>. QED  BY <1>1, <2>2, <3>1 DEF TellDisconnected, Goto, Workers
  <2>3. CASE TellDisconnected /\ Before = "rejected"
    <3>1. told' = Append(told, Event!Disconnected(FALSE))
      BY <2>3 DEF TellDisconnected, Tell
    <3>. QED  BY <1>1, <2>3, <3>1 DEF TellDisconnected, Goto, Workers
  <2>4. CASE TellError
    BY <1>1, <2>4 DEF TellError, Tell, PublisherReturns, Return, Goto, Workers
  <2>. QED  BY <2>1, <2>2, <2>3, <2>4 DEF TellDisconnected
<1>3. Connects(f) => attempt \in 1 .. MaxAttempts
  BY <1>1 DEF IInv, EInv, Counting
<1>4. f \in Event!PublisherEvents /\ f # Event!Stopped /\ f \in EventSet
  BY <1>2, <1>3, PublisherEventFacts
<1>5. /\ told' \in Seq(EventSet) /\ Len(told') = Len(told) + 1 /\ Len(told) \in Nat
      /\ \A i \in 1 .. Len(told) : told'[i] = told[i]
      /\ told'[Len(told) + 1] = f
      /\ LatestOf(told') = f /\ Event!Last(told') # {}
      /\ Event!HasStopped(told') <=> Event!HasStopped(told)
  BY <1>1, <1>2, <1>4, TellFacts
<1>6. Launched' /\ Stopping'
  <2>1. Before # "unborn" /\ After \in PublisherLabels \ {"unborn"}
    BY <1>2 DEF PublisherLabels
  <2>. QED  BY <1>2, <1>5, <2>1, PublisherLeavesBe
<1>7. Talking'
  <2>1. (LatestOf(told))' = f
    BY <1>5 DEF LatestOf, Event!Last, Event!Stopped
  <2>2. /\ After = "draining" => f.kind = "connected"
        /\ After = "backoff" => f = Event!Disconnected(TRUE)
        /\ After = "fatal" => f = Event!Disconnected(FALSE)
        /\ After \in {"draining", "backoff", "fatal", "done"}
    BY <1>2, EventFacts
  <2>. QED  BY <2>1, <2>2 DEF Talking, Event!Started, Event!Disconnected
<1>8. Counting'
  <2>1. f.kind = "connected" => f.attempt <= attempt
    <3>1. f.kind = "connected" => f = Event!Connected(attempt)
      BY <1>2, EventFacts
    <3>2. Event!Connected(attempt).attempt = attempt
      BY EventFacts
    <3>3. attempt <= attempt
      BY <1>1
    <3>. QED  BY <3>1, <3>2, <3>3
  <2>2. ASSUME NEW i \in 1 .. Len(told'), told'[i].kind = "connected"
        PROVE  told'[i].attempt <= attempt
    <3>1. \A j \in 1 .. Len(told) : told[j].kind = "connected" => told[j].attempt <= attempt
      BY DEF IInv, EInv, Counting
    <3>2. i \in 1 .. Len(told) \/ i = Len(told) + 1
      BY <1>5
    <3>. QED  BY <1>5, <2>1, <2>2, <3>1, <3>2
  <2>. QED  BY <1>2, <2>2 DEF Counting
<1>9. (phase = "running" => Event!Last(told) # {})'
  BY <1>5 DEF Event!Last, Event!Stopped
<1>10. EInv'
  BY <1>2, <1>5, <1>6, <1>7, <1>8, <1>9 DEF EInv, PublisherLabels
<1>11. Event!MayFollow(Event!Latest, f)
  <2>1. Event!Latest = LatestOf(told)
    BY DEF Event!Latest, LatestOf
  <2>2. /\ Before = "connected" => LatestOf(told) \in {Event!Started, Event!Disconnected(TRUE)}
        /\ Before \in {"lost", "rejected"} => LatestOf(told).kind = "connected"
        /\ Before = "fatal" => LatestOf(told) = Event!Disconnected(FALSE)
    BY DEF IInv, EInv, Talking
  <2>. QED  BY <1>2, <2>1, <2>2, EventFacts DEF Event!MayFollow
<1>12. Event!Counts(f)
  BY <1>2, EventFacts DEF Event!Counts, IInv, EInv, Counting
<1>13. told # <<>>
  <2>1. 1 .. Len(told) # {}
    BY <1>2 DEF IInv, EInv, Launched, Event!Last
  <2>. QED  BY <2>1
<1>14. Event!Tell(f)
  <2>1. /\ Before # "done"
        /\ pc["orchestrator"] = "done" => Event!HasStopped(told)
    BY <1>2 DEF IInv, EInv, Stopping
  <2>. QED  BY <1>2, <1>5, <2>1 DEF Event!Tell
<1>15. Event!PublisherTells
  BY <1>2, <1>4, <1>11, <1>12, <1>13, <1>14 DEF Event!PublisherTells
<1>. QED  BY <1>10, <1>15 DEF Event!Next

LEMMA PromiseSteps == IInv /\ [Next]_vars => EInv' /\ [Event!Next]_(Event!vars)
<1>. SUFFICES ASSUME IInv, [Next]_vars PROVE EInv' /\ [Event!Next]_(Event!vars)
  OBVIOUS
<1>1. CASE UNCHANGED vars
  BY <1>1, QuietSteps DEF vars, IInv
<1>2. CASE Next
  BY <1>2, WorkerSteps, StartingSteps, OrchestratorSteps, OwnerSteps, SilentSteps, UnheardSteps,
     HeardSteps DEF Next, PublisherWorker
<1>. QED  BY <1>1, <1>2

(* The invariant of the events: where start(), the orchestrator and the      *)
(* publisher are is what was told last.                                      *)
THEOREM Narrated == Spec => []IInv
<1>1. Init => EInv
  BY InitEvents
<1>2. TInv => TypeOK
  BY DEF TInv
<1>3. TypeOK /\ EInv /\ [Next]_vars => EInv'
  BY PromiseSteps DEF IInv
<1>4. Spec => []TypeOK
  BY <1>2, Typed, PTL
<1>5. Spec => []EInv
  BY <1>1, <1>3, <1>4, PTL DEF Spec
<1>6. TypeOK /\ EInv => IInv
  BY DEF IInv
<1>. QED  BY <1>4, <1>5, <1>6, PTL

(* The owner sees only the events that PipelinePromise allows, in an order  *)
(* it allows, whatever fails when: every step of the pipeline is a step of   *)
(* the promise, or none.                                                     *)
THEOREM EventsAreInOrder == Spec => EventsInOrder
<1>1. Init => Event!Init
  BY InitEvents
<1>2. IInv /\ [Next]_vars => [Event!Next]_(Event!vars)
  BY PromiseSteps
<1>3. Spec => Event!Init /\ [][Event!Next]_(Event!vars)
  BY <1>1, <1>2, Narrated, PTL DEF Spec
<1>. QED  BY <1>3 DEF EventsInOrder
=============================================================================
