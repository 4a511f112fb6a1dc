----------------------------- MODULE GpuProofs -----------------------------
(***************************************************************************)
(* Proofs about GpuEncode, for any ring, any transform and any number of   *)
(* pictures: GpuTypeOK, SurfacesIntact, RequestsAreAccountedFor and        *)
(* KeyframeNotForgotten are invariants of GpuSpec, and GpuSpec implements  *)
(* VideoPromise.                                                           *)
(*                                                                         *)
(* All of them follow from one inductive invariant, IInv.  Whether a       *)
(* texture is rendered into while a picture in it is in flight rests on    *)
(* how old that picture can be: each call of convert() since was for a     *)
(* picture in flight behind it, or it failed.  Nothing is assumed of how   *)
(* many pictures the transform holds or how many calls fail: while they    *)
(* are few the texture is safe, and the order of the pictures holds until  *)
(* the transform has read one that was not.                                *)
(***************************************************************************)
EXTENDS GpuEncode, FiniteSetTheorems, FunctionTheorems, TLAPS

----------------------------------------------------------------------------
(* Queues.                                                                  *)

LEMMA AppendFacts ==
  ASSUME NEW S, NEW q \in Seq(S), NEW x \in S
  PROVE  /\ Append(q, x) \in Seq(S)
         /\ Len(Append(q, x)) = Len(q) + 1
         /\ \A i \in 1 .. Len(q) : Append(q, x)[i] = q[i]
         /\ Append(q, x)[Len(q) + 1] = x
  OBVIOUS

LEMMA TailFacts ==
  ASSUME NEW S, NEW q \in Seq(S), q # <<>>
  PROVE  /\ Len(q) \in Nat \ {0}
         /\ Head(q) = q[1] /\ Head(q) \in S
         /\ Tail(q) \in Seq(S)
         /\ Len(Tail(q)) = Len(q) - 1
         /\ \A i \in 1 .. Len(Tail(q)) : Tail(q)[i] = q[i + 1]
  OBVIOUS

(* How often an event is in the queue; NeedsUnder(q) is the case of "need". *)
Under(q, e) == {i \in 1 .. Len(q) : q[i] = e}

LEMMA UnderFinite ==
  ASSUME NEW S, NEW q \in Seq(S), NEW e
  PROVE  IsFiniteSet(Under(q, e)) /\ Cardinality(Under(q, e)) \in Nat
<1>1. Len(q) \in Nat
  OBVIOUS
<1>2. IsFiniteSet(1 .. Len(q))
  BY <1>1, FS_Interval
<1>3. IsFiniteSet(Under(q, e))
  BY <1>2, FS_Subset DEF Under
<1>. QED  BY <1>3, FS_CardinalityType

LEMMA UnderAppend ==
  ASSUME NEW S, NEW q \in Seq(S), NEW e, NEW x \in S
  PROVE  Cardinality(Under(Append(q, x), e)) =
           Cardinality(Under(q, e)) + (IF x = e THEN 1 ELSE 0)
<1>1. Len(q) \in Nat /\ IsFiniteSet(Under(q, e)) /\ Cardinality(Under(q, e)) \in Nat
  BY UnderFinite
<1>2. CASE x = e
  <2>1. Under(Append(q, x), e) = Under(q, e) \cup {Len(q) + 1}
    BY <1>1, <1>2, AppendFacts DEF Under
  <2>2. Len(q) + 1 \notin Under(q, e)
    BY <1>1 DEF Under
  <2>. QED  BY <1>1, <1>2, <2>1, <2>2, FS_AddElement
<1>3. CASE x # e
  <2>1. Under(Append(q, x), e) = Under(q, e)
    BY <1>1, <1>3, AppendFacts DEF Under
  <2>. QED  BY <1>1, <1>3, <2>1
<1>. QED  BY <1>2, <1>3

LEMMA UnderTail ==
  ASSUME NEW S, NEW q \in Seq(S), q # <<>>, NEW e
  PROVE  Cardinality(Under(Tail(q), e)) =
           Cardinality(Under(q, e)) - (IF Head(q) = e THEN 1 ELSE 0)
<1>. DEFINE T == Under(Tail(q), e)
            U == Under(q, e) \ {1}
            f == [i \in T |-> i + 1]
<1>1. /\ Len(q) \in Nat \ {0} /\ Head(q) = q[1] /\ Tail(q) \in Seq(S)
      /\ Len(Tail(q)) = Len(q) - 1
      /\ \A i \in 1 .. Len(Tail(q)) : Tail(q)[i] = q[i + 1]
  BY TailFacts
<1>2. IsFiniteSet(T) /\ IsFiniteSet(Under(q, e)) /\ Cardinality(Under(q, e)) \in Nat
  BY <1>1, UnderFinite
<1>3. f \in Bijection(T, U)
  <2>1. f \in [T -> U]
    BY <1>1 DEF Under
  <2>2. \A i, j \in T : f[i] = f[j] => i = j
    BY <1>1 DEF Under
  <2>3. \A k \in U : \E i \in T : f[i] = k
    <3>1. SUFFICES ASSUME NEW k \in U PROVE \E i \in T : f[i] = k
      OBVIOUS
    <3>2. k - 1 \in T /\ k \in Int
      BY <1>1 DEF Under
    <3>3. f[k - 1] = k
      BY <3>2
    <3>. QED  BY <3>2, <3>3
  <2>. QED  BY <2>1, <2>2, <2>3, Fun_IsBij
<1>4. Cardinality(T) = Cardinality(U)
  BY <1>2, <1>3, FS_Bijection DEF ExistsBijection
<1>5. Cardinality(U) = IF 1 \in Under(q, e) THEN Cardinality(Under(q, e)) - 1
                                            ELSE Cardinality(Under(q, e))
  BY <1>2, FS_RemoveElement
<1>6. 1 \in Under(q, e) <=> Head(q) = e
  BY <1>1 DEF Under
<1>. QED  BY <1>2, <1>4, <1>5, <1>6

Values(q) == {q[i] : i \in 1 .. Len(q)}
FramesOf(q) == {q[i].frame : i \in 1 .. Len(q)}

(* Rising, for pictures (of which 0 is none) and for samples. *)
Rising(q) == \A i, j \in 1 .. Len(q) : i < j /\ q[i] # 0 /\ q[j] # 0 => q[i] < q[j]
RisingFrames(q) == \A i, j \in 1 .. Len(q) : i < j => q[i].frame < q[j].frame

Below(A, B) == \A a \in A, b \in B : a < b

----------------------------------------------------------------------------
(* The inductive invariant.                                                 *)

MfPlaces == {"unborn", "mf_open", "top", "pump", "send", "finish", "send_tail", "done"}
NvencPlaces == {"unborn", "nvenc_load", "nvenc_open", "nvenc_initialize",
                "top", "convert", "encode", "submit", "done"}

(* Of the two branches one is taken, and the state of the other rests. *)
Branches ==
  /\ adapter = "other" => NvencInit /\ loop \in MfPlaces
  /\ adapter = "nvidia" => MfInit /\ loop \in NvencPlaces

(* What the transform is owed and owes. *)
Accounts ==
  /\ RequestsAreAccountedFor
  /\ Cardinality(Under(events, "have")) <= Len(ready)
  /\ ~ Finishing => stream = "open"
  /\ loop = "finish" => rounds # 0

(* The pictures that may have been rendered after the last in the queue of   *)
(* the transform: those the loop has queued, and, once it no longer renders, *)
(* those it has dropped from its queue or could not put there.               *)
Room == IF Finishing THEN Ahead ELSE Len(tex_queue)

(* How old what is in flight can be: each call since was for a picture in    *)
(* flight behind it, or it failed.                                           *)
InFlightIsRecent ==
  /\ Len(tex_queue) <= Ahead
  /\ \A i \in 1 .. Len(tex_queue) :
       calls <= tex_queue[i].frame + (Room - i) + FailuresSince(tex_queue[i])
  /\ \A i \in 1 .. Len(reading) :
       calls <= reading[i].frame + (Len(reading) - i) + Room + FailuresSince(reading[i])

(* Until the ring has come round to it, it is in its texture. *)
InPlace(s) ==
  /\ s.frame # 0 /\ s.frame <= calls /\ s.failures <= failures
  /\ ring[s.slot] # 0
  /\ calls < s.frame + Ring =>
       /\ s.slot + (calls - s.frame) \in {ring_index, ring_index + Ring}
       /\ ring[s.slot] = s.frame

InFlight == Values(tex_queue) \cup Values(reading)

InFlightIsInPlace == \A s \in InFlight : InPlace(s)

(* What each queue holds is above what the next one holds: s was shown, C are *)
(* the pictures collected, R those ready, G and Q what the transform reads    *)
(* and what is queued for it, and n were rendered in all.                     *)
Chain(s, C, R, G, Q, n) ==
  /\ Below(G, Q)
  /\ Below(R, G \cup Q)
  /\ Below(C, R \cup G \cup Q)
  /\ Below({s}, C \cup R \cup G \cup Q)
  /\ Below(C \cup R \cup {s}, {n + 1})

(* What the transform and the viewers get are pictures that were rendered. *)
Genuine ==
  /\ \A d \in Slots : ring[d] <= calls
  /\ \A i \in 1 .. Len(ready) : ready[i] <= calls
  /\ \A i \in 1 .. Len(collected) : collected[i] # 0 /\ collected[i] <= calls
  /\ shown <= calls

(* From the source to the viewers, the pictures are in order. *)
InOrder ==
  /\ RisingFrames(tex_queue) /\ RisingFrames(reading) /\ Rising(ready) /\ Rising(collected)
  /\ Chain(shown, Values(collected), Values(ready) \ {0}, FramesOf(reading), FramesOf(tex_queue),
           calls)

Ordered == ~ torn => InOrder

(* NVENC: a texture is lent only between the calls that map and unmap it,    *)
(* and what is encoded is the picture rendered last.                         *)
Lent ==
  /\ NothingIsLent
  /\ loop \in {"nvenc_load", "nvenc_open", "nvenc_initialize", "unborn"} => mapped = {}
  /\ loop \in {"encode", "submit"} => ring[ring_index] = calls /\ shown < calls
  /\ shown <= calls

IInv ==
  /\ GpuTypeOK /\ Branches /\ Accounts
  /\ InFlightIsRecent /\ InFlightIsInPlace /\ Genuine /\ Ordered
  /\ Lent /\ KeyframeNotForgotten

----------------------------------------------------------------------------
(* The converter.                                                           *)

LEMMA NextSlotFacts ==
  ASSUME NEW i \in Slots
  PROVE  NextSlot(i) \in Slots /\ NextSlot(i) \in {i + 1, i + 1 - Ring}
  BY GpuLoopAssumption DEF Slots, NextSlot

LEMMA AdvanceTyped ==
  ASSUME GpuLoopTypeOK, Advance
  PROVE  /\ calls' = calls + 1 /\ calls' \in Nat
         /\ ring_index' \in Slots
         /\ ring_index' \in {ring_index + 1, ring_index + 1 - Ring}
  BY NextSlotFacts DEF GpuLoopTypeOK, Advance

LEMMA ConvertTyped ==
  ASSUME GpuLoopTypeOK, Convert
  PROVE  /\ ring' \in [Slots -> Nat]
         /\ ring'[ring_index'] = calls'
         /\ \A s \in Slots : s # ring_index' => ring'[s] = ring[s]
  BY AdvanceTyped DEF GpuLoopTypeOK, Convert

----------------------------------------------------------------------------
(* Media Foundation: types and accounts.                                    *)

Core == GpuTypeOK /\ Branches /\ Accounts

LEMMA NeedsAreUnder == \A q : NeedsUnder(q) = Under(q, "need")
  BY DEF NeedsUnder, Under

(* What a step of the transform does to its queues. *)
LEMMA SubmitFacts ==
  ASSUME MfTypeOK, Submit, tex_queue # <<>>
  PROVE  /\ tex_queue' \in Seq(Samples) /\ reading' \in Seq(Samples)
         /\ granted' = granted - 1
         /\ Len(reading') = Len(reading) + 1
         /\ Len(tex_queue') = Len(tex_queue) - 1
<1>1. Head(tex_queue) \in Samples /\ Tail(tex_queue) \in Seq(Samples)
  BY TailFacts DEF MfTypeOK
<1>. QED  BY <1>1, TailFacts, AppendFacts DEF MfTypeOK, Submit

LEMMA EventFacts ==
  ASSUME MfTypeOK, NEW e, GetEvent(e)
  PROVE  /\ events' \in Seq({"need", "have", "drained"})
         /\ e \in {"need", "have", "drained"}
         /\ iters' \in 0 .. PumpLimit
         /\ Cardinality(NeedsUnder(events)) \in Nat /\ Cardinality(Under(events, "have")) \in Nat
         /\ e = "need" => Cardinality(NeedsUnder(events')) = Cardinality(NeedsUnder(events)) - 1
         /\ e # "need" => Cardinality(NeedsUnder(events')) = Cardinality(NeedsUnder(events))
         /\ e = "have" => Cardinality(Under(events', "have")) = Cardinality(Under(events, "have")) - 1
         /\ e # "have" => Cardinality(Under(events', "have")) = Cardinality(Under(events, "have"))
         /\ Cardinality(NeedsUnder(events')) \in Nat /\ Cardinality(Under(events', "have")) \in Nat
<1>. DEFINE E == {"need", "have", "drained"}
<1>1. events \in Seq(E) /\ events # <<>> /\ Head(events) = e /\ events' = Tail(events)
  BY DEF MfTypeOK, GetEvent
<1>2. events' \in Seq(E) /\ e \in E
  BY <1>1, TailFacts
<1>3. iters' \in 0 .. PumpLimit
  BY MfAssumption DEF MfTypeOK, GetEvent, Pumping
<1>4. \A x : /\ Cardinality(Under(events, x)) \in Nat /\ Cardinality(Under(events', x)) \in Nat
             /\ Cardinality(Under(events', x)) =
                  Cardinality(Under(events, x)) - (IF e = x THEN 1 ELSE 0)
  BY <1>1, <1>2, UnderFinite, UnderTail
<1>. QED  BY <1>2, <1>3, <1>4, NeedsAreUnder

LEMMA AnnounceFacts ==
  ASSUME MfTypeOK, NEW e \in {"need", "have", "drained"}, Announce(e)
  PROVE  /\ events' \in Seq({"need", "have", "drained"})
         /\ Cardinality(NeedsUnder(events)) \in Nat /\ Cardinality(Under(events, "have")) \in Nat
         /\ e = "need" => Cardinality(NeedsUnder(events')) = Cardinality(NeedsUnder(events)) + 1
         /\ e # "need" => Cardinality(NeedsUnder(events')) = Cardinality(NeedsUnder(events))
         /\ e = "have" => Cardinality(Under(events', "have")) = Cardinality(Under(events, "have")) + 1
         /\ e # "have" => Cardinality(Under(events', "have")) = Cardinality(Under(events, "have"))
<1>. DEFINE E == {"need", "have", "drained"}
<1>1. events \in Seq(E) /\ events' = Append(events, e)
  BY DEF MfTypeOK, Announce
<1>2. events' \in Seq(E)
  BY <1>1, AppendFacts
<1>3. \A x : /\ Cardinality(Under(events, x)) \in Nat
             /\ Cardinality(Under(events', x)) =
                  Cardinality(Under(events, x)) + (IF e = x THEN 1 ELSE 0)
  BY <1>1, UnderFinite, UnderAppend
<1>. QED  BY <1>2, <1>3, NeedsAreUnder

(* A request is answered only when there is one. *)
LEMMA DeferredIsGranted ==
  ASSUME Core, adapter = "other"
  PROVE  /\ Pumping /\ Deferred => granted # 0 /\ tex_queue # <<>> /\ loop = "pump"
         /\ GetEvent("need") /\ InputQueue # <<>> => granted # 0 /\ tex_queue # <<>> /\ loop = "pump"
<1>1. ASSUME Pumping, InputQueue # <<>>
      PROVE  loop = "pump" /\ tex_queue # <<>> /\ granted = pending + Cardinality(NeedsUnder(events))
  BY <1>1 DEF Pumping, InputQueue, Core, Accounts, RequestsAreAccountedFor, Finishing
<1>2. Cardinality(NeedsUnder(events)) \in Nat /\ pending \in Nat
  BY NeedsAreUnder, UnderFinite DEF Core, GpuTypeOK, MfTypeOK
<1>3. ASSUME GetEvent("need") PROVE Cardinality(NeedsUnder(events)) # 0
  BY <1>3, EventFacts DEF Core, GpuTypeOK
<1>. QED  BY <1>1, <1>2, <1>3 DEF Deferred, GetEvent

(* The transform's own steps. *)
LEMMA MftCore ==
  ASSUME Core, adapter = "other", MftSteps, UNCHANGED <<nvencVars, adapter>>
  PROVE  Core'
<1>. USE DEF Core, GpuTypeOK, MfTypeOK, MftSteps, converterVars, loopVars, sentVars, pumpVars,
         nvencVars, keyframeVars, sessionVars
<1>1. GpuLoopTypeOK' /\ NvencTypeOK' /\ adapter' = adapter
  BY DEF GpuLoopTypeOK, NvencTypeOK
<1>2. Branches'
  BY DEF Branches, NvencInit
<1>3. MfTypeOK' /\ Accounts'
  <2>. USE DEF Accounts, RequestsAreAccountedFor, Finishing
  <2>1. CASE MftAsks
    <3>1. /\ events' \in Seq({"need", "have", "drained"})
          /\ Cardinality(NeedsUnder(events)) \in Nat
          /\ Cardinality(NeedsUnder(events')) = Cardinality(NeedsUnder(events)) + 1
          /\ Cardinality(Under(events', "have")) = Cardinality(Under(events, "have"))
      BY <2>1, AnnounceFacts, UnderFinite DEF MftAsks
    <3>2. Len(reading) \in Nat
      OBVIOUS
    <3>3. MfTypeOK'
      BY <2>1, <3>1 DEF MftAsks
    <3>4. RequestsAreAccountedFor'
      <4>1. UNCHANGED <<loop, pending, reading>> /\ granted' = granted + 1
            /\ granted + Len(reading) < MftDepth
        BY <2>1 DEF MftAsks
      <4>. QED  BY SMTT(30), <3>1, <3>2, <4>1, MfAssumption
    <3>5. Accounts'
      BY <2>1, <3>1, <3>4 DEF MftAsks
    <3>. QED  BY <3>3, <3>5
  <2>2. CASE MftEncodes
    <3>1. /\ Head(reading).slot \in Slots /\ Tail(reading) \in Seq(Samples)
          /\ Len(reading) \in Nat /\ Len(reading') = Len(reading) - 1
      <4>1. Head(reading) \in Samples /\ Tail(reading) \in Seq(Samples)
            /\ Len(reading) \in Nat /\ Len(Tail(reading)) = Len(reading) - 1
        BY <2>2, TailFacts DEF MftEncodes
      <4>. QED  BY <2>2, <4>1 DEF MftEncodes, Samples
    <3>2. ring[Head(reading).slot] \in Nat
      BY <3>1 DEF GpuLoopTypeOK
    <3>3. ready' \in Seq(Nat) /\ Len(ready') = Len(ready) + 1 /\ Len(ready) \in Nat
      BY <2>2, <3>2, AppendFacts DEF MftEncodes
    <3>. QED  BY <2>2, <3>1, <3>3, AnnounceFacts, MfAssumption DEF MftEncodes
  <2>3. CASE MftRenegotiates
    <3>1. ready' \in Seq(Nat) /\ Len(ready') = Len(ready) + 1 /\ Len(ready) \in Nat
      BY <2>3, AppendFacts DEF MftRenegotiates
    <3>. QED  BY <2>3, <3>1, AnnounceFacts DEF MftRenegotiates
  <2>4. CASE MftDrains
    BY <2>4, AnnounceFacts DEF MftDrains
  <2>. QED  BY <2>1, <2>2, <2>3, <2>4
<1>. QED  BY <1>1, <1>2, <1>3

(* Rendering and queueing. *)
LEMMA RenderCore ==
  ASSUME Core, adapter = "other", UNCHANGED <<nvencVars, adapter>>,
         ConvertAndEnqueue \/ GpuConvertFails \/ EnqueueFails
  PROVE  Core'
<1>. USE DEF Core, GpuTypeOK, sentVars, loopVars, pumpVars, mftVars,
         nvencVars, keyframeVars, sessionVars
<1>1. /\ calls' \in Nat /\ ring_index' \in Slots
      /\ ring' \in [Slots -> Nat]
  BY AdvanceTyped, ConvertTyped
  DEF ConvertAndEnqueue, GpuConvertFails, EnqueueFails, Convert, ConvertFails, GpuLoopTypeOK
<1>2. loop' \in {"top", "pump", "finish"}
  BY DEF ConvertAndEnqueue, GpuConvertFails, EnqueueFails, BeginPump, BeginFinish
<1>3. GpuLoopTypeOK' /\ NvencTypeOK' /\ adapter' = adapter
  BY <1>1, <1>2 DEF ConvertAndEnqueue, GpuConvertFails, EnqueueFails, GpuLoopTypeOK, Labels,
     NvencTypeOK
<1>4. Branches'
  BY <1>2 DEF Branches, NvencInit, MfPlaces
<1>5. MfTypeOK'
  <2>1. CASE ConvertAndEnqueue
    <3>1. Sample \in Samples
      BY <1>1, MfAssumption DEF Sample, Samples, MfTypeOK
    <3>2. tex_queue' \in Seq(Samples)
      BY <2>1, <3>1, AppendFacts DEF ConvertAndEnqueue, MfTypeOK
    <3>. QED  BY <2>1, <3>2, MfAssumption DEF ConvertAndEnqueue, BeginPump, MfTypeOK
  <2>2. CASE GpuConvertFails
    BY <2>2, MfAssumption DEF GpuConvertFails, MfTypeOK
  <2>3. CASE EnqueueFails
    BY <2>3, MfAssumption DEF EnqueueFails, BeginFinish, MfTypeOK
  <2>. QED  BY <2>1, <2>2, <2>3
<1>6. Accounts'
  BY MfAssumption DEF ConvertAndEnqueue, GpuConvertFails, EnqueueFails, BeginPump, BeginFinish,
     Accounts, RequestsAreAccountedFor, Finishing
<1>. QED  BY <1>3, <1>4, <1>5, <1>6

(* The steps in which the loop only moves. *)
LEMMA MovesCore ==
  ASSUME Core, adapter = "other", UNCHANGED <<nvencVars, adapter>>,
         \/ SkipConvert \/ MfOpens \/ MfSeesShutdown
         \/ PumpReturns \/ FinishRound \/ AllSent
  PROVE  Core'
<1>. USE DEF Core, GpuTypeOK, sentVars, loopVars, pumpVars, mftVars, converterVars, pumpLeaves,
         nvencVars, keyframeVars, sessionVars,
         SkipConvert, MfOpens, MfSeesShutdown, PumpReturns, FinishRound, AllSent,
         BeginPump, BeginFinish
<1>1. /\ loop' \in {"top", "pump", "finish", "send", "send_tail", "done"}
      /\ loop \in {"mf_open", "top", "pump", "finish", "send", "send_tail"}
      /\ Finishing => Finishing'
  BY DEF Finishing
<1>2. GpuLoopTypeOK' /\ NvencTypeOK' /\ adapter' = adapter
  BY <1>1 DEF GpuLoopTypeOK, Labels, NvencTypeOK
<1>3. Branches'
  BY <1>1 DEF Branches, NvencInit, MfPlaces
<1>4. MfTypeOK'
  <2>1. iters' = iters \/ iters' = PumpLimit
    OBVIOUS
  <2>2. rounds' = rounds \/ rounds' = FinishRounds \/ (rounds' = rounds - 1 /\ rounds # 0)
    BY DEF Accounts
  <2>3. iters' \in 0 .. PumpLimit /\ rounds' \in 0 .. FinishRounds
    BY SMTT(30), <2>1, <2>2, MfAssumption DEF MfTypeOK
  <2>4. collected' = collected \/ collected' = <<>>
    OBVIOUS
  <2>5. stream' = stream \/ stream' = "ending"
    OBVIOUS
  <2>6. UNCHANGED <<tex_queue, reading, pending, granted, finished, renegotiated, torn, ready, failures, events>>
    OBVIOUS
  <2>7. collected' \in Seq(Nat)
    <3>1. collected \in Seq(Nat) /\ <<>> \in Seq(Nat)
      BY DEF MfTypeOK
    <3>. QED  BY <2>4, <3>1
  <2>8. stream' \in {"open", "ending", "drained"}
    BY <2>5 DEF MfTypeOK
  <2>9. finished' \in BOOLEAN /\ renegotiated' \in BOOLEAN /\ torn' \in BOOLEAN
    BY <2>6 DEF MfTypeOK
  <2>. QED  BY <2>3, <2>6, <2>7, <2>8, <2>9 DEF MfTypeOK
<1>5. Accounts'
  <2>1. RequestsAreAccountedFor'
    BY <1>1 DEF Accounts, RequestsAreAccountedFor, Finishing
  <2>2. (loop = "finish" => rounds # 0)'
    BY MfAssumption DEF Accounts, MfTypeOK
  <2>. QED  BY <1>1, <2>1, <2>2 DEF Accounts, Finishing
<1>. QED  BY <1>2, <1>3, <1>4, <1>5

(* One event, or one deferred request, handled. *)
LEMMA PumpCore ==
  ASSUME Core, adapter = "other", UNCHANGED <<nvencVars, adapter>>, Pump
  PROVE  Core'
<1>. USE DEF Core, GpuTypeOK, sentVars, loopVars, converterVars,
         nvencVars, keyframeVars, sessionVars
<1>1. UNCHANGED <<converterVars, loopVars>>
  BY DEF Pump, ServeDeferred, NeedInput, HaveOutput, DrainComplete
<1>2. GpuLoopTypeOK' /\ NvencTypeOK' /\ adapter' = adapter /\ Branches'
  BY <1>1 DEF GpuLoopTypeOK, NvencTypeOK, Branches, NvencInit
<1>3. MfTypeOK' /\ Accounts'
  <2>. USE <1>1
  <2>1. CASE ServeDeferred
    <3>1. granted # 0 /\ tex_queue # <<>> /\ Submit
      BY <2>1, DeferredIsGranted DEF ServeDeferred
    <3>2. Cardinality(NeedsUnder(events)) \in Nat
      BY NeedsAreUnder, UnderFinite DEF MfTypeOK
    <3>3. /\ tex_queue' \in Seq(Samples) /\ reading' \in Seq(Samples)
          /\ granted' = granted - 1 /\ Len(reading') = Len(reading) + 1
      BY <3>1, SubmitFacts
    <3>4. Len(reading) \in Nat
      BY DEF MfTypeOK
    <3>5. MfTypeOK'
      BY <2>1, <3>1, <3>3 DEF ServeDeferred, Deferred, MfTypeOK
    <3>6. Accounts'
      <4>1. /\ UNCHANGED <<loop, ready, rounds, stream, events>> /\ granted \in Nat
            /\ pending' = pending - 1 /\ pending \in Nat
        BY <2>1 DEF ServeDeferred, MfTypeOK
      <4>2. granted' + Len(reading') <= MftDepth
        BY <3>3, <3>4, <4>1, MfAssumption DEF Accounts, RequestsAreAccountedFor
      <4>3. (~Finishing => granted = pending + Cardinality(NeedsUnder(events)))'
        BY <3>2, <3>3, <4>1 DEF Accounts, RequestsAreAccountedFor, Finishing
      <4>. QED  BY <4>1, <4>2, <4>3 DEF Accounts, RequestsAreAccountedFor, Finishing
    <3>. QED  BY <3>5, <3>6
  <2>2. CASE NeedInput
    <3>1. GetEvent("need")
      BY <2>2 DEF NeedInput
    <3>2. /\ events' \in Seq({"need", "have", "drained"})
          /\ iters' \in 0 .. PumpLimit
          /\ Cardinality(NeedsUnder(events)) \in Nat /\ Cardinality(Under(events, "have")) \in Nat
          /\ Cardinality(NeedsUnder(events')) = Cardinality(NeedsUnder(events)) - 1
          /\ Cardinality(Under(events', "have")) = Cardinality(Under(events, "have"))
      BY <3>1, EventFacts
    <3>3. CASE InputQueue # <<>>
      <4>1. granted # 0 /\ tex_queue # <<>> /\ Submit /\ UNCHANGED pending
        BY <2>2, <3>1, <3>3, DeferredIsGranted DEF NeedInput
      <4>2. /\ tex_queue' \in Seq(Samples) /\ reading' \in Seq(Samples)
            /\ granted' = granted - 1 /\ Len(reading') = Len(reading) + 1
        BY <4>1, SubmitFacts
      <4>3. Len(reading) \in Nat
        BY DEF MfTypeOK
      <4>4. MfTypeOK'
        BY <2>2, <3>2, <4>1, <4>2 DEF NeedInput, MfTypeOK
      <4>5. Accounts'
        <5>1. UNCHANGED <<loop, ready, rounds, stream>> /\ granted \in Nat
          BY <2>2 DEF NeedInput, MfTypeOK
        <5>2. granted' + Len(reading') <= MftDepth
          BY <4>2, <4>3, <5>1, MfAssumption DEF Accounts, RequestsAreAccountedFor
        <5>3. (~Finishing => granted = pending + Cardinality(NeedsUnder(events)))'
          <6>1. ~Finishing => granted = pending + Cardinality(NeedsUnder(events))
            BY DEF Accounts, RequestsAreAccountedFor
          <6>2. (Finishing' <=> Finishing) /\ pending \in Nat
            BY <5>1 DEF Finishing, MfTypeOK
          <6>. QED  BY <3>2, <4>1, <4>2, <5>1, <6>1, <6>2
        <5>. QED  BY <3>2, <5>1, <5>2, <5>3 DEF Accounts, RequestsAreAccountedFor, Finishing
      <4>. QED  BY <4>4, <4>5
    <3>4. CASE InputQueue = <<>>
      <4>1. pending' = pending + 1 /\ UNCHANGED <<reading, tex_queue, granted>>
        BY <2>2, <3>4 DEF NeedInput
      <4>2. MfTypeOK'
        BY <2>2, <3>2, <4>1 DEF NeedInput, MfTypeOK
      <4>3. Accounts'
        BY <2>2, <3>2, <4>1 DEF NeedInput, MfTypeOK, Accounts, RequestsAreAccountedFor, Finishing
      <4>. QED  BY <4>2, <4>3
    <3>. QED  BY <3>3, <3>4
  <2>3. CASE HaveOutput
    <3>1. GetEvent("have")
      BY <2>3 DEF HaveOutput
    <3>2. /\ events' \in Seq({"need", "have", "drained"})
          /\ iters' \in 0 .. PumpLimit
          /\ Cardinality(NeedsUnder(events)) \in Nat /\ Cardinality(Under(events, "have")) \in Nat
          /\ Cardinality(NeedsUnder(events')) = Cardinality(NeedsUnder(events))
          /\ Cardinality(Under(events', "have")) = Cardinality(Under(events, "have")) - 1
      BY <3>1, EventFacts
    <3>3. ready # <<>>
      <4>1. Cardinality(Under(events, "have")) # 0
        BY <3>1, EventFacts
      <4>. QED  BY <3>2, <4>1 DEF Accounts, MfTypeOK
    <3>4. /\ Head(ready) \in Nat /\ ready' \in Seq(Nat)
          /\ Len(ready') = Len(ready) - 1 /\ Len(ready) \in Nat
      BY <2>3, <3>3, TailFacts DEF HaveOutput, MfTypeOK
    <3>5. collected' \in Seq(Nat)
      <4>1. collected' = collected \/ collected' = Append(collected, Head(ready))
        BY <2>3 DEF HaveOutput
      <4>2. collected \in Seq(Nat)
        BY DEF MfTypeOK
      <4>3. Append(collected, Head(ready)) \in Seq(Nat)
        BY <3>4, <4>2, AppendFacts
      <4>. QED  BY <4>1, <4>2, <4>3
    <3>6. MfTypeOK'
      BY <2>3, <3>2, <3>4, <3>5 DEF HaveOutput, MfTypeOK
    <3>7. Accounts'
      BY <2>3, <3>2, <3>4 DEF HaveOutput, MfTypeOK, Accounts, RequestsAreAccountedFor, Finishing
    <3>. QED  BY <3>6, <3>7
  <2>4. CASE DrainComplete
    <3>1. GetEvent("drained")
      BY <2>4 DEF DrainComplete
    <3>2. /\ events' \in Seq({"need", "have", "drained"})
          /\ iters' \in 0 .. PumpLimit
          /\ Cardinality(NeedsUnder(events)) \in Nat /\ Cardinality(Under(events, "have")) \in Nat
          /\ Cardinality(NeedsUnder(events')) = Cardinality(NeedsUnder(events))
          /\ Cardinality(Under(events', "have")) = Cardinality(Under(events, "have"))
      BY <3>1, EventFacts
    <3>3. MfTypeOK'
      BY <2>4, <3>2 DEF DrainComplete, MfTypeOK
    <3>4. Accounts'
      BY <2>4, <3>2 DEF DrainComplete, MfTypeOK, Accounts, RequestsAreAccountedFor, Finishing
    <3>. QED  BY <3>3, <3>4
  <2>. QED  BY <2>1, <2>2, <2>3, <2>4 DEF Pump
<1>. QED  BY <1>2, <1>3

(* A call that fails ends the loop, or finish. *)
LEMMA FailureCore ==
  ASSUME Core, adapter = "other", UNCHANGED <<nvencVars, adapter>>, PumpFails \/ FinishFails
  PROVE  Core'
<1>. USE DEF Core, GpuTypeOK, sentVars, loopVars, converterVars,
         nvencVars, keyframeVars, sessionVars
<1>1. CallFails /\ loop' \in {"finish", "done"} /\ UNCHANGED <<converterVars, shutdown, sentVars>>
  BY DEF PumpFails, FinishFails, BeginFinish
<1>2. GpuLoopTypeOK' /\ NvencTypeOK' /\ adapter' = adapter
  BY <1>1 DEF GpuLoopTypeOK, Labels, NvencTypeOK
<1>3. Branches'
  BY <1>1 DEF Branches, NvencInit, MfPlaces
<1>4. /\ tex_queue' \in Seq(Samples)
      /\ events' \in Seq({"need", "have", "drained"})
      /\ Cardinality(Under(events', "have")) <= Cardinality(Under(events, "have"))
  <2>1. InputQueue # <<>> => tex_queue # <<>>
    BY DEF InputQueue
  <2>2. tex_queue' \in Seq(Samples)
    BY <1>1, <2>1, TailFacts DEF CallFails, Deferred, MfTypeOK
  <2>3. CASE events' = events
    BY <2>2, <2>3, UnderFinite DEF MfTypeOK
  <2>4. CASE events # <<>> /\ events' = Tail(events)
    <3>1. events' \in Seq({"need", "have", "drained"})
      BY <2>4, TailFacts DEF MfTypeOK
    <3>2. Cardinality(Under(events', "have")) \in Nat /\ Cardinality(Under(events, "have")) \in Nat
      BY <3>1, UnderFinite DEF MfTypeOK
    <3>3. Cardinality(Under(events', "have")) =
            Cardinality(Under(events, "have")) - (IF Head(events) = "have" THEN 1 ELSE 0)
      BY <2>4, UnderTail DEF MfTypeOK
    <3>. QED  BY <2>2, <3>1, <3>2, <3>3
  <2>. QED  BY <1>1, <2>3, <2>4 DEF CallFails
<1>5. MfTypeOK'
  <2>1. iters' \in 0 .. PumpLimit /\ rounds' \in 0 .. FinishRounds
    BY MfAssumption DEF PumpFails, FinishFails, BeginFinish, MfTypeOK
  <2>2. collected' = <<>> /\ stream' \in {"open", "ending", "drained"}
    BY DEF PumpFails, FinishFails, BeginFinish, MfTypeOK
  <2>. QED  BY SMTT(30), <1>4, <2>1, <2>2 DEF PumpFails, FinishFails, BeginFinish, MfTypeOK
<1>6. Accounts'
  <2>1. Cardinality(Under(events, "have")) \in Nat /\ Cardinality(Under(events', "have")) \in Nat
    BY <1>4, UnderFinite DEF MfTypeOK
  <2>2. Cardinality(Under(events', "have")) <= Len(ready')
    BY <1>4, <2>1 DEF PumpFails, FinishFails, BeginFinish, MfTypeOK, Accounts
  <2>. QED  BY <1>1, <2>2, MfAssumption DEF PumpFails, FinishFails, BeginFinish, Accounts,
            RequestsAreAccountedFor, Finishing
<1>. QED  BY <1>2, <1>3, <1>5, <1>6

LEMMA SendCore ==
  ASSUME Core, adapter = "other", UNCHANGED <<nvencVars, adapter>>, SendUnit
  PROVE  Core'
<1>. USE DEF Core, GpuTypeOK, SendUnit, converterVars, mftVars,
         nvencVars, keyframeVars, sessionVars
<1>1. Head(collected) \in Nat /\ collected' \in Seq(Nat)
  BY TailFacts DEF MfTypeOK
<1>2. GpuLoopTypeOK' /\ NvencTypeOK' /\ adapter' = adapter
  BY <1>1 DEF GpuLoopTypeOK, NvencTypeOK, TrySendUnit, SendIt, sentVars
<1>3. MfTypeOK' /\ Branches' /\ Accounts'
  BY <1>1 DEF MfTypeOK, Branches, NvencInit, Accounts, RequestsAreAccountedFor, Finishing
<1>. QED  BY <1>2, <1>3

LEMMA MfCore ==
  ASSUME Core, adapter = "other", MfNext, UNCHANGED <<nvencVars, adapter>>
  PROVE  Core'
  BY MftCore, RenderCore, MovesCore, PumpCore, FailureCore, SendCore
  DEF MfNext, MfLoop, MfTroubles

----------------------------------------------------------------------------
(* NVENC: types, the textures it is lent and the keyframes it owes.         *)

NvencInv == Core /\ Lent /\ KeyframeNotForgotten

(* While the NVENC branch runs, nothing is queued for a transform. *)
LEMMA MfRests ==
  ASSUME Core, UNCHANGED <<mfVars, adapter>>, adapter = "nvidia", loop' \in NvencPlaces
  PROVE  MfTypeOK' /\ Branches' /\ Accounts'
<1>. USE DEF mfVars, pumpVars, mftVars
<1>1. MfTypeOK'
  BY DEF Core, GpuTypeOK, MfTypeOK
<1>2. Branches'
  BY DEF Core, Branches, MfInit
<1>3. MfInit
  BY DEF Core, Branches
<1>4. NeedsUnder(events) = {} /\ Cardinality(NeedsUnder(events)) = 0
  BY <1>3, FS_EmptySet DEF MfInit, NeedsUnder
<1>5. Accounts'
  BY <1>1, <1>3, <1>4 DEF MfInit, Core, Accounts, RequestsAreAccountedFor, NvencPlaces
<1>. QED  BY <1>1, <1>2, <1>5

LEMMA NvencStep ==
  ASSUME NvencInv, adapter = "nvidia", NvencNext, UNCHANGED <<mfVars, adapter>>
  PROVE  NvencInv'
<1>. USE DEF NvencInv, Core, GpuTypeOK, converterVars, sentVars, loopVars, nvencVars,
         keyframeVars, sessionVars
<1>1. loop' \in NvencPlaces
  BY DEF NvencNext, NvencLoop, NvencTroubles, LoadNvenc, OpenSession, InitializeSession, Opening,
     NvencSeesShutdown, Leave, SwapFlag, NvencConvert, MapTexture, EncodePicture,
     NvencConvertFails, MapFails, EncodeFails, LockFails, PictureLost, Branches, NvencPlaces
<1>2. MfTypeOK' /\ Branches' /\ Accounts'
  BY <1>1, MfRests
<1>3. ring_index \in Slots /\ calls \in Nat /\ shown \in Nat /\ units \in Nat /\ ring \in [Slots -> Nat]
  BY DEF GpuLoopTypeOK
<1>4. GpuLoopTypeOK' /\ NvencTypeOK' /\ Lent' /\ KeyframeNotForgotten'
  <2>. USE DEF GpuLoopTypeOK, NvencTypeOK, Lent, NothingIsLent, KeyframeNotForgotten, Labels
  <2>1. CASE LoadNvenc \/ OpenSession \/ InitializeSession
    BY <2>1 DEF LoadNvenc, OpenSession, InitializeSession, Opening
  <2>2. CASE NvencSeesShutdown
    BY <2>2 DEF NvencSeesShutdown, Leave
  <2>3. CASE SwapFlag
    <3>1. GpuLoopTypeOK' /\ Lent'
      BY <2>3 DEF SwapFlag
    <3>2. CASE force_keyframe
      <4>1. /\ force_idr' = TRUE /\ force_keyframe' = FALSE /\ taken' = requested
            /\ loop' = "convert"
            /\ UNCHANGED <<requested, answered, warm, registered, mapped>>
        BY <2>3, <3>2 DEF SwapFlag
      <4>2. missed' = FALSE
        BY <2>3, <3>2 DEF SwapFlag
      <4>3. KeyframeNotForgotten'
        BY <4>1
      <4>4. /\ requested' \in 0 .. MaxRequests
            /\ taken' \in 0 .. requested' /\ answered' \in 0 .. taken'
        BY <4>1, NvencAssumption
      <4>5. registered' \subseteq Slots /\ mapped' \subseteq Slots
        BY <4>1
      <4>6. /\ force_keyframe' \in BOOLEAN /\ force_idr' \in BOOLEAN
            /\ warm' \in BOOLEAN /\ missed' \in BOOLEAN
        BY <4>1, <4>2
      <4>7. NvencTypeOK'
        BY <4>4, <4>5, <4>6
      <4>. QED  BY <3>1, <4>3, <4>7
    <3>3. CASE ~ force_keyframe
      <4>1. /\ force_idr' = FALSE /\ force_keyframe' = FALSE /\ taken' = taken
            /\ loop' = "convert" /\ loop = "top"
            /\ UNCHANGED <<requested, answered, warm, registered, mapped>>
        BY <2>3, <3>3 DEF SwapFlag
      <4>2. missed' = missed
        BY <2>3, <3>3 DEF SwapFlag
      <4>3. KeyframeNotForgotten'
        BY <3>3, <4>1, <4>2
      <4>. QED  BY <3>1, <4>1, <4>2, <4>3
    <3>. QED  BY <3>2, <3>3
  <2>4. CASE NvencConvert
    <3>1. /\ calls' = calls + 1 /\ ring_index' \in Slots
          /\ ring' \in [Slots -> Nat] /\ ring'[ring_index'] = calls'
      BY <2>4, AdvanceTyped, ConvertTyped DEF NvencConvert, Convert
    <3>. QED  BY <2>4, <3>1 DEF NvencConvert
  <2>5. CASE NvencConvertFails
    <3>1. /\ calls' = calls + 1 /\ ring_index' \in Slots /\ ring' = ring
      BY <2>5, AdvanceTyped DEF NvencConvertFails, ConvertFails
    <3>. QED  BY <2>5, <3>1 DEF NvencConvertFails, Leave
  <2>6. CASE MapTexture
    BY <2>6, <1>3 DEF MapTexture
  <2>7. CASE MapFails
    BY <2>7 DEF MapFails, Leave
  <2>8. CASE EncodePicture
    BY <2>8, <1>3 DEF EncodePicture, Unmap, SendIt
  <2>9. CASE EncodeFails
    BY <2>9 DEF EncodeFails, Leave, Unmap
  <2>10. CASE LockFails
    BY <2>10 DEF LockFails, Leave
  <2>11. CASE PictureLost /\ UNCHANGED <<converterVars, loopVars>>
    <3>1. /\ requested' = requested + 1 /\ requested' \in 0 .. MaxRequests
          /\ force_keyframe' = TRUE
          /\ UNCHANGED <<loop, force_idr, warm, taken, answered, missed, registered, mapped>>
      BY <2>11, NvencAssumption DEF PictureLost
    <3>2. KeyframeNotForgotten'
      BY <3>1
    <3>3. NvencTypeOK'
      BY <3>1
    <3>. QED  BY <2>11, <3>1, <3>2, <3>3
  <2>. QED  BY <2>1, <2>2, <2>3, <2>4, <2>5, <2>6, <2>7, <2>8, <2>9, <2>10, <2>11
            DEF NvencNext, NvencLoop, NvencTroubles
<1>. QED  BY <1>2, <1>4

----------------------------------------------------------------------------
(* Queues of pictures.                                                      *)

LEMMA ValuesAppend ==
  ASSUME NEW S, NEW q \in Seq(S), NEW x \in S
  PROVE  /\ Values(Append(q, x)) = Values(q) \cup {x}
         /\ FramesOf(Append(q, x)) = FramesOf(q) \cup {x.frame}
<1>1. Len(q) \in Nat
  OBVIOUS
<1>2. /\ Len(Append(q, x)) = Len(q) + 1
      /\ \A i \in 1 .. Len(q) : Append(q, x)[i] = q[i]
      /\ Append(q, x)[Len(q) + 1] = x
  BY AppendFacts
<1>3. 1 .. Len(Append(q, x)) = (1 .. Len(q)) \cup {Len(q) + 1}
  BY <1>1, <1>2
<1>. QED  BY <1>2, <1>3 DEF Values, FramesOf

LEMMA ValuesTail ==
  ASSUME NEW S, NEW q \in Seq(S), q # <<>>
  PROVE  /\ Values(Tail(q)) \subseteq Values(q) /\ Head(q) \in Values(q)
         /\ FramesOf(Tail(q)) \subseteq FramesOf(q) /\ Head(q).frame \in FramesOf(q)
<1>1. /\ Len(q) \in Nat \ {0} /\ Head(q) = q[1] /\ Len(Tail(q)) = Len(q) - 1
      /\ \A i \in 1 .. Len(Tail(q)) : Tail(q)[i] = q[i + 1] /\ i + 1 \in 1 .. Len(q)
  BY TailFacts
<1>2. 1 \in 1 .. Len(q)
  BY <1>1
<1>. QED  BY <1>1, <1>2 DEF Values, FramesOf

LEMMA ValuesTyped ==
  ASSUME NEW S, NEW q \in Seq(S)
  PROVE  Values(q) \subseteq S /\ Values(<<>>) = {} /\ FramesOf(<<>>) = {}
  BY DEF Values, FramesOf

LEMMA RisingAppend ==
  ASSUME NEW q \in Seq(Nat), NEW x \in Nat, Rising(q),
         x # 0 => Below(Values(q) \ {0}, {x})
  PROVE  Rising(Append(q, x))
<1>1. Len(q) \in Nat
  OBVIOUS
<1>2. /\ Len(Append(q, x)) = Len(q) + 1
      /\ \A i \in 1 .. Len(q) : Append(q, x)[i] = q[i]
      /\ Append(q, x)[Len(q) + 1] = x
  BY AppendFacts
<1>3. SUFFICES ASSUME NEW i \in 1 .. Len(q) + 1, NEW j \in 1 .. Len(q) + 1, i < j,
                      Append(q, x)[i] # 0, Append(q, x)[j] # 0
               PROVE  Append(q, x)[i] < Append(q, x)[j]
  BY <1>2 DEF Rising
<1>4. i \in 1 .. Len(q)
  BY <1>1, <1>3
<1>5. CASE j \in 1 .. Len(q)
  BY <1>2, <1>3, <1>4, <1>5 DEF Rising
<1>6. CASE j = Len(q) + 1
  <2>1. q[i] \in Values(q) \ {0} /\ x # 0
    BY <1>2, <1>3, <1>4, <1>6 DEF Values
  <2>. QED  BY <1>2, <1>4, <1>6, <2>1 DEF Below
<1>. QED  BY <1>1, <1>3, <1>5, <1>6

LEMMA RisingTail ==
  ASSUME NEW q \in Seq(Nat), q # <<>>, Rising(q)
  PROVE  /\ Rising(Tail(q))
         /\ Head(q) # 0 => Below({Head(q)}, Values(Tail(q)) \ {0})
<1>1. /\ Len(q) \in Nat \ {0} /\ Head(q) = q[1] /\ Len(Tail(q)) = Len(q) - 1
      /\ \A i \in 1 .. Len(Tail(q)) : Tail(q)[i] = q[i + 1] /\ i + 1 \in 1 .. Len(q)
  BY TailFacts
<1>2. 1 \in 1 .. Len(q)
  BY <1>1
<1>3. Rising(Tail(q))
  BY <1>1 DEF Rising
<1>4. ASSUME NEW i \in 1 .. Len(Tail(q)), Tail(q)[i] # 0, Head(q) # 0
      PROVE  Head(q) < Tail(q)[i]
  <2>1. 1 < i + 1
    BY <1>1
  <2>. QED  BY <1>1, <1>2, <1>4, <2>1 DEF Rising
<1>. QED  BY <1>3, <1>4 DEF Below, Values

LEMMA RisingFramesAppend ==
  ASSUME NEW q \in Seq(Samples), NEW x \in Samples, RisingFrames(q),
         Below(FramesOf(q), {x.frame})
  PROVE  RisingFrames(Append(q, x))
<1>1. Len(q) \in Nat
  OBVIOUS
<1>2. /\ Len(Append(q, x)) = Len(q) + 1
      /\ \A i \in 1 .. Len(q) : Append(q, x)[i] = q[i]
      /\ Append(q, x)[Len(q) + 1] = x
  BY AppendFacts
<1>3. SUFFICES ASSUME NEW i \in 1 .. Len(q) + 1, NEW j \in 1 .. Len(q) + 1, i < j
               PROVE  Append(q, x)[i].frame < Append(q, x)[j].frame
  BY <1>2 DEF RisingFrames
<1>4. i \in 1 .. Len(q)
  BY <1>1, <1>3
<1>5. CASE j \in 1 .. Len(q)
  BY <1>2, <1>3, <1>4, <1>5 DEF RisingFrames
<1>6. CASE j = Len(q) + 1
  <2>1. q[i].frame \in FramesOf(q)
    BY <1>4 DEF FramesOf
  <2>. QED  BY <1>2, <1>4, <1>6, <2>1 DEF Below
<1>. QED  BY <1>1, <1>3, <1>5, <1>6

LEMMA RisingFramesTail ==
  ASSUME NEW q \in Seq(Samples), q # <<>>, RisingFrames(q)
  PROVE  /\ RisingFrames(Tail(q))
         /\ Below({Head(q).frame}, FramesOf(Tail(q)))
<1>1. /\ Len(q) \in Nat \ {0} /\ Head(q) = q[1] /\ Len(Tail(q)) = Len(q) - 1
      /\ \A i \in 1 .. Len(Tail(q)) : Tail(q)[i] = q[i + 1] /\ i + 1 \in 1 .. Len(q)
  BY TailFacts
<1>2. 1 \in 1 .. Len(q)
  BY <1>1
<1>3. RisingFrames(Tail(q))
  BY <1>1 DEF RisingFrames
<1>4. ASSUME NEW i \in 1 .. Len(Tail(q)) PROVE Head(q).frame < Tail(q)[i].frame
  <2>1. 1 < i + 1
    BY <1>1
  <2>. QED  BY <1>1, <1>2, <2>1 DEF RisingFrames
<1>. QED  BY <1>3, <1>4 DEF Below, FramesOf

----------------------------------------------------------------------------
(* Media Foundation: what is in flight keeps its texture.                   *)

MfInv == Core /\ InFlightIsRecent /\ InFlightIsInPlace /\ Ordered

LEMMA InFlightTyped ==
  ASSUME Core, NEW s \in InFlight
  PROVE  s \in Samples /\ s.frame \in Nat /\ s.slot \in Slots /\ s.failures \in Nat
<1>1. tex_queue \in Seq(Samples) /\ reading \in Seq(Samples)
  BY DEF Core, GpuTypeOK, MfTypeOK
<1>2. s \in Samples
  BY <1>1, ValuesTyped DEF InFlight
<1>. QED  BY <1>2 DEF Samples

LEMMA StaysInPlace ==
  ASSUME Core, InFlightIsInPlace, Convert \/ ConvertFails, failures' \in {failures, failures + 1},
         NEW s \in InFlight
  PROVE  InPlace(s)'
<1>1. /\ s.frame \in Nat /\ s.slot \in Slots /\ s.failures \in Nat /\ InPlace(s)
      /\ calls \in Nat /\ ring_index \in Slots /\ failures \in Nat
  BY InFlightTyped DEF InFlightIsInPlace, Core, GpuTypeOK, GpuLoopTypeOK, MfTypeOK
<1>2. /\ calls' = calls + 1
      /\ ring_index' \in Slots /\ ring_index' \in {ring_index + 1, ring_index + 1 - Ring}
  BY AdvanceTyped DEF Convert, ConvertFails, Core, GpuTypeOK
<1>3. ring'[s.slot] = ring[s.slot] \/ (s.slot = ring_index' /\ ring'[s.slot] = calls + 1)
  BY <1>1, <1>2, ConvertTyped DEF ConvertFails, Core, GpuTypeOK
<1>4. s.frame # 0 /\ s.frame <= calls' /\ s.failures <= failures' /\ ring'[s.slot] # 0
  <2>1. s.frame # 0 /\ s.frame <= calls /\ s.failures <= failures /\ ring[s.slot] # 0
    BY <1>1 DEF InPlace
  <2>. QED  BY <1>1, <1>2, <1>3, <2>1
<1>5. ASSUME calls' < s.frame + Ring
      PROVE  s.slot + (calls' - s.frame) \in {ring_index', ring_index' + Ring} /\ ring'[s.slot] = s.frame
  <2>. DEFINE f == s.frame
              d == s.slot
              i == ring_index
              j == ring_index'
              n == calls
  <2>1. /\ f \in Nat /\ n \in Nat /\ Ring \in Nat /\ f <= n
        /\ d \in Nat /\ d < Ring /\ i \in Nat /\ i < Ring /\ j \in Nat /\ j < Ring
    BY <1>1, <1>2, GpuLoopAssumption DEF Slots, InPlace
  <2>2. n + 1 < f + Ring
    BY <1>2, <1>5
  <2>3. n < f + Ring
    BY <2>1, <2>2
  <2>4. (d + (n - f) = i \/ d + (n - f) = i + Ring) /\ ring[s.slot] = s.frame
    BY <1>1, <2>3 DEF InPlace
  <2>5. j = i + 1 \/ j = i + 1 - Ring
    BY <1>2
  <2>. HIDE DEF f, d, i, j, n
  <2>6. d + ((n + 1) - f) = j \/ d + ((n + 1) - f) = j + Ring
    BY <2>1, <2>2, <2>4, <2>5
  <2>7. d # j
    BY <2>1, <2>2, <2>6
  <2>. QED  BY <1>2, <1>3, <2>4, <2>6, <2>7 DEF f, d, j, n
<1>. QED  BY <1>4, <1>5 DEF InPlace

(* The step a texture, or a sample of one, takes from one queue to the next. *)
MovesOn ==
  \/ UNCHANGED <<tex_queue, reading>>
  \/ Submit /\ tex_queue # <<>> /\ ~ Finishing /\ ~ Finishing'
  \/ reading # <<>> /\ reading' = Tail(reading) /\ UNCHANGED tex_queue
  \/ tex_queue # <<>> /\ tex_queue' = Tail(tex_queue) /\ UNCHANGED reading /\ Finishing'

LEMMA StillInFlight ==
  ASSUME Core, MovesOn
  PROVE  InFlight' \subseteq InFlight
<1>1. tex_queue \in Seq(Samples) /\ reading \in Seq(Samples)
  BY DEF Core, GpuTypeOK, MfTypeOK
<1>2. CASE UNCHANGED <<tex_queue, reading>>
  BY <1>2 DEF InFlight, Values
<1>3. CASE Submit /\ tex_queue # <<>>
  <2>1. Head(tex_queue) \in Samples
    BY <1>1, <1>3, TailFacts
  <2>2. /\ Values(reading') = Values(reading) \cup {Head(tex_queue)}
        /\ Values(tex_queue') \subseteq Values(tex_queue)
        /\ Head(tex_queue) \in Values(tex_queue)
    BY <1>1, <1>3, <2>1, ValuesAppend, ValuesTail DEF Submit
  <2>. QED  BY <2>2 DEF InFlight, Values
<1>4. CASE reading # <<>> /\ reading' = Tail(reading) /\ UNCHANGED tex_queue
  <2>1. Values(reading') \subseteq Values(reading) /\ Values(tex_queue') = Values(tex_queue)
    BY <1>1, <1>4, ValuesTail
  <2>. QED  BY <2>1 DEF InFlight, Values
<1>5. CASE tex_queue # <<>> /\ tex_queue' = Tail(tex_queue) /\ UNCHANGED reading
  <2>1. Values(tex_queue') \subseteq Values(tex_queue) /\ Values(reading') = Values(reading)
    BY <1>1, <1>5, ValuesTail
  <2>. QED  BY <2>1 DEF InFlight, Values
<1>. QED  BY <1>2, <1>3, <1>4, <1>5 DEF MovesOn

LEMMA StillRecent ==
  ASSUME Core, Core', InFlightIsRecent, MovesOn, UNCHANGED <<calls, failures>>, Finishing => Finishing'
  PROVE  InFlightIsRecent'
<1>1. /\ tex_queue \in Seq(Samples) /\ reading \in Seq(Samples)
      /\ Len(tex_queue) \in Nat /\ Len(reading) \in Nat /\ Len(tex_queue) <= Ahead
      /\ calls \in Nat /\ failures \in Nat /\ Ahead \in Nat
  <2>1. tex_queue \in Seq(Samples) /\ reading \in Seq(Samples)
    BY DEF Core, GpuTypeOK, MfTypeOK
  <2>2. calls \in Nat /\ failures \in Nat /\ Ahead \in Nat
    BY MfAssumption DEF Core, GpuTypeOK, MfTypeOK, GpuLoopTypeOK
  <2>. QED  BY <2>1, <2>2 DEF InFlightIsRecent
<1>2. /\ Room \in Nat /\ Len(tex_queue) <= Room /\ Room <= Ahead
      /\ Finishing' => Room' = Ahead
      /\ ~ Finishing' => Room = Len(tex_queue) /\ Room' = Len(tex_queue')
  BY <1>1 DEF Room
<1>. SUFFICES ASSUME NEW r, r = Room, NEW r1, r1 = Room'
              PROVE  /\ Len(tex_queue') <= Ahead
                     /\ \A i \in 1 .. Len(tex_queue') :
                          calls <= tex_queue'[i].frame + (r1 - i) + (failures - tex_queue'[i].failures)
                     /\ \A i \in 1 .. Len(reading') :
                          calls <= reading'[i].frame + (Len(reading') - i) + r1
                                     + (failures - reading'[i].failures)
  BY DEF InFlightIsRecent, FailuresSince
<1>3. /\ \A i \in 1 .. Len(tex_queue) :
           calls <= tex_queue[i].frame + (r - i) + (failures - tex_queue[i].failures)
      /\ \A i \in 1 .. Len(reading) :
           calls <= reading[i].frame + (Len(reading) - i) + r + (failures - reading[i].failures)
  BY DEF InFlightIsRecent, FailuresSince
<1>4. /\ \A i \in 1 .. Len(tex_queue) : tex_queue[i].frame \in Nat /\ tex_queue[i].failures \in Nat
      /\ \A i \in 1 .. Len(reading) : reading[i].frame \in Nat /\ reading[i].failures \in Nat
  <2>1. \A s \in Samples : s.frame \in Nat /\ s.failures \in Nat
    BY DEF Samples
  <2>. QED  BY <1>1, <2>1
<1>5. CASE Submit /\ tex_queue # <<>> /\ ~ Finishing /\ ~ Finishing'
  <2>1. /\ Head(tex_queue) \in Samples /\ Head(tex_queue) = tex_queue[1]
        /\ Len(tex_queue') = Len(tex_queue) - 1 /\ Len(tex_queue) # 0
        /\ \A i \in 1 .. Len(tex_queue') : tex_queue'[i] = tex_queue[i + 1]
    BY <1>1, <1>5, TailFacts DEF Submit
  <2>2. /\ Len(reading') = Len(reading) + 1
        /\ \A i \in 1 .. Len(reading) : reading'[i] = reading[i]
        /\ reading'[Len(reading) + 1] = tex_queue[1]
    BY <1>1, <1>5, <2>1, AppendFacts DEF Submit
  <2>3. r = Len(tex_queue) /\ r1 = r - 1 /\ r \in Nat \ {0}
    BY <1>1, <1>2, <1>5, <2>1
  <2>4. ASSUME NEW i \in 1 .. Len(tex_queue')
        PROVE  calls <= tex_queue'[i].frame + (r1 - i) + (failures - tex_queue'[i].failures)
    <3>1. i + 1 \in 1 .. Len(tex_queue) /\ tex_queue'[i] = tex_queue[i + 1]
      BY <1>1, <2>1
    <3>2. calls <= tex_queue[i + 1].frame + (r - (i + 1)) + (failures - tex_queue[i + 1].failures)
      BY <1>3, <3>1
    <3>3. tex_queue[i + 1].frame \in Nat /\ tex_queue[i + 1].failures \in Nat
      BY <1>4, <3>1
    <3>. QED  BY SMTT(30), <1>1, <2>3, <3>1, <3>2, <3>3
  <2>5. ASSUME NEW i \in 1 .. Len(reading')
        PROVE  calls <= reading'[i].frame + (Len(reading') - i) + r1 + (failures - reading'[i].failures)
    <3>1. CASE i \in 1 .. Len(reading)
      <4>1. calls <= reading[i].frame + (Len(reading) - i) + r + (failures - reading[i].failures)
        BY <1>3, <3>1
      <4>2. reading'[i] = reading[i] /\ reading[i].frame \in Nat /\ reading[i].failures \in Nat /\ i \in Nat
        BY <1>4, <2>2, <3>1
      <4>. QED  BY SMTT(30), <1>1, <2>2, <2>3, <4>1, <4>2
    <3>2. CASE i = Len(reading) + 1
      <4>1. 1 \in 1 .. Len(tex_queue)
        BY <1>1, <2>1
      <4>2. /\ calls <= tex_queue[1].frame + (r - 1) + (failures - tex_queue[1].failures)
            /\ tex_queue[1].frame \in Nat /\ tex_queue[1].failures \in Nat
        BY <1>3, <1>4, <4>1
      <4>. QED  BY SMTT(30), <1>1, <2>2, <2>3, <3>2, <4>2
    <3>. QED  BY <1>1, <2>2, <3>1, <3>2
  <2>. QED  BY <1>1, <2>1, <2>4, <2>5
<1>6. ASSUME r1 \in Nat, r <= r1, tex_queue' = tex_queue \/ (tex_queue # <<>> /\ tex_queue' = Tail(tex_queue))
      PROVE  /\ Len(tex_queue') <= Ahead
             /\ \A i \in 1 .. Len(tex_queue') :
                  calls <= tex_queue'[i].frame + (r1 - i) + (failures - tex_queue'[i].failures)
  <2>1. CASE tex_queue' = tex_queue
    <3>1. ASSUME NEW i \in 1 .. Len(tex_queue)
          PROVE  calls <= tex_queue[i].frame + (r1 - i) + (failures - tex_queue[i].failures)
      <4>1. /\ calls <= tex_queue[i].frame + (r - i) + (failures - tex_queue[i].failures)
            /\ tex_queue[i].frame \in Nat /\ tex_queue[i].failures \in Nat /\ i \in Nat
        BY <1>3, <1>4
      <4>2. r \in Nat
        BY <1>2
      <4>. QED  BY SMTT(30), <1>1, <1>6, <4>1, <4>2
    <3>. QED  BY <1>1, <2>1, <3>1
  <2>2. CASE tex_queue # <<>> /\ tex_queue' = Tail(tex_queue)
    <3>1. /\ Len(tex_queue') = Len(tex_queue) - 1 /\ Len(tex_queue) # 0
          /\ \A i \in 1 .. Len(tex_queue') : tex_queue'[i] = tex_queue[i + 1]
      BY <1>1, <2>2, TailFacts
    <3>2. ASSUME NEW i \in 1 .. Len(tex_queue')
          PROVE  calls <= tex_queue'[i].frame + (r1 - i) + (failures - tex_queue'[i].failures)
      <4>1. i + 1 \in 1 .. Len(tex_queue) /\ tex_queue'[i] = tex_queue[i + 1] /\ i \in Nat
        BY <1>1, <3>1
      <4>2. /\ calls <= tex_queue[i + 1].frame + (r - (i + 1)) + (failures - tex_queue[i + 1].failures)
            /\ tex_queue[i + 1].frame \in Nat /\ tex_queue[i + 1].failures \in Nat
        BY <1>3, <1>4, <4>1
      <4>3. r \in Nat /\ i \in Nat /\ calls \in Nat /\ failures \in Nat
        BY <1>1, <1>2, <4>1
      <4>4. calls <= tex_queue[i + 1].frame + (r1 - i) + (failures - tex_queue[i + 1].failures)
        BY SMTT(30), <1>6, <4>2, <4>3
      <4>. QED  BY <4>1, <4>4
    <3>3. Len(tex_queue') <= Ahead
      <4>1. Len(tex_queue) \in Nat /\ Len(tex_queue) <= Ahead /\ Ahead \in Nat
        BY <1>1
      <4>. QED  BY <3>1, <4>1
    <3>. QED  BY <3>2, <3>3
  <2>. QED  BY <1>6, <2>1, <2>2
<1>7. ASSUME r1 \in Nat, r <= r1, reading' = reading \/ (reading # <<>> /\ reading' = Tail(reading))
      PROVE  \A i \in 1 .. Len(reading') :
               calls <= reading'[i].frame + (Len(reading') - i) + r1 + (failures - reading'[i].failures)
  <2>1. CASE reading' = reading
    <3>1. ASSUME NEW i \in 1 .. Len(reading)
          PROVE  calls <= reading[i].frame + (Len(reading) - i) + r1 + (failures - reading[i].failures)
      <4>1. /\ calls <= reading[i].frame + (Len(reading) - i) + r + (failures - reading[i].failures)
            /\ reading[i].frame \in Nat /\ reading[i].failures \in Nat
        BY <1>3, <1>4
      <4>. QED  BY SMTT(30), <1>1, <1>2, <1>7, <4>1
    <3>. QED  BY <2>1, <3>1
  <2>2. CASE reading # <<>> /\ reading' = Tail(reading)
    <3>1. /\ Len(reading') = Len(reading) - 1 /\ Len(reading) # 0
          /\ \A i \in 1 .. Len(reading') : reading'[i] = reading[i + 1]
      BY <1>1, <2>2, TailFacts
    <3>2. ASSUME NEW i \in 1 .. Len(reading')
          PROVE  calls <= reading'[i].frame + (Len(reading') - i) + r1 + (failures - reading'[i].failures)
      <4>1. i + 1 \in 1 .. Len(reading) /\ reading'[i] = reading[i + 1] /\ i \in Nat
        BY <1>1, <3>1
      <4>2. /\ calls <= reading[i + 1].frame + (Len(reading) - (i + 1)) + r + (failures - reading[i + 1].failures)
            /\ reading[i + 1].frame \in Nat /\ reading[i + 1].failures \in Nat
        BY <1>3, <1>4, <4>1
      <4>. QED  BY SMTT(30), <1>1, <1>2, <1>7, <3>1, <4>1, <4>2
    <3>. QED  BY <3>2
  <2>. QED  BY <1>7, <2>1, <2>2
<1>8. CASE \/ UNCHANGED <<tex_queue, reading>>
           \/ reading # <<>> /\ reading' = Tail(reading) /\ UNCHANGED tex_queue
  <2>1. r1 \in Nat /\ r <= r1
    BY <1>1, <1>2, <1>8
  <2>. QED  BY <1>6, <1>7, <1>8, <2>1
<1>9. CASE tex_queue # <<>> /\ tex_queue' = Tail(tex_queue) /\ UNCHANGED reading /\ Finishing'
  <2>1. r1 \in Nat /\ r <= r1
    BY <1>1, <1>2, <1>9
  <2>. QED  BY <1>6, <1>7, <1>9, <2>1
<1>. QED  BY <1>5, <1>8, <1>9 DEF MovesOn

LEMMA StillInPlace ==
  ASSUME Core, InFlightIsInPlace, MovesOn, UNCHANGED <<converterVars, failures>>
  PROVE  InFlightIsInPlace'
  BY StillInFlight DEF InFlightIsInPlace, InPlace, converterVars

----------------------------------------------------------------------------
(* Media Foundation: pictures stay in order.                                *)

LEMMA OrderTyped ==
  ASSUME Core
  PROVE  /\ Values(collected) \subseteq Nat /\ Values(ready) \subseteq Nat
         /\ FramesOf(reading) \subseteq Nat /\ FramesOf(tex_queue) \subseteq Nat
         /\ shown \in Nat /\ calls \in Nat
         /\ tex_queue \in Seq(Samples) /\ reading \in Seq(Samples)
         /\ collected \in Seq(Nat) /\ ready \in Seq(Nat)
<1>1. /\ tex_queue \in Seq(Samples) /\ reading \in Seq(Samples)
      /\ collected \in Seq(Nat) /\ ready \in Seq(Nat)
      /\ shown \in Nat /\ calls \in Nat
  BY DEF Core, GpuTypeOK, GpuLoopTypeOK, MfTypeOK
<1>2. \A q \in Seq(Samples) : FramesOf(q) \subseteq Nat
  <2>1. \A x \in Samples : x.frame \in Nat
    BY DEF Samples
  <2>. QED  BY <2>1 DEF FramesOf
<1>. QED  BY <1>1, <1>2, ValuesTyped

(* Frames in flight are among the pictures rendered. *)
LEMMA FlyingFrames ==
  ASSUME Core, InFlightIsInPlace
  PROVE  \A f \in FramesOf(reading) \cup FramesOf(tex_queue) : f # 0 /\ f <= calls
<1>1. FramesOf(reading) \cup FramesOf(tex_queue) = {s.frame : s \in InFlight}
  BY DEF FramesOf, InFlight, Values
<1>. QED  BY <1>1 DEF InFlightIsInPlace, InPlace

LEMMA OrderRests ==
  ASSUME Core, Core', InOrder, UNCHANGED <<reading, shown>>, ready' \in {ready, Append(ready, 0)},
         \/ tex_queue' = tex_queue
         \/ tex_queue # <<>> /\ tex_queue' = Tail(tex_queue),
         collected' \in {collected, <<>>}, calls' \in {calls, calls + 1}
  PROVE  InOrder'
<1>1. /\ Values(collected') \subseteq Values(collected) /\ Values(ready') \ {0} = Values(ready) \ {0}
      /\ FramesOf(tex_queue') \subseteq FramesOf(tex_queue)
      /\ FramesOf(reading') = FramesOf(reading)
  <2>1. Values(collected') \subseteq Values(collected)
    <3>1. Values(<<>>) = {}
      BY DEF Values
    <3>2. collected' = collected \/ collected' = <<>>
      OBVIOUS
    <3>. QED  BY <3>1, <3>2
  <2>2. Values(Append(ready, 0)) = Values(ready) \cup {0}
    BY OrderTyped, ValuesAppend
  <2>3. FramesOf(tex_queue') \subseteq FramesOf(tex_queue)
    BY OrderTyped, ValuesTail
  <2>. QED  BY <2>1, <2>2, <2>3
<1>2. RisingFrames(tex_queue') /\ RisingFrames(reading') /\ Rising(ready') /\ Rising(collected')
  <2>1. Rising(<<>>)
    BY DEF Rising
  <2>2. RisingFrames(tex_queue')
    BY OrderTyped, RisingFramesTail DEF InOrder
  <2>3. Rising(ready')
    BY OrderTyped, RisingAppend DEF InOrder
  <2>. QED  BY <2>1, <2>2, <2>3 DEF InOrder
<1>3. Chain(shown, Values(collected), Values(ready) \ {0}, FramesOf(reading), FramesOf(tex_queue), calls)
  BY DEF InOrder
<1>4. Chain(shown', Values(collected'), Values(ready') \ {0}, FramesOf(reading'), FramesOf(tex_queue'), calls')
  BY <1>1, <1>3, OrderTyped DEF Chain, Below
<1>. QED  BY <1>2, <1>4 DEF InOrder

LEMMA OrderEnqueues ==
  ASSUME Core, Core', InOrder, InFlightIsInPlace, NEW s \in Samples, s.frame = calls + 1,
         calls' = calls + 1, tex_queue' = Append(tex_queue, s),
         UNCHANGED <<reading, ready, collected, shown>>
  PROVE  InOrder'
<1>1. FramesOf(tex_queue') = FramesOf(tex_queue) \cup {calls + 1}
  BY OrderTyped, ValuesAppend
<1>2. RisingFrames(tex_queue') /\ RisingFrames(reading') /\ Rising(ready') /\ Rising(collected')
  <2>1. Below(FramesOf(tex_queue), {s.frame})
    BY FlyingFrames, OrderTyped DEF Below
  <2>2. RisingFrames(tex_queue')
    BY <2>1, OrderTyped, RisingFramesAppend DEF InOrder
  <2>. QED  BY <2>2 DEF InOrder
<1>3. Chain(shown, Values(collected), Values(ready) \ {0}, FramesOf(reading), FramesOf(tex_queue), calls)
  BY DEF InOrder
<1>4. Chain(shown, Values(collected), Values(ready) \ {0}, FramesOf(reading), FramesOf(tex_queue'), calls + 1)
  BY <1>1, <1>3, OrderTyped, FlyingFrames DEF Chain, Below
<1>. QED  BY <1>2, <1>4 DEF InOrder

LEMMA OrderSubmits ==
  ASSUME Core, Core', InOrder, Submit, tex_queue # <<>>,
         UNCHANGED <<ready, collected, shown, calls>>
  PROVE  InOrder'
<1>. DEFINE h == Head(tex_queue)
<1>1. h \in Samples /\ tex_queue' = Tail(tex_queue) /\ reading' = Append(reading, h)
  BY OrderTyped, TailFacts DEF Submit
<1>2. /\ FramesOf(tex_queue') \subseteq FramesOf(tex_queue) /\ h.frame \in FramesOf(tex_queue)
      /\ FramesOf(reading') = FramesOf(reading) \cup {h.frame}
      /\ Below({h.frame}, FramesOf(tex_queue')) /\ RisingFrames(tex_queue')
  <2>1. FramesOf(tex_queue') \subseteq FramesOf(tex_queue) /\ h.frame \in FramesOf(tex_queue)
    BY <1>1, OrderTyped, ValuesTail
  <2>2. FramesOf(reading') = FramesOf(reading) \cup {h.frame}
    BY <1>1, OrderTyped, ValuesAppend
  <2>3. Below({h.frame}, FramesOf(tex_queue')) /\ RisingFrames(tex_queue')
    BY <1>1, OrderTyped, RisingFramesTail DEF InOrder
  <2>. QED  BY <2>1, <2>2, <2>3
<1>3. RisingFrames(tex_queue') /\ RisingFrames(reading') /\ Rising(ready') /\ Rising(collected')
  <2>1. Below(FramesOf(reading), {h.frame})
    BY <1>2 DEF InOrder, Chain, Below
  <2>2. RisingFrames(reading')
    BY <1>1, <2>1, OrderTyped, RisingFramesAppend DEF InOrder
  <2>. QED  BY <1>2, <2>2 DEF InOrder
<1>4. Chain(shown, Values(collected), Values(ready) \ {0}, FramesOf(reading), FramesOf(tex_queue), calls)
  BY DEF InOrder
<1>5. Chain(shown, Values(collected), Values(ready) \ {0}, FramesOf(reading'), FramesOf(tex_queue'), calls)
  BY <1>2, <1>4 DEF Chain, Below
<1>. QED  BY <1>3, <1>5 DEF InOrder

LEMMA OrderEncodes ==
  ASSUME Core, Core', InOrder, InFlightIsInPlace, reading # <<>>, reading' = Tail(reading),
         Holds(Head(reading)), ready' = Append(ready, ring[Head(reading).slot]),
         UNCHANGED <<tex_queue, collected, shown, calls>>
  PROVE  InOrder'
<1>. DEFINE f == Head(reading).frame
<1>1. /\ Head(reading) \in Values(reading) /\ f \in FramesOf(reading)
      /\ FramesOf(reading') \subseteq FramesOf(reading)
      /\ Below({f}, FramesOf(reading')) /\ RisingFrames(reading')
  BY OrderTyped, ValuesTail, RisingFramesTail DEF InOrder
<1>2. ring[Head(reading).slot] = f
  BY DEF Holds
<1>3. f \in Nat /\ f # 0 /\ f <= calls
  BY <1>1, OrderTyped, FlyingFrames
<1>4. ready' = Append(ready, f)
  BY <1>2
<1>. HIDE DEF f
<1>8. Values(ready') = Values(ready) \cup {f}
  <2>1. ready \in Seq(Nat)
    BY OrderTyped
  <2>2. Values(Append(ready, f)) = Values(ready) \cup {f}
    BY SMTT(30), <1>3, <2>1, ValuesAppend
  <2>. QED  BY <1>4, <2>2
<1>5. RisingFrames(tex_queue') /\ RisingFrames(reading') /\ Rising(ready') /\ Rising(collected')
  <2>1. Below(Values(ready) \ {0}, {f})
    BY <1>1 DEF InOrder, Chain, Below
  <2>2. Rising(ready')
    BY <1>3, <1>4, <2>1, OrderTyped, RisingAppend DEF InOrder
  <2>. QED  BY <1>1, <2>2 DEF InOrder
<1>6. Chain(shown, Values(collected), Values(ready) \ {0}, FramesOf(reading), FramesOf(tex_queue), calls)
  BY DEF InOrder
<1>7. Chain(shown, Values(collected), Values(ready') \ {0}, FramesOf(reading'), FramesOf(tex_queue), calls)
  BY <1>1, <1>3, <1>6, <1>8, OrderTyped DEF Chain, Below
<1>. QED  BY <1>5, <1>7 DEF InOrder

LEMMA OrderCollects ==
  ASSUME Core, Core', InOrder, ready # <<>>, ready' = Tail(ready),
         collected' = IF Head(ready) = 0 THEN collected ELSE Append(collected, Head(ready)),
         UNCHANGED <<tex_queue, reading, shown, calls>>
  PROVE  InOrder'
<1>. DEFINE h == Head(ready)
<1>1. /\ h \in Nat /\ h \in Values(ready) /\ Values(ready') \subseteq Values(ready)
      /\ Rising(ready') /\ (h # 0 => Below({h}, Values(ready') \ {0}))
  BY OrderTyped, TailFacts, ValuesTail, RisingTail DEF InOrder
<1>2. Chain(shown, Values(collected), Values(ready) \ {0}, FramesOf(reading), FramesOf(tex_queue), calls)
  BY DEF InOrder
<1>3. (h = 0 => collected' = collected) /\ (h # 0 => collected' = Append(collected, h))
  OBVIOUS
<1>. HIDE DEF h
<1>4. CASE h = 0
  <2>1. Chain(shown, Values(collected), Values(ready') \ {0}, FramesOf(reading), FramesOf(tex_queue), calls)
    BY <1>1, <1>2 DEF Chain, Below
  <2>. QED  BY <1>1, <1>3, <1>4, <2>1 DEF InOrder
<1>5. CASE h # 0
  <2>1. Values(collected') = Values(collected) \cup {h}
    BY <1>1, <1>3, <1>5, OrderTyped, ValuesAppend
  <2>2. Below(Values(collected) \ {0}, {h})
    BY <1>1, <1>2, <1>5 DEF Chain, Below
  <2>3. Rising(collected')
    BY <1>1, <1>3, <1>5, <2>2, OrderTyped, RisingAppend DEF InOrder
  <2>4. Chain(shown, Values(collected'), Values(ready') \ {0}, FramesOf(reading), FramesOf(tex_queue), calls)
    BY <1>1, <1>2, <1>5, <2>1 DEF Chain, Below
  <2>. QED  BY <1>1, <2>3, <2>4 DEF InOrder
<1>. QED  BY <1>4, <1>5

LEMMA OrderSends ==
  ASSUME Core, Core', InOrder, collected # <<>>, collected' = Tail(collected),
         shown' \in {shown, Head(collected)},
         UNCHANGED <<tex_queue, reading, ready, calls>>
  PROVE  InOrder'
<1>. DEFINE h == Head(collected)
<1>1. /\ h \in Nat /\ h \in Values(collected) /\ Values(collected') \subseteq Values(collected)
      /\ Rising(collected') /\ (h # 0 => Below({h}, Values(collected') \ {0}))
  BY OrderTyped, TailFacts, ValuesTail, RisingTail DEF InOrder
<1>2. Chain(shown, Values(collected), Values(ready) \ {0}, FramesOf(reading), FramesOf(tex_queue), calls)
  BY DEF InOrder
<1>3. shown' = shown \/ shown' = h
  OBVIOUS
<1>. HIDE DEF h
<1>4. 0 \notin Values(collected) /\ h # 0
  <2>1. \A x \in Values(collected) : shown < x
    BY <1>2 DEF Chain, Below
  <2>2. shown \in Nat /\ Values(collected) \subseteq Nat
    BY OrderTyped
  <2>. QED  BY <1>1, <2>1, <2>2
<1>5. Chain(shown, Values(collected'), Values(ready) \ {0}, FramesOf(reading), FramesOf(tex_queue), calls)
  BY <1>1, <1>2 DEF Chain, Below
<1>6. Chain(h, Values(collected'), Values(ready) \ {0}, FramesOf(reading), FramesOf(tex_queue), calls)
  BY <1>1, <1>2, <1>4 DEF Chain, Below
<1>7. RisingFrames(tex_queue') /\ RisingFrames(reading') /\ Rising(ready') /\ Rising(collected')
  BY <1>1 DEF InOrder
<1>8. CASE shown' = shown
  BY <1>5, <1>7, <1>8 DEF InOrder
<1>9. CASE shown' = h
  BY <1>6, <1>7, <1>9 DEF InOrder
<1>. QED  BY <1>3, <1>8, <1>9

----------------------------------------------------------------------------
(* Media Foundation: every step.                                            *)

(* A picture rendered is in its texture, which no other in flight is in. *)
LEMMA RenderedIsInPlace ==
  ASSUME Core, Convert, UNCHANGED failures,
         NEW s, s = [frame |-> calls', slot |-> ring_index', failures |-> failures]
  PROVE  s \in Samples /\ s.frame = calls + 1 /\ s.failures = failures /\ InPlace(s)'
<1>1. /\ calls' = calls + 1 /\ calls' \in Nat /\ ring_index' \in Slots
      /\ ring'[ring_index'] = calls' /\ failures \in Nat
  BY AdvanceTyped, ConvertTyped DEF Convert, Core, GpuTypeOK, MfTypeOK
<1>2. calls' # 0 /\ calls' <= calls' /\ calls' - calls' = 0 /\ ring_index' + 0 = ring_index'
      /\ failures <= failures
  <2>1. calls \in Nat
    BY DEF Core, GpuTypeOK, GpuLoopTypeOK
  <2>2. ring_index' \in Nat
    BY <1>1, GpuLoopAssumption DEF Slots
  <2>3. \A n, i \in Nat : n + 1 # 0 /\ n <= n /\ n - n = 0 /\ i + 0 = i
    OBVIOUS
  <2>. QED  BY <1>1, <2>1, <2>2, <2>3
<1>3. s.frame = calls' /\ s.slot = ring_index' /\ s.failures = failures
  OBVIOUS
<1>. QED  BY <1>1, <1>2, <1>3 DEF Samples, InPlace

(* The bound on an age holds on when one more call has failed, or has found   *)
(* room for one more behind.                                                 *)
LEMMA StillYoung ==
  ASSUME NEW c \in Nat, NEW f \in Nat, NEW m \in Int, NEW k \in Nat, NEW r \in Nat,
         NEW e \in Nat, NEW b \in Nat, NEW g \in Nat,
         c <= f + m + k + (e - g), k <= r, b = e + 1 \/ (b = e /\ k + 1 <= r)
  PROVE  c + 1 <= f + m + r + (b - g)
  OBVIOUS

LEMMA MfRenders ==
  ASSUME MfInv, Core', adapter = "other", UNCHANGED <<nvencVars, adapter>>,
         ConvertAndEnqueue \/ GpuConvertFails \/ EnqueueFails
  PROVE  InFlightIsRecent' /\ InFlightIsInPlace' /\ Ordered'
<1>1. /\ loop = "top" /\ Len(tex_queue) < Ahead /\ (Convert \/ ConvertFails)
      /\ calls' = calls + 1 /\ calls \in Nat
      /\ failures' \in {failures, failures + 1} /\ torn' = torn
  BY AdvanceTyped DEF ConvertAndEnqueue, GpuConvertFails, EnqueueFails, Convert, ConvertFails, mftVars,
     MfInv, Core, GpuTypeOK, GpuLoopTypeOK
<1>2. \A s \in InFlight : InPlace(s)'
  BY <1>1, StaysInPlace DEF MfInv
<1>3. /\ tex_queue \in Seq(Samples) /\ reading \in Seq(Samples)
      /\ Len(tex_queue) \in Nat /\ Len(reading) \in Nat /\ failures \in Nat /\ Ahead \in Nat
  BY SMTT(30), MfAssumption DEF MfInv, Core, GpuTypeOK, MfTypeOK
<1>4. /\ \A i \in 1 .. Len(tex_queue) :
           calls <= tex_queue[i].frame + (Len(tex_queue) - i) + (failures - tex_queue[i].failures)
      /\ \A i \in 1 .. Len(reading) :
           calls <= reading[i].frame + (Len(reading) - i) + Len(tex_queue) + (failures - reading[i].failures)
  BY <1>1 DEF MfInv, InFlightIsRecent, Room, Finishing, FailuresSince
<1>5. /\ \A i \in 1 .. Len(tex_queue) : tex_queue[i].frame \in Nat /\ tex_queue[i].failures \in Nat
      /\ \A i \in 1 .. Len(reading) : reading[i].frame \in Nat /\ reading[i].failures \in Nat
  <2>1. \A s \in Samples : s.frame \in Nat /\ s.failures \in Nat
    BY DEF Samples
  <2>. QED  BY <1>3, <2>1
<1>6. CASE ConvertAndEnqueue
  <2>1. /\ Convert /\ tex_queue' = Append(tex_queue, Sample)
        /\ UNCHANGED <<reading, ready, collected, shown, failures>> /\ loop' = "pump"
    BY <1>6 DEF ConvertAndEnqueue, BeginPump, mftVars, sentVars
  <2>. PICK s : s = Sample
    OBVIOUS
  <2>2. /\ s \in Samples /\ s.frame = calls + 1 /\ s.failures = failures /\ InPlace(s)'
        /\ tex_queue' = Append(tex_queue, s)
    BY <2>1, RenderedIsInPlace DEF Sample, MfInv
  <2>3. /\ Len(tex_queue') = Len(tex_queue) + 1
        /\ \A i \in 1 .. Len(tex_queue) : tex_queue'[i] = tex_queue[i]
        /\ tex_queue'[Len(tex_queue) + 1] = s
        /\ Values(tex_queue') = Values(tex_queue) \cup {s}
    BY <1>3, <2>2, AppendFacts, ValuesAppend
  <2>4. InFlightIsInPlace'
    <3>1. InFlight' = InFlight \cup {s}
      BY <2>1, <2>3 DEF InFlight, Values
    <3>. QED  BY <1>2, <2>2, <3>1 DEF InFlightIsInPlace, InPlace
  <2>5. InFlightIsRecent'
    <3>1. ASSUME NEW i \in 1 .. Len(tex_queue')
          PROVE  calls + 1 <= tex_queue'[i].frame + (Len(tex_queue') - i) + (failures - tex_queue'[i].failures)
      <4>1. CASE i \in 1 .. Len(tex_queue)
        <5>1. /\ calls <= tex_queue[i].frame + (Len(tex_queue) - i) + (failures - tex_queue[i].failures)
              /\ tex_queue[i].frame \in Nat /\ tex_queue[i].failures \in Nat
          BY <1>4, <1>5, <4>1
        <5>. QED  BY SMTT(30), <1>1, <1>3, <2>3, <4>1, <5>1
      <4>2. CASE i = Len(tex_queue) + 1
        BY <1>1, <1>3, <2>2, <2>3, <4>2
      <4>. QED  BY <1>3, <2>3, <4>1, <4>2
    <3>2. ASSUME NEW i \in 1 .. Len(reading)
          PROVE  calls + 1 <= reading[i].frame + (Len(reading) - i) + Len(tex_queue')
                                + (failures - reading[i].failures)
      <4>1. calls <= reading[i].frame + (Len(reading) - i) + Len(tex_queue) + (failures - reading[i].failures)
        BY <1>4
      <4>2. reading[i].frame \in Nat /\ reading[i].failures \in Nat /\ i \in Nat
        BY <1>5
      <4>. QED  BY SMTT(30), <1>1, <1>3, <2>3, <4>1, <4>2
    <3>3. Room' = Len(tex_queue') /\ Len(tex_queue') <= Ahead
      BY <1>1, <1>3, <2>1, <2>3 DEF Room, Finishing
    <3>. QED  BY <1>1, <2>1, <3>1, <3>2, <3>3 DEF InFlightIsRecent, FailuresSince
  <2>6. InOrder => InOrder'
    BY <1>1, <2>1, <2>2, OrderEnqueues DEF MfInv
  <2>. QED  BY <1>1, <2>4, <2>5, <2>6 DEF MfInv, Ordered
<1>7. CASE GpuConvertFails \/ EnqueueFails
  <2>1. UNCHANGED <<reading, ready, shown, tex_queue>> /\ collected' \in {collected, <<>>}
    BY <1>7 DEF GpuConvertFails, EnqueueFails, BeginFinish, mftVars, sentVars, loopVars, pumpVars
  <2>2. InFlightIsInPlace'
    BY <1>2, <2>1 DEF InFlightIsInPlace, InFlight, Values
  <2>3. InFlightIsRecent'
    <3>1. /\ Room' \in Nat /\ Len(tex_queue) <= Room'
          /\ failures' = failures + 1 \/ (failures' = failures /\ Len(tex_queue) + 1 <= Room')
      <4>1. CASE GpuConvertFails
        BY <1>1, <1>3, <2>1, <4>1 DEF GpuConvertFails, loopVars, Room, Finishing
      <4>2. CASE EnqueueFails
        BY <1>1, <1>3, <2>1, <4>2 DEF EnqueueFails, BeginFinish, Room, Finishing
      <4>. QED  BY <1>7, <4>1, <4>2
    <3>. SUFFICES ASSUME NEW r, r = Room', NEW b, b = failures'
                  PROVE  /\ \A i \in 1 .. Len(tex_queue) :
                              calls + 1 <= tex_queue[i].frame + (r - i) + (b - tex_queue[i].failures)
                         /\ \A i \in 1 .. Len(reading) :
                              calls + 1 <= reading[i].frame + (Len(reading) - i) + r + (b - reading[i].failures)
      BY <1>1, <1>3, <2>1 DEF InFlightIsRecent, FailuresSince
    <3>4. /\ r \in Nat /\ Len(tex_queue) <= r
          /\ b = failures + 1 \/ (b = failures /\ Len(tex_queue) + 1 <= r)
      BY <3>1
    <3>2. ASSUME NEW i \in 1 .. Len(tex_queue)
          PROVE  calls + 1 <= tex_queue[i].frame + (r - i) + (b - tex_queue[i].failures)
      <4>1. /\ calls <= tex_queue[i].frame + (Len(tex_queue) - i) + (failures - tex_queue[i].failures)
            /\ tex_queue[i].frame \in Nat /\ tex_queue[i].failures \in Nat /\ i \in Nat
        BY <1>4, <1>5
      <4>2. Len(tex_queue) \in Nat /\ failures \in Nat /\ calls \in Nat
        BY <1>1, <1>3
      <4>3. calls <= tex_queue[i].frame + (0 - i) + Len(tex_queue) + (failures - tex_queue[i].failures)
        BY SMTT(30), <4>1, <4>2
      <4>4. /\ b \in Nat /\ 0 - i \in Int
        BY <3>4, <4>1, <4>2
      <4>5. calls + 1 <= tex_queue[i].frame + (0 - i) + r + (b - tex_queue[i].failures)
        BY <3>4, <4>1, <4>2, <4>3, <4>4, StillYoung
      <4>6. r \in Nat
        BY <3>4
      <4>. QED  BY SMTT(30), <4>1, <4>4, <4>5, <4>6
    <3>3. ASSUME NEW i \in 1 .. Len(reading)
          PROVE  calls + 1 <= reading[i].frame + (Len(reading) - i) + r + (b - reading[i].failures)
      <4>1. /\ calls <= reading[i].frame + (Len(reading) - i) + Len(tex_queue) + (failures - reading[i].failures)
            /\ reading[i].frame \in Nat /\ reading[i].failures \in Nat /\ i \in Nat
        BY <1>4, <1>5
      <4>2. Len(tex_queue) \in Nat /\ Len(reading) \in Nat /\ failures \in Nat /\ calls \in Nat
        BY <1>1, <1>3
      <4>3. b \in Nat /\ Len(reading) - i \in Int
        BY <3>4, <4>1, <4>2
      <4>. QED  BY <3>4, <4>1, <4>2, <4>3, StillYoung
    <3>. QED  BY <3>2, <3>3
  <2>4. InOrder => InOrder'
    BY <1>1, <2>1, OrderRests DEF MfInv
  <2>. QED  BY <1>1, <2>2, <2>3, <2>4 DEF MfInv, Ordered
<1>. QED  BY <1>6, <1>7

(* The transform's events and steps. *)
LEMMA MfServes ==
  ASSUME MfInv, Core', adapter = "other", UNCHANGED <<nvencVars, adapter>>, Pump \/ MftSteps
  PROVE  InFlightIsRecent' /\ InFlightIsInPlace' /\ Ordered'
<1>1. UNCHANGED <<loop, converterVars, failures, shown>>
  BY DEF Pump, ServeDeferred, NeedInput, HaveOutput, DrainComplete, MftSteps, loopVars, sentVars
<1>2. ASSUME MovesOn PROVE InFlightIsRecent' /\ InFlightIsInPlace'
  <2>1. UNCHANGED <<calls, failures>> /\ (Finishing => Finishing')
    BY <1>1 DEF Finishing, converterVars
  <2>. QED  BY <1>1, <1>2, <2>1, StillRecent, StillInPlace DEF MfInv
<1>3. ASSUME Submit, tex_queue # <<>>, loop = "pump", UNCHANGED <<ready, collected, torn>>
      PROVE  MovesOn /\ Ordered'
  <2>1. InOrder => InOrder'
    BY <1>1, <1>3, OrderSubmits DEF MfInv, converterVars
  <2>. QED  BY <1>1, <1>3, <2>1 DEF MovesOn, MfInv, Ordered, Finishing
<1>4. ASSUME UNCHANGED <<reading, tex_queue, collected, torn>>, ready' \in {ready, Append(ready, 0)}
      PROVE  MovesOn /\ Ordered'
  <2>1. calls' = calls
    BY <1>1 DEF converterVars
  <2>2. InOrder => InOrder'
    BY <1>1, <1>4, <2>1, OrderRests DEF MfInv
  <2>. QED  BY <1>4, <2>2 DEF MovesOn, MfInv, Ordered
<1>5. MovesOn /\ Ordered'
  <2>1. CASE ServeDeferred
    <3>1. Submit /\ tex_queue # <<>> /\ loop = "pump" /\ UNCHANGED <<ready, collected, torn>>
      BY <2>1, DeferredIsGranted DEF ServeDeferred, MfInv
    <3>. QED  BY <1>3, <3>1
  <2>2. CASE NeedInput
    <3>1. UNCHANGED <<ready, collected, torn>> /\ GetEvent("need")
      BY <2>2 DEF NeedInput
    <3>2. CASE InputQueue # <<>>
      <4>1. Submit /\ tex_queue # <<>> /\ loop = "pump"
        BY <2>2, <3>1, <3>2, DeferredIsGranted DEF NeedInput, MfInv
      <4>. QED  BY <1>3, <3>1, <4>1
    <3>3. CASE InputQueue = <<>>
      <4>1. UNCHANGED <<reading, tex_queue>>
        BY <2>2, <3>3 DEF NeedInput
      <4>. QED  BY <1>4, <3>1, <4>1
    <3>. QED  BY <3>2, <3>3
  <2>3. CASE HaveOutput
    <3>1. /\ UNCHANGED <<reading, tex_queue, torn>> /\ ready' = Tail(ready)
          /\ collected' = IF Head(ready) = 0 THEN collected ELSE Append(collected, Head(ready))
      BY <2>3 DEF HaveOutput
    <3>2. ready # <<>>
      <4>1. GetEvent("have") /\ MfTypeOK
        BY <2>3 DEF HaveOutput, MfInv, Core, GpuTypeOK
      <4>2. /\ Cardinality(Under(events, "have")) \in Nat
            /\ Cardinality(Under(events', "have")) \in Nat
            /\ Cardinality(Under(events', "have")) = Cardinality(Under(events, "have")) - 1
        BY <4>1, EventFacts
      <4>3. Cardinality(Under(events, "have")) # 0
        BY <4>2
      <4>. QED  BY <4>2, <4>3 DEF MfInv, Core, Accounts
    <3>3. calls' = calls
      BY <1>1 DEF converterVars
    <3>4. InOrder => InOrder'
      BY <1>1, <3>1, <3>2, <3>3, OrderCollects DEF MfInv
    <3>. QED  BY <3>1, <3>4 DEF MovesOn, MfInv, Ordered
  <2>4. CASE DrainComplete
    BY <1>4, <2>4 DEF DrainComplete
  <2>5. CASE MftSteps /\ (MftAsks \/ MftDrains)
    BY <1>4, <2>5 DEF MftSteps, MftAsks, MftDrains, pumpVars
  <2>6. CASE MftSteps /\ MftRenegotiates
    BY <1>4, <2>6 DEF MftSteps, MftRenegotiates, pumpVars
  <2>7. CASE MftSteps /\ MftEncodes
    <3>1. /\ reading # <<>> /\ reading' = Tail(reading)
          /\ ready' = Append(ready, ring[Head(reading).slot])
          /\ torn' = (torn \/ ~ Holds(Head(reading)))
          /\ UNCHANGED <<tex_queue, collected>>
      BY <2>7 DEF MftSteps, MftEncodes, pumpVars
    <3>2. calls' = calls
      BY <1>1 DEF converterVars
    <3>3. ASSUME ~ torn' PROVE InOrder'
      <4>1. InOrder /\ Holds(Head(reading))
        BY <3>1, <3>3 DEF MfInv, Ordered
      <4>. QED  BY <1>1, <3>1, <3>2, <4>1, OrderEncodes DEF MfInv
    <3>. QED  BY <3>1, <3>3 DEF MovesOn, Ordered
  <2>. QED  BY <2>1, <2>2, <2>3, <2>4, <2>5, <2>6, <2>7 DEF Pump, MftSteps
<1>. QED  BY <1>2, <1>5

(* The steps of the loop that render nothing. *)
LEMMA MfMoves ==
  ASSUME MfInv, Core', adapter = "other", UNCHANGED <<nvencVars, adapter>>,
         \/ SkipConvert \/ MfOpens \/ MfSeesShutdown \/ PumpReturns \/ FinishRound \/ AllSent
         \/ PumpFails \/ FinishFails \/ SendUnit
  PROVE  InFlightIsRecent' /\ InFlightIsInPlace' /\ Ordered'
<1>1. /\ UNCHANGED <<converterVars, failures, reading, ready, torn>>
      /\ Finishing => Finishing'
  BY DEF SkipConvert, MfOpens, MfSeesShutdown, PumpReturns, FinishRound, AllSent, SendUnit,
     PumpFails, FinishFails, BeginPump, BeginFinish, pumpLeaves, mftVars, pumpVars, Finishing
<1>2. MovesOn
  <2>1. CASE PumpFails \/ FinishFails
    <3>1. CallFails /\ Finishing'
      BY <2>1 DEF PumpFails, FinishFails, BeginFinish, Finishing
    <3>2. tex_queue' = tex_queue \/ (tex_queue # <<>> /\ tex_queue' = Tail(tex_queue))
      BY <3>1 DEF CallFails, Deferred, InputQueue
    <3>. QED  BY <1>1, <3>1, <3>2 DEF MovesOn
  <2>2. CASE ~ (PumpFails \/ FinishFails)
    <3>1. tex_queue' = tex_queue
      BY <2>2 DEF SkipConvert, MfOpens, MfSeesShutdown, PumpReturns, FinishRound, AllSent, SendUnit,
         pumpLeaves, pumpVars
    <3>. QED  BY <1>1, <3>1 DEF MovesOn
  <2>. QED  BY <2>1, <2>2
<1>3. InFlightIsRecent' /\ InFlightIsInPlace'
  <2>1. UNCHANGED calls
    BY <1>1 DEF converterVars
  <2>. QED  BY <1>1, <1>2, <2>1, StillRecent, StillInPlace DEF MfInv
<1>4. InOrder => InOrder'
  <2>1. calls' = calls
    BY <1>1 DEF converterVars
  <2>2. CASE SendUnit
    <3>1. /\ collected # <<>> /\ collected' = Tail(collected)
          /\ shown' \in {shown, Head(collected)} /\ tex_queue' = tex_queue
      BY <2>2 DEF SendUnit, TrySendUnit, SendIt, sentVars
    <3>. QED  BY <1>1, <2>1, <3>1, OrderSends DEF MfInv
  <2>3. CASE ~ SendUnit
    <3>1. collected' \in {collected, <<>>} /\ shown' = shown
      BY <2>3 DEF SkipConvert, MfOpens, MfSeesShutdown, PumpReturns, FinishRound, AllSent,
         PumpFails, FinishFails, BeginPump, BeginFinish, pumpLeaves, pumpVars, sentVars
    <3>2. tex_queue' = tex_queue \/ (tex_queue # <<>> /\ tex_queue' = Tail(tex_queue))
      <4>1. Submit => UNCHANGED ready /\ tex_queue' = Tail(tex_queue)
        BY <1>1 DEF Submit
      <4>. QED  BY <1>1, <1>2, <4>1 DEF MovesOn
    <3>. QED  BY <1>1, <2>1, <3>1, <3>2, OrderRests DEF MfInv
  <2>. QED  BY <2>2, <2>3
<1>. QED  BY <1>1, <1>3, <1>4 DEF MfInv, Ordered

LEMMA MfStepInv ==
  ASSUME MfInv, adapter = "other", MfNext, UNCHANGED <<nvencVars, adapter>>
  PROVE  MfInv'
<1>1. Core'
  BY MfCore DEF MfInv
<1>. QED  BY <1>1, MfRenders, MfServes, MfMoves DEF MfInv, MfNext, MfLoop, MfTroubles

----------------------------------------------------------------------------
(* Both branches.                                                           *)

LEMMA InitInv == GpuInit => IInv
<1>. SUFFICES ASSUME GpuInit PROVE IInv
  OBVIOUS
<1>. USE DEF GpuInit
<1>1. GpuLoopTypeOK
  <2>1. ring \in [Slots -> Nat] /\ ring_index \in Slots
    BY GpuLoopAssumption DEF GpuLoopInit, NewConverter, Slots
  <2>2. loop \in Labels /\ shutdown \in BOOLEAN
    BY DEF GpuLoopInit, Labels
  <2>. QED  BY <2>1, <2>2 DEF GpuLoopInit, NewConverter, GpuLoopTypeOK
<1>2. MfTypeOK
  <2>1. /\ <<>> \in Seq(Samples) /\ <<>> \in Seq(Nat)
        /\ <<>> \in Seq({"need", "have", "drained"})
    OBVIOUS
  <2>2. 0 \in 0 .. PumpLimit /\ 0 \in 0 .. FinishRounds /\ 0 \in 0 .. MaxFailures
    BY MfAssumption
  <2>. QED  BY <2>1, <2>2 DEF MfInit, MfTypeOK
<1>3. NvencTypeOK
  <2>1. 0 \in 0 .. MaxRequests /\ 0 \in 0 .. 0
    BY NvencAssumption
  <2>. QED  BY <2>1 DEF NvencInit, NvencTypeOK
<1>4. Branches
  BY DEF GpuLoopInit, Branches, MfPlaces, NvencPlaces
<1>5. Accounts
  <2>1. Under(events, "have") = {} /\ NeedsUnder(events) = {}
    BY DEF MfInit, Under, NeedsUnder
  <2>2. Cardinality(Under(events, "have")) = 0 /\ Cardinality(NeedsUnder(events)) = 0
    BY <2>1, FS_EmptySet
  <2>. QED  BY <2>2, MfAssumption DEF GpuLoopInit, MfInit, Accounts, RequestsAreAccountedFor
<1>6. Core
  BY <1>1, <1>2, <1>3, <1>4, <1>5 DEF Core, GpuTypeOK
<1>7. InFlightIsRecent /\ InFlightIsInPlace /\ Genuine /\ Ordered
  <2>1. tex_queue = <<>> /\ reading = <<>> /\ ready = <<>> /\ collected = <<>>
    BY DEF MfInit
  <2>2. 1 .. Len(<<>>) = {} /\ Len(<<>>) = 0
    OBVIOUS
  <2>3. Values(<<>>) = {} /\ FramesOf(<<>>) = {} /\ Rising(<<>>) /\ RisingFrames(<<>>)
    BY <2>2 DEF Values, FramesOf, Rising, RisingFrames
  <2>4. InFlight = {}
    BY <2>1, <2>3 DEF InFlight
  <2>5. shown = 0 /\ calls = 0 /\ \A d \in Slots : ring[d] = 0
    BY DEF GpuLoopInit, NewConverter
  <2>6. InFlightIsRecent /\ InFlightIsInPlace /\ Genuine
    BY <2>1, <2>2, <2>4, <2>5, MfAssumption DEF InFlightIsRecent, InFlightIsInPlace, Genuine
  <2>7. InOrder
    BY <2>1, <2>3, <2>5 DEF InOrder, Chain, Below
  <2>. QED  BY <2>6, <2>7 DEF Ordered
<1>8. Lent /\ KeyframeNotForgotten
  BY DEF GpuLoopInit, NvencInit, NewConverter, Lent, NothingIsLent, KeyframeNotForgotten
<1>. QED  BY <1>6, <1>7, <1>8 DEF IInv, Core

(* Where the thread only moves, or is told to stop. *)
LEMMA ThreadStep ==
  ASSUME IInv, GpuOpenFails \/ TakeBranch \/ (Lives /\ GpuStop /\ UNCHANGED <<mfVars, nvencVars, adapter>>)
  PROVE  IInv'
<1>. USE DEF GpuOpenFails, TakeBranch, GpuStop, Lives, converterVars, sentVars, mfVars, pumpVars, mftVars,
         nvencVars, keyframeVars, sessionVars
<1>1. /\ UNCHANGED <<converterVars, sentVars, mfVars, nvencVars, adapter>>
      /\ loop' \in {loop, "done", "nvenc_load", "mf_open"}
      /\ loop' # loop => loop = "unborn"
      /\ loop' = "nvenc_load" => loop = loop' \/ adapter = "nvidia"
      /\ loop' = "mf_open" => loop = loop' \/ adapter = "other"
      /\ shutdown' \in {shutdown, TRUE}
  <2>1. CASE TakeBranch
    <3>1. loop = "unborn" /\ adapter \in {"nvidia", "other"}
      BY <2>1 DEF IInv, GpuTypeOK
    <3>2. /\ adapter = "nvidia" => loop' = "nvenc_load"
          /\ adapter # "nvidia" => loop' = "mf_open"
      BY <2>1
    <3>. QED  BY <2>1, <3>1, <3>2
  <2>2. CASE ~ TakeBranch
    BY <2>2
  <2>. QED  BY <2>1, <2>2
<1>2. GpuTypeOK'
  <2>1. loop' \in Labels /\ shutdown' \in BOOLEAN
    BY <1>1 DEF IInv, GpuTypeOK, GpuLoopTypeOK, Labels
  <2>2. GpuLoopTypeOK'
    BY <1>1, <2>1 DEF IInv, GpuTypeOK, GpuLoopTypeOK
  <2>3. MfTypeOK'
    BY <1>1 DEF IInv, GpuTypeOK, MfTypeOK
  <2>4. NvencTypeOK'
    BY <1>1 DEF IInv, GpuTypeOK, NvencTypeOK
  <2>. QED  BY <1>1, <2>2, <2>3, <2>4 DEF IInv, GpuTypeOK
<1>3. Branches'
  BY <1>1 DEF IInv, Branches, MfInit, NvencInit, MfPlaces, NvencPlaces, GpuTypeOK
<1>4. Accounts'
  BY <1>1 DEF IInv, Accounts, RequestsAreAccountedFor, Finishing
<1>5. InFlightIsRecent'
  <2>1. Core /\ Core' /\ MovesOn /\ UNCHANGED <<calls, failures>>
    BY <1>1, <1>2, <1>3, <1>4 DEF IInv, Core, MovesOn
  <2>2. Finishing => Finishing'
    BY <1>1 DEF Finishing
  <2>. QED  BY <2>1, <2>2, StillRecent DEF IInv
<1>6. InFlightIsInPlace' /\ Genuine' /\ Ordered'
  BY <1>1 DEF IInv, InFlightIsInPlace, InFlight, InPlace, Genuine, Ordered, InOrder
<1>7. Lent' /\ KeyframeNotForgotten'
  BY <1>1 DEF IInv, Lent, NothingIsLent, KeyframeNotForgotten
<1>. QED  BY <1>2, <1>3, <1>4, <1>5, <1>6, <1>7 DEF IInv

(* Nothing reaches the transform, or leaves, that was not rendered. *)
LEMMA GenuineStep ==
  ASSUME IInv, GpuTypeOK', GpuNext
  PROVE  Genuine'
<1>1. /\ calls \in Nat /\ shown \in Nat /\ ring_index \in Slots /\ ring \in [Slots -> Nat]
      /\ collected \in Seq(Nat) /\ ready \in Seq(Nat) /\ reading \in Seq(Samples)
  BY DEF IInv, GpuTypeOK, GpuLoopTypeOK, MfTypeOK
<1>2. /\ \A d \in Slots : ring[d] <= calls
      /\ \A i \in 1 .. Len(ready) : ready[i] <= calls
      /\ \A i \in 1 .. Len(collected) : collected[i] # 0 /\ collected[i] <= calls
      /\ shown <= calls
  BY DEF IInv, Genuine
<1>3. /\ \A i \in 1 .. Len(ready) : ready[i] \in Nat
      /\ \A i \in 1 .. Len(collected) : collected[i] \in Nat
  BY <1>1
<1>4. ASSUME UNCHANGED converterVars \/ Convert \/ ConvertFails,
             ready' \in {ready, Append(ready, 0)}, collected' \in {collected, <<>>}, shown' = shown
      PROVE  Genuine'
  <2>1. /\ calls' = calls \/ calls' = calls + 1
        /\ \A d \in Slots : ring'[d] = ring[d] \/ ring'[d] = calls'
    BY <1>4, AdvanceTyped, ConvertTyped DEF Convert, ConvertFails, converterVars, IInv, GpuTypeOK
  <2>2. \A d \in Slots : ring'[d] <= calls'
    <3>. SUFFICES ASSUME NEW d \in Slots PROVE ring'[d] <= calls'
      OBVIOUS
    <3>1. ring[d] \in Nat /\ ring[d] <= calls /\ (ring'[d] = ring[d] \/ ring'[d] = calls')
      BY <1>1, <1>2, <2>1
    <3>2. calls' \in Nat /\ calls <= calls'
      BY <1>1, <2>1
    <3>. QED  BY <1>1, <3>1, <3>2
  <2>3. \A i \in 1 .. Len(ready') : ready'[i] <= calls'
    <3>1. CASE ready' = ready
      BY <1>1, <1>2, <1>3, <2>1, <3>1
    <3>2. CASE ready' = Append(ready, 0)
      <4>1. /\ Len(ready') = Len(ready) + 1 /\ Len(ready) \in Nat
            /\ \A i \in 1 .. Len(ready) : ready'[i] = ready[i]
            /\ ready'[Len(ready) + 1] = 0
        BY <1>1, <3>2, AppendFacts
      <4>2. \A i \in 1 .. Len(ready) : ready[i] <= calls'
        BY <1>1, <1>2, <1>3, <2>1
      <4>3. 0 <= calls'
        BY <1>1, <2>1
      <4>. QED  BY <4>1, <4>2, <4>3
    <3>. QED  BY <1>4, <3>1, <3>2
  <2>4. \A i \in 1 .. Len(collected') : collected'[i] # 0 /\ collected'[i] <= calls'
    <3>1. 1 .. Len(<<>>) = {}
      OBVIOUS
    <3>. QED  BY <1>1, <1>2, <1>3, <1>4, <2>1, <3>1
  <2>5. shown' <= calls'
    BY <1>1, <1>2, <1>4, <2>1
  <2>. QED  BY <2>2, <2>3, <2>4, <2>5 DEF Genuine
<1>5. CASE adapter = "nvidia" /\ NvencNext /\ UNCHANGED <<mfVars, adapter>>
  <2>1. UNCHANGED <<ready, collected>>
    BY <1>5 DEF mfVars, pumpVars, mftVars
  <2>2. CASE EncodePicture
    <3>1. UNCHANGED converterVars /\ shown' \in {shown, ring[ring_index]}
      BY <2>2 DEF EncodePicture, SendIt, sentVars
    <3>2. shown' <= calls'
      BY <1>1, <1>2, <3>1 DEF converterVars
    <3>. QED  BY <1>2, <2>1, <3>1, <3>2 DEF Genuine, converterVars
  <2>3. CASE ~ EncodePicture
    <3>1. shown' = shown /\ (UNCHANGED converterVars \/ Convert \/ ConvertFails)
      BY <1>5, <2>3 DEF NvencNext, NvencLoop, NvencTroubles, LoadNvenc, OpenSession, InitializeSession,
         Opening, NvencSeesShutdown, Leave, SwapFlag, NvencConvert, MapTexture, NvencConvertFails,
         MapFails, EncodeFails, LockFails, PictureLost, converterVars, loopVars, sentVars
    <3>. QED  BY <1>4, <2>1, <3>1
  <2>. QED  BY <2>2, <2>3
<1>6. CASE adapter = "other" /\ MfNext /\ UNCHANGED <<nvencVars, adapter>>
  <2>1. CASE ConvertAndEnqueue \/ GpuConvertFails \/ EnqueueFails
    <3>1. /\ Convert \/ ConvertFails
          /\ ready' = ready /\ collected' \in {collected, <<>>} /\ shown' = shown
      BY <2>1 DEF ConvertAndEnqueue, GpuConvertFails, EnqueueFails, BeginFinish, mftVars, pumpVars,
         loopVars, sentVars
    <3>. QED  BY <1>4, <3>1
  <2>2. CASE SendUnit
    <3>1. /\ collected # <<>> /\ collected' = Tail(collected) /\ UNCHANGED <<ready, ring, calls>>
          /\ shown' \in {shown, Head(collected)}
      BY <2>2 DEF SendUnit, TrySendUnit, SendIt, sentVars, converterVars, mftVars
    <3>2. /\ Head(collected) = collected[1] /\ Len(collected) \in Nat \ {0}
          /\ Len(collected') = Len(collected) - 1
          /\ \A i \in 1 .. Len(collected') : collected'[i] = collected[i + 1]
      BY <1>1, <3>1, TailFacts
    <3>3. \A i \in 1 .. Len(collected') : collected'[i] # 0 /\ collected'[i] <= calls
      BY <1>2, <3>2
    <3>4. shown' <= calls
      BY <1>2, <3>1, <3>2
    <3>. QED  BY <1>2, <3>1, <3>3, <3>4 DEF Genuine
  <2>3. CASE HaveOutput
    <3>1. /\ UNCHANGED <<ring, calls, shown>> /\ ready' = Tail(ready)
          /\ collected' = IF Head(ready) = 0 THEN collected ELSE Append(collected, Head(ready))
      BY <2>3 DEF HaveOutput, converterVars, loopVars, sentVars
    <3>2. ready # <<>>
      <4>1. GetEvent("have") /\ MfTypeOK
        BY <2>3 DEF HaveOutput, IInv, GpuTypeOK
      <4>2. /\ Cardinality(Under(events, "have")) \in Nat
            /\ Cardinality(Under(events', "have")) \in Nat
            /\ Cardinality(Under(events', "have")) = Cardinality(Under(events, "have")) - 1
        BY <4>1, EventFacts
      <4>3. Cardinality(Under(events, "have")) # 0
        BY <4>2
      <4>. QED  BY <4>2, <4>3 DEF IInv, Accounts
    <3>3. /\ Head(ready) = ready[1] /\ Head(ready) \in Nat /\ Len(ready) \in Nat \ {0}
          /\ Len(ready') = Len(ready) - 1
          /\ \A i \in 1 .. Len(ready') : ready'[i] = ready[i + 1]
      BY <1>1, <3>1, <3>2, TailFacts
    <3>4. \A i \in 1 .. Len(ready') : ready'[i] <= calls
      BY <1>2, <3>3
    <3>5. \A i \in 1 .. Len(collected') : collected'[i] # 0 /\ collected'[i] <= calls
      <4>1. CASE Head(ready) = 0
        BY <1>2, <3>1, <4>1
      <4>2. CASE Head(ready) # 0
        <5>1. /\ Len(collected') = Len(collected) + 1 /\ Len(collected) \in Nat
              /\ \A i \in 1 .. Len(collected) : collected'[i] = collected[i]
              /\ collected'[Len(collected) + 1] = Head(ready)
          BY <1>1, <3>1, <3>3, <4>2, AppendFacts
        <5>. QED  BY <1>2, <3>3, <4>2, <5>1
      <4>. QED  BY <4>1, <4>2
    <3>. QED  BY <1>2, <3>1, <3>4, <3>5 DEF Genuine
  <2>4. CASE MftSteps /\ MftEncodes
    <3>1. /\ reading # <<>> /\ ready' = Append(ready, ring[Head(reading).slot])
          /\ UNCHANGED <<ring, calls, shown, collected>>
      BY <2>4 DEF MftSteps, MftEncodes, converterVars, loopVars, sentVars, pumpVars
    <3>2. Head(reading).slot \in Slots
      <4>1. Head(reading) \in Samples
        BY <1>1, <3>1, TailFacts
      <4>. QED  BY <4>1 DEF Samples
    <3>3. ring[Head(reading).slot] \in Nat /\ ring[Head(reading).slot] <= calls
      BY <1>1, <1>2, <3>2
    <3>4. /\ Len(ready') = Len(ready) + 1 /\ Len(ready) \in Nat
          /\ \A i \in 1 .. Len(ready) : ready'[i] = ready[i]
          /\ ready'[Len(ready) + 1] = ring[Head(reading).slot]
      BY <1>1, <3>1, <3>3, AppendFacts
    <3>5. \A i \in 1 .. Len(ready') : ready'[i] <= calls
      BY <1>2, <3>3, <3>4
    <3>. QED  BY <1>2, <3>1, <3>5 DEF Genuine
  <2>5. CASE MftSteps /\ ~ MftEncodes
    <3>1. UNCHANGED <<converterVars, collected, shown>> /\ ready' \in {ready, Append(ready, 0)}
      BY <2>5 DEF MftSteps, MftAsks, MftRenegotiates, MftDrains, loopVars, sentVars, pumpVars
    <3>. QED  BY <1>4, <3>1
  <2>6. CASE ServeDeferred \/ NeedInput \/ DrainComplete
    <3>1. UNCHANGED <<converterVars, collected, shown, ready>>
      BY <2>6 DEF ServeDeferred, NeedInput, DrainComplete, loopVars, sentVars
    <3>. QED  BY <1>4, <3>1
  <2>7. CASE \/ SkipConvert \/ MfOpens \/ MfSeesShutdown \/ PumpReturns \/ FinishRound \/ AllSent
             \/ PumpFails \/ FinishFails
    <3>1. UNCHANGED <<converterVars, shown, ready>> /\ collected' \in {collected, <<>>}
      BY <2>7 DEF SkipConvert, MfOpens, MfSeesShutdown, PumpReturns, FinishRound, AllSent, PumpFails,
         FinishFails, BeginPump, BeginFinish, pumpLeaves, pumpVars, mftVars, sentVars
    <3>. QED  BY <1>4, <3>1
  <2>. QED  BY <1>6, <2>1, <2>2, <2>3, <2>4, <2>5, <2>6, <2>7 DEF MfNext, MfLoop, MfTroubles, Pump
<1>7. CASE GpuOpenFails \/ TakeBranch \/ (Lives /\ GpuStop /\ UNCHANGED <<mfVars, nvencVars, adapter>>)
  <2>1. UNCHANGED <<converterVars, shown, ready, collected>>
    BY <1>7 DEF GpuOpenFails, TakeBranch, GpuStop, sentVars, mfVars, pumpVars, mftVars
  <2>. QED  BY <1>4, <2>1
<1>. QED  BY <1>5, <1>6, <1>7 DEF GpuNext

LEMMA NextInv == IInv /\ [GpuNext]_gpuVars => IInv'
<1>. SUFFICES ASSUME IInv, [GpuNext]_gpuVars PROVE IInv'
  OBVIOUS
<1>1. Core /\ MfInv /\ NvencInv
  BY DEF IInv, Core, MfInv, NvencInv
<1>2. CASE adapter = "nvidia" /\ NvencNext /\ UNCHANGED <<mfVars, adapter>>
  <2>1. NvencInv' /\ adapter' = "nvidia"
    BY <1>1, <1>2, NvencStep
  <2>2. Core' /\ (shown <= calls)'
    BY <2>1 DEF NvencInv, Lent
  <2>3. InFlightIsRecent' /\ InFlightIsInPlace' /\ Ordered'
    <3>1. /\ tex_queue' = <<>> /\ reading' = <<>> /\ ready' = <<>> /\ collected' = <<>>
      BY <2>1, <2>2 DEF Core, Branches, MfInit
    <3>2. 1 .. Len(<<>>) = {} /\ Len(<<>>) = 0
      OBVIOUS
    <3>3. Values(<<>>) = {} /\ FramesOf(<<>>) = {} /\ Rising(<<>>) /\ RisingFrames(<<>>)
      BY <3>2 DEF Values, FramesOf, Rising, RisingFrames
    <3>4. InFlight' = {}
      BY <3>1, <3>3 DEF InFlight
    <3>5. shown' \in Nat /\ calls' \in Nat
      BY <2>2 DEF Core, GpuTypeOK, GpuLoopTypeOK
    <3>6. InOrder'
      BY <2>2, <3>1, <3>3, <3>5 DEF InOrder, Chain, Below
    <3>. QED  BY <3>1, <3>2, <3>4, <3>6, MfAssumption DEF InFlightIsRecent, InFlightIsInPlace, Ordered
  <2>4. Genuine'
    BY <1>2, <2>2, GenuineStep DEF Core, GpuNext
  <2>. QED  BY <2>1, <2>3, <2>4 DEF IInv, NvencInv, Core
<1>3. CASE adapter = "other" /\ MfNext /\ UNCHANGED <<nvencVars, adapter>>
  <2>1. MfInv' /\ adapter' = "other"
    BY <1>1, <1>3, MfStepInv
  <2>2. Genuine'
    BY <1>3, <2>1, GenuineStep DEF MfInv, Core, GpuNext
  <2>3. Lent' /\ KeyframeNotForgotten'
    <3>1. NvencInit' /\ loop' \in MfPlaces
      BY <2>1 DEF MfInv, Core, Branches
    <3>2. shown' <= calls'
      BY <2>2 DEF Genuine
    <3>. QED  BY <3>1, <3>2 DEF NvencInit, MfPlaces, Lent, NothingIsLent, KeyframeNotForgotten
  <2>. QED  BY <2>1, <2>2, <2>3 DEF IInv, MfInv, Core
<1>4. CASE GpuOpenFails \/ TakeBranch \/ (Lives /\ GpuStop /\ UNCHANGED <<mfVars, nvencVars, adapter>>)
  BY <1>4, ThreadStep
<1>5. CASE UNCHANGED gpuVars
  <2>. USE <1>5 DEF gpuVars, loopVars, converterVars, sentVars, mfVars, pumpVars, mftVars,
         nvencVars, keyframeVars, sessionVars
  <2>1. GpuTypeOK'
    BY DEF IInv, GpuTypeOK, GpuLoopTypeOK, MfTypeOK, NvencTypeOK
  <2>2. Branches' /\ Accounts'
    BY DEF IInv, Branches, MfInit, NvencInit, Accounts, RequestsAreAccountedFor, Finishing
  <2>3. InFlightIsRecent' /\ InFlightIsInPlace' /\ Genuine' /\ Ordered'
    BY DEF IInv, InFlightIsRecent, FailuresSince, Room, Finishing, InFlightIsInPlace, InFlight, InPlace,
       Genuine, Ordered, InOrder
  <2>4. Lent' /\ KeyframeNotForgotten'
    BY DEF IInv, Lent, NothingIsLent, KeyframeNotForgotten
  <2>. QED  BY <2>1, <2>2, <2>3, <2>4 DEF IInv
<1>. QED  BY <1>2, <1>3, <1>4, <1>5 DEF GpuNext

THEOREM Invariance == GpuSpec => []IInv
  BY InitInv, NextInv, PTL DEF GpuSpec

----------------------------------------------------------------------------
(* What the invariant says of the code.                                     *)

(* Every variable keeps its type. *)
THEOREM GpuTypesAreRight == GpuSpec => []GpuTypeOK
<1>1. IInv => GpuTypeOK
  BY DEF IInv
<1>. QED  BY <1>1, Invariance, PTL

(* When "we never overwrite an NV12 ring slot the encoder still references":  *)
(* for every ring, queue, transform and number of failed calls, convert()     *)
(* renders into a texture that waits to be read only when the transform holds *)
(* so many unread ones from it on, or so many calls have failed since, that   *)
(* with Ahead they exceed the ring; NVENC has always given back what it was   *)
(* lent.                                                                      *)
THEOREM SurfacesStayIntact == GpuSpec => []SurfacesIntact
<1>1. IInv => SurfacesIntact
  <2>. SUFFICES ASSUME IInv PROVE QueuedSurfacesIntact
    BY DEF SurfacesIntact, IInv, Lent
  <2>1. /\ tex_queue \in Seq(Samples) /\ reading \in Seq(Samples)
        /\ Len(tex_queue) \in Nat /\ Len(reading) \in Nat
        /\ calls \in Nat /\ failures \in Nat /\ Ahead \in Nat /\ Ring \in Nat
    BY MfAssumption, GpuLoopAssumption DEF IInv, GpuTypeOK, GpuLoopTypeOK, MfTypeOK
  <2>2. Room \in Nat /\ Room <= Ahead
    BY <2>1 DEF IInv, InFlightIsRecent, Room
  <2>3. \A s \in Samples : s.frame \in Nat /\ s.failures \in Nat
    BY DEF Samples
  <2>4. ASSUME NEW i \in 1 .. Len(tex_queue), Ahead + FailuresSince(tex_queue[i]) <= Ring
        PROVE  Holds(tex_queue[i])
    <3>1. /\ tex_queue[i].frame \in Nat /\ tex_queue[i].failures \in Nat
          /\ InPlace(tex_queue[i])
      BY <2>1, <2>3 DEF IInv, InFlightIsInPlace, InFlight, Values
    <3>2. calls <= tex_queue[i].frame + (Room - i) + (failures - tex_queue[i].failures)
      BY DEF IInv, InFlightIsRecent, FailuresSince
    <3>3. calls < tex_queue[i].frame + Ring
      BY SMTT(30), <2>1, <2>2, <2>4, <3>1, <3>2 DEF FailuresSince
    <3>. QED  BY <3>1, <3>3 DEF InPlace, Holds
  <2>5. ASSUME NEW i \in 1 .. Len(reading),
               Ahead + (Len(reading) - i + 1) + FailuresSince(reading[i]) <= Ring
        PROVE  Holds(reading[i])
    <3>1. /\ reading[i].frame \in Nat /\ reading[i].failures \in Nat
          /\ InPlace(reading[i])
      BY <2>1, <2>3 DEF IInv, InFlightIsInPlace, InFlight, Values
    <3>2. calls <= reading[i].frame + (Len(reading) - i) + Room + (failures - reading[i].failures)
      BY DEF IInv, InFlightIsRecent, FailuresSince
    <3>3. calls < reading[i].frame + Ring
      BY SMTT(30), <2>1, <2>2, <2>5, <3>1, <3>2 DEF FailuresSince
    <3>. QED  BY <3>1, <3>3 DEF InPlace, Holds
  <2>. QED  BY <2>4, <2>5 DEF QueuedSurfacesIntact
<1>. QED  BY <1>1, Invariance, PTL

(* No request of the transform for input is lost or answered twice. *)
THEOREM RequestsAreCounted == GpuSpec => []RequestsAreAccountedFor
<1>1. IInv => RequestsAreAccountedFor
  BY DEF IInv, Accounts
<1>. QED  BY <1>1, Invariance, PTL

(* A subscriber's request for a keyframe is never forgotten, whenever it comes. *)
THEOREM KeyframesAreNotForgotten == GpuSpec => []KeyframeNotForgotten
<1>1. IInv => KeyframeNotForgotten
  BY DEF IInv
<1>. QED  BY <1>1, Invariance, PTL

(* A step makes a picture, tears one, shows one, or none of these. *)
LEMMA VideoStep == IInv /\ IInv' /\ [GpuNext]_gpuVars => [Promise!Make \/ Promise!Tear \/ Promise!Show]_Promise!vars
<1>. SUFFICES ASSUME IInv, IInv', [GpuNext]_gpuVars
              PROVE  Promise!Make \/ Promise!Tear \/ Promise!Show \/ UNCHANGED <<calls, units, shown, torn>>
  BY DEF Promise!vars
<1>1. calls \in Nat /\ shown \in Nat /\ calls' \in Nat /\ shown' \in Nat /\ torn \in BOOLEAN
  BY DEF IInv, GpuTypeOK, GpuLoopTypeOK, MfTypeOK
<1>2. ASSUME Advance, UNCHANGED <<sentVars, torn>> PROVE Promise!Make
  BY <1>1, <1>2 DEF Advance, sentVars, Promise!Make
<1>3. ASSUME NEW p \in Nat, SendIt(p), p # 0, ~ torn => shown < p, p <= calls, UNCHANGED <<calls, torn>>
      PROVE  Promise!Show
  <2>1. shown' = p /\ units' = units + 1
    BY <1>3 DEF SendIt
  <2>2. CASE torn
    BY <1>1, <1>3, <2>1, <2>2 DEF Promise!Show
  <2>3. CASE ~ torn
    BY <1>1, <1>3, <2>1, <2>3 DEF Promise!Show
  <2>. QED  BY <2>2, <2>3
<1>4. CASE adapter = "nvidia" /\ NvencNext /\ UNCHANGED <<mfVars, adapter>>
  <2>. torn' = torn
    BY <1>4 DEF mfVars, mftVars
  <2>1. CASE NvencConvert \/ NvencConvertFails
    BY <1>2, <2>1 DEF NvencConvert, NvencConvertFails, Convert, ConvertFails
  <2>2. CASE EncodePicture
    <3>1. ring[ring_index] = calls /\ shown < calls /\ UNCHANGED calls
      BY <2>2 DEF EncodePicture, IInv, Lent, converterVars
    <3>2. SendIt(ring[ring_index]) \/ UNCHANGED sentVars
      BY <2>2 DEF EncodePicture
    <3>. QED  BY <1>1, <1>3, <3>1, <3>2 DEF sentVars
  <2>3. CASE NvencNext /\ ~ (NvencConvert \/ NvencConvertFails \/ EncodePicture)
    BY <2>3 DEF NvencNext, NvencLoop, NvencTroubles, LoadNvenc, OpenSession, InitializeSession, Opening,
       NvencSeesShutdown, SwapFlag, MapTexture, MapFails, EncodeFails, LockFails,
       converterVars, loopVars, sentVars
  <2>. QED  BY <1>4, <2>1, <2>2, <2>3
<1>5. CASE adapter = "other" /\ MfNext /\ UNCHANGED <<nvencVars, adapter>>
  <2>1. CASE ConvertAndEnqueue \/ GpuConvertFails \/ EnqueueFails
    BY <1>2, <2>1 DEF ConvertAndEnqueue, GpuConvertFails, EnqueueFails, Convert, ConvertFails, loopVars,
       mftVars
  <2>2. CASE SendUnit
    <3>1. collected # <<>> /\ TrySendUnit(Head(collected)) /\ UNCHANGED <<calls, torn>>
      BY <2>2 DEF SendUnit, converterVars, mftVars
    <3>2. Head(collected) \in Nat /\ Head(collected) \in Values(collected)
      BY <3>1, TailFacts, ValuesTail DEF IInv, GpuTypeOK, MfTypeOK
    <3>3. ~ torn => shown < Head(collected)
      BY <3>2 DEF IInv, Ordered, InOrder, Chain, Below
    <3>4. Head(collected) # 0 /\ Head(collected) <= calls
      BY <3>2 DEF IInv, Genuine, Values
    <3>. QED  BY <1>1, <1>3, <3>1, <3>2, <3>3, <3>4 DEF TrySendUnit, sentVars
  <2>3. CASE MftSteps /\ MftEncodes
    <3>1. UNCHANGED <<calls, sentVars>> /\ torn' = (torn \/ ~ Holds(Head(reading)))
      BY <2>3 DEF MftSteps, MftEncodes, converterVars, loopVars
    <3>2. torn' = torn \/ torn' = TRUE
      BY <1>1, <3>1
    <3>. QED  BY <3>1, <3>2 DEF sentVars, Promise!Tear
  <2>5. CASE Pump \/ (MftSteps /\ ~ MftEncodes)
    BY <2>5 DEF Pump, ServeDeferred, NeedInput, HaveOutput, DrainComplete, MftSteps, MftAsks,
       MftRenegotiates, MftDrains, converterVars, loopVars, sentVars
  <2>4. CASE \/ SkipConvert \/ MfOpens \/ MfSeesShutdown \/ PumpReturns \/ FinishRound \/ AllSent
             \/ PumpFails \/ FinishFails
    BY <2>4 DEF SkipConvert, MfOpens, MfSeesShutdown, PumpReturns, FinishRound, AllSent, PumpFails,
       FinishFails, BeginFinish, pumpLeaves, mftVars, converterVars, sentVars
  <2>. QED  BY <1>5, <2>1, <2>2, <2>3, <2>4, <2>5 DEF MfNext, MfLoop, MfTroubles
<1>6. CASE \/ GpuOpenFails \/ TakeBranch
           \/ Lives /\ GpuStop /\ UNCHANGED <<mfVars, nvencVars, adapter>>
           \/ UNCHANGED gpuVars
  BY <1>6 DEF GpuOpenFails, TakeBranch, GpuStop, gpuVars, loopVars, sentVars, converterVars, mfVars, mftVars
<1>. QED  BY <1>4, <1>5, <1>6 DEF GpuNext

(* Both branches keep the promise to those who watch: what leaves the loop   *)
(* shows pictures in the order in which they were rendered, none of them     *)
(* twice, until the transform has read a texture that was rendered into      *)
(* again; from then on they are still pictures that were rendered.  NVENC    *)
(* never comes to that.                                                      *)
THEOREM GpuLoopIsVideo == GpuSpec => ImplementsVideo
<1>1. GpuInit => Promise!Init
  BY DEF GpuInit, GpuLoopInit, NewConverter, MfInit, Promise!Init
<1>. QED  BY <1>1, VideoStep, NextInv, Invariance, PTL DEF GpuSpec, ImplementsVideo, Promise!Spec
=============================================================================
