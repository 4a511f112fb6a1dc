------------------------------ MODULE MCMedia -------------------------------
(***************************************************************************)
(* The parts of the media path, one at a time: they are checked together   *)
(* only to share a run.  A state belongs to one part, the others rest.     *)
(***************************************************************************)
EXTENDS GpuEncode, AccessUnits, WgcCapture, Frames

(* Payloads with a run of zeros as emulation prevention leaves it, a NAL unit *)
(* of another kind with a short start code, bytes like those of a delimiter.  *)
MCPictures ==
  {d \o b : d \in {<<0, 0, 1, 9, 16>>, <<0, 0, 0, 1, 9, 16>>},
            b \in {<<0, 0, 1, 65, 9>>, <<0, 0, 0, 1, 65, 0, 0, 3, 1, 9>>,
                   <<0, 0, 0, 1, 103, 7, 0, 0, 1, 101, 41>>}}
MCPreambles == {<<>>, <<0, 0, 1, 103, 9>>}
MCWindowSizes == {<<7, 6>>, <<5, 6>>, <<7, 4>>, <<8, 7>>, <<1, 1>>, <<0, 0>>}
MCColours == {<<0, 0, 0>>, <<255, 0, 0>>, <<0, 255, 0>>, <<10, 200, 80>>, <<255, 255, 255>>}

VARIABLE part

mediaVars == <<gpuVars, auVars, wgcVars, job, part>>

GpuRests ==
  /\ loop = "done" /\ shutdown = FALSE /\ units = 0 /\ shown = 0 /\ adapter = "other"
  /\ NewConverter /\ MfInit /\ NvencInit
UnitsRest == AuInit /\ bytes = <<>>
WindowRests == WgcInit /\ window = <<1, 1>>
FramesRest == job = NoJob

MediaInit ==
  \/ part = "gpu" /\ GpuInit /\ UnitsRest /\ WindowRests /\ FramesRest
  \/ part = "units" /\ AuInit /\ GpuRests /\ WindowRests /\ FramesRest
  \/ part = "window" /\ WgcInit /\ GpuRests /\ UnitsRest /\ FramesRest
  \/ part = "frames" /\ FramesInit /\ GpuRests /\ UnitsRest /\ WindowRests

MediaNext ==
  \/ part = "gpu" /\ GpuNext /\ UNCHANGED <<auVars, wgcVars, job, part>>
  \/ part = "units" /\ AuNext /\ UNCHANGED <<gpuVars, wgcVars, job, part>>
  \/ part = "window" /\ WgcNext /\ UNCHANGED <<gpuVars, auVars, job, part>>

MediaSpec == MediaInit /\ [][MediaNext]_mediaVars /\ GpuFairness
=============================================================================
