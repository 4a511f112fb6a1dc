----------------------------- MODULE GpuEncode ------------------------------
(***************************************************************************)
(* gpu_encode_loop (crates/sender/src/lib.rs): it opens the source and the *)
(* converter and takes one of two branches, run_nvenc_encode on an NVIDIA  *)
(* adapter, run_mf_gpu_encode on any other.  What both promise to the      *)
(* viewers is VideoPromise.                                                *)
(***************************************************************************)
EXTENDS MfEncode, NvencEncode

VARIABLE adapter

gpuVars == <<loopVars, converterVars, mfVars, nvencVars, adapter>>

(* An error is sent through init_tx and the thread ends.                    *)
GpuOpenFails ==
  /\ loop = "unborn"
  /\ loop' = "done"
  /\ UNCHANGED <<shutdown, sentVars, converterVars, mfVars, nvencVars, adapter>>

TakeBranch ==
  /\ loop = "unborn"
  /\ loop' = IF adapter = "nvidia" THEN "nvenc_load" ELSE "mf_open"
  /\ UNCHANGED <<shutdown, sentVars, converterVars, mfVars, nvencVars, adapter>>

GpuInit ==
  /\ GpuLoopInit /\ MfInit /\ NvencInit
  /\ adapter \in {"nvidia", "other"}

GpuNext ==
  \/ GpuOpenFails \/ TakeBranch
  \/ adapter = "nvidia" /\ NvencNext /\ UNCHANGED <<mfVars, adapter>>
  \/ adapter = "other" /\ MfNext /\ UNCHANGED <<nvencVars, adapter>>
  \/ Lives /\ GpuStop /\ UNCHANGED <<mfVars, nvencVars, adapter>>

GpuSpec == GpuInit /\ [][GpuNext]_gpuVars

(* The thread runs and the transform works: it encodes what it has and asks *)
(* for more as it has room.  It need not answer the end of the stream, of   *)
(* which it is told but which it is not asked to drain.                     *)
MfStep(A) == adapter = "other" /\ A /\ UNCHANGED <<nvencVars, adapter>>
MftStep(A) == MfStep(Lives /\ loop # "mf_open" /\ A /\ UNCHANGED <<converterVars, loopVars, pumpVars, failures>>)

GpuFairness ==
  /\ WF_gpuVars(TakeBranch)
  /\ WF_gpuVars(adapter = "nvidia" /\ NvencLoop /\ UNCHANGED <<mfVars, adapter>>)
  /\ WF_gpuVars(MfStep(MfLoop))
  /\ WF_gpuVars(MftStep(MftAsks))
  /\ WF_gpuVars(MftStep(MftEncodes))

GpuFairSpec == GpuSpec /\ GpuFairness

----------------------------------------------------------------------------
GpuTypeOK ==
  /\ GpuLoopTypeOK /\ MfTypeOK /\ NvencTypeOK
  /\ adapter \in {"nvidia", "other"}

(* convert() renders into a texture that waits to be read only when the     *)
(* transform holds more of them, or more calls failed, than the ring leaves *)
(* room for beside the queue; NVENC has given back what it was lent before  *)
(* the next call, whichever call failed.                                    *)
SurfacesIntact == QueuedSurfacesIntact /\ NothingIsLent

Promise == INSTANCE VideoPromise WITH made <- calls

(* Viewers see pictures in the order in which they were rendered, none of   *)
(* them twice, on either branch, until the transform reads a texture that   *)
(* convert() has rendered into again; NVENC never does.                     *)
ImplementsVideo == Promise!Spec

(* Asked to stop, the thread comes to its end, whatever the transform does. *)
GpuLoopEnds == shutdown ~> loop = "done"
=============================================================================
