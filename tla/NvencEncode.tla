---------------------------- MODULE NvencEncode -----------------------------
(***************************************************************************)
(* run_nvenc_encode (crates/sender/src/lib.rs) with NvencSession           *)
(* (nvenc.rs): one thread renders a picture and encodes it before the next *)
(* one.  The publisher's RTCP readers raise force_keyframe at any time     *)
(* (publisher.rs), the loop swaps it away at the top of each round.        *)
(*                                                                         *)
(* Requests for a keyframe are numbered, so that one that arrives while    *)
(* the answer to an earlier one is under way counts as a new one.          *)
(*                                                                         *)
(* Abstracted: the NVENC calls, of which each may fail, and what they are   *)
(* told of rates and formats.                                              *)
(***************************************************************************)
EXTENDS GpuLoop

CONSTANT MaxRequests   \* bound: reports of picture loss

ASSUME NvencAssumption == MaxRequests \in Nat

VARIABLES
  force_keyframe,
  force_idr,     \* what the swap returned
  warm,          \* the first picture was encoded
  registered,    \* the textures the session knows
  mapped,        \* those lent to the encoder
  requested,     \* reports of picture loss so far
  taken,         \* of which the loop has swapped the flag away
  answered,      \* of which a keyframe was sent after them
  missed         \* the last keyframe asked for was not sent

keyframeVars == <<force_keyframe, force_idr, warm, requested, taken, answered, missed>>
sessionVars == <<registered, mapped>>
nvencVars == <<keyframeVars, sessionVars>>

(* PLI or FIR from a subscriber.                                            *)
PictureLost ==
  /\ requested < MaxRequests
  /\ requested' = requested + 1
  /\ force_keyframe' = TRUE
  /\ UNCHANGED <<force_idr, warm, taken, answered, missed, sessionVars>>

(* Each step of the opening may fail.                                       *)
Opening(label, next) ==
  /\ loop = label
  /\ loop' \in {next, "done"}
  /\ UNCHANGED <<converterVars, shutdown, sentVars, nvencVars>>

LoadNvenc == Opening("nvenc_load", "nvenc_open")
OpenSession == Opening("nvenc_open", "nvenc_initialize")
InitializeSession == Opening("nvenc_initialize", "convert")

(* The loop is left; the session goes, and unregisters its textures.        *)
Leave == loop' = "done" /\ registered' = {}

NvencSeesShutdown ==
  /\ loop = "top" /\ shutdown
  /\ Leave
  /\ UNCHANGED <<converterVars, shutdown, sentVars, keyframeVars, mapped>>

(* (The bound on calls is met here, unless a keyframe is asked for.)         *)
SwapFlag ==
  /\ loop = "top" /\ ~shutdown
  /\ calls < MaxCalls \/ force_keyframe
  /\ loop' = "convert"
  /\ force_idr' = force_keyframe
  /\ force_keyframe' = FALSE
  /\ taken' = IF force_keyframe THEN requested ELSE taken
  /\ missed' = (missed /\ ~force_keyframe)
  /\ UNCHANGED <<converterVars, shutdown, sentVars, warm, requested, answered, sessionVars>>

NvencConvert ==
  /\ loop = "convert"
  /\ Convert
  /\ loop' = "encode"
  /\ UNCHANGED <<shutdown, sentVars, nvencVars>>

(* The loop goes on without the keyframe; during the warm-up it ends.       *)
NvencConvertFails ==
  /\ loop = "convert"
  /\ ConvertFails
  /\ IF warm THEN loop' = "top" /\ UNCHANGED registered ELSE Leave
  /\ missed' = (missed \/ force_idr)
  /\ UNCHANGED <<shutdown, sentVars, force_keyframe, force_idr, warm, requested, taken,
                 answered, mapped>>

(* encode_texture: each texture is registered once, and mapped for one      *)
(* picture.                                                                 *)
MapTexture ==
  /\ loop = "encode"
  /\ loop' = "submit"
  /\ registered' = registered \cup {ring_index}
  /\ mapped' = mapped \cup {ring_index}
  /\ UNCHANGED <<converterVars, shutdown, sentVars, keyframeVars>>

MapFails ==
  /\ loop = "encode"
  /\ Leave
  /\ UNCHANGED <<converterVars, shutdown, sentVars, keyframeVars, mapped>>

Unmap == mapped' = mapped \ {ring_index}

(* Mutant: the flag is lowered when the keyframe is out.                    *)
EncodePicture_LowersFlag ==
  /\ loop = "submit"
  /\ loop' = "top"
  /\ warm' = TRUE
  /\ Unmap
  /\ \/ /\ SendIt(ring[ring_index])
        /\ answered' = (IF force_idr THEN taken ELSE answered)
        /\ force_keyframe' = (force_keyframe /\ ~force_idr)
        /\ UNCHANGED missed
     \/ /\ missed' = (missed \/ force_idr)
        /\ UNCHANGED <<sentVars, answered, force_keyframe>>
  /\ UNCHANGED <<converterVars, shutdown, force_idr, requested, taken, registered>>

(* A unit, sent or dropped, or none (NEED_MORE_INPUT).                      *)
EncodePicture ==
  /\ loop = "submit"
  /\ loop' = "top"
  /\ warm' = TRUE
  /\ Unmap
  /\ \/ /\ SendIt(ring[ring_index])
        /\ answered' = (IF force_idr THEN taken ELSE answered)
        /\ UNCHANGED missed
     \/ /\ missed' = (missed \/ force_idr)
        /\ UNCHANGED <<sentVars, answered>>
  /\ UNCHANGED <<converterVars, shutdown, force_keyframe, force_idr, requested, taken, registered>>

EncodeFails ==
  /\ loop = "submit"
  /\ Leave /\ Unmap
  /\ UNCHANGED <<converterVars, shutdown, sentVars, keyframeVars>>

(* lock_and_copy fails: the texture is not unmapped.                        *)
LockFails ==
  /\ loop = "submit"
  /\ Leave
  /\ UNCHANGED <<converterVars, shutdown, sentVars, keyframeVars, mapped>>

----------------------------------------------------------------------------
NvencInit ==
  /\ force_keyframe = FALSE /\ force_idr = FALSE /\ warm = FALSE
  /\ requested = 0 /\ taken = 0 /\ answered = 0 /\ missed = FALSE
  /\ registered = {} /\ mapped = {}

NvencLoop ==
  \/ LoadNvenc \/ OpenSession \/ InitializeSession
  \/ NvencSeesShutdown \/ SwapFlag \/ NvencConvert \/ MapTexture \/ EncodePicture
NvencTroubles == NvencConvertFails \/ MapFails \/ EncodeFails \/ LockFails

NvencNext ==
  \/ NvencLoop \/ NvencTroubles
  \/ PictureLost /\ UNCHANGED <<converterVars, loopVars>>

----------------------------------------------------------------------------
NvencTypeOK ==
  /\ force_keyframe \in BOOLEAN /\ force_idr \in BOOLEAN
  /\ warm \in BOOLEAN /\ missed \in BOOLEAN
  /\ registered \subseteq Slots /\ mapped \subseteq Slots
  /\ requested \in 0 .. MaxRequests
  /\ taken \in 0 .. requested /\ answered \in 0 .. taken

(* No texture is lent to the encoder when convert() renders, and none that  *)
(* is not registered.                                                       *)
NothingIsLent ==
  /\ loop \in {"top", "convert", "encode"} => mapped = {}
  /\ loop = "submit" => mapped = {ring_index} /\ mapped \subseteq registered

(* A request for a keyframe ("so it can re-sync now, not at the next GOP")  *)
(* is never forgotten, whenever it comes: the flag is up, or the keyframe   *)
(* is being made, unless one was lost on its way, to a failed conversion or *)
(* a full channel.                                                          *)
KeyframeNotForgotten ==
  /\ requested > taken => force_keyframe
  /\ taken > answered => missed \/ (force_idr /\ loop \in {"convert", "encode", "submit", "done"})

(* Each is answered, also one that comes while the answer to an earlier one *)
(* is being made, unless that one is lost or the loop ends.                 *)
KeyframeIsMade ==
  requested > answered ~>
    requested = answered \/ missed \/ loop = "done"
=============================================================================
