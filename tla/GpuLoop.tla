------------------------------ MODULE GpuLoop -------------------------------
(***************************************************************************)
(* What the two branches of gpu_encode_loop (crates/sender/src/lib.rs)     *)
(* share: Nv12Converter (gpu_convert.rs), the shutdown flag and the access *)
(* unit channel.  Every call of convert() renders the source into the next *)
(* texture of a ring and lends that texture to the loop.  A picture is the *)
(* number of the call that rendered it.                                    *)
(*                                                                         *)
(* Abstracted: Direct3D, shaders and pixels; of the channel, that a unit   *)
(* that does not fit is dropped.                                           *)
(***************************************************************************)
EXTENDS Naturals

CONSTANTS
  Ring,       \* RING (4 in the code)
  MaxCalls    \* bound: calls of convert()

ASSUME GpuLoopAssumption == Ring \in Nat \ {0} /\ MaxCalls \in Nat

VARIABLES
  loop,         \* where the thread is
  shutdown,
  units,        \* access units sent
  shown,        \* the picture in the latest of them
  ring,         \* the picture in each texture, 0 before the first
  ring_index,
  calls         \* of convert()

converterVars == <<ring, ring_index, calls>>
sentVars == <<units, shown>>
loopVars == <<loop, shutdown, sentVars>>

Slots == 0 .. Ring - 1

(* Mutant: the index runs on.                                              *)
NextSlot_RunsOn(i) == i + 1

NextSlot(i) == IF i + 1 = Ring THEN 0 ELSE i + 1

Advance ==
  /\ calls' = calls + 1
  /\ ring_index' = NextSlot(ring_index)

Convert ==
  /\ Advance
  /\ ring' = [ring EXCEPT ![ring_index'] = calls']

(* convert() returns an error: the index has moved, nothing is rendered.    *)
ConvertFails ==
  /\ Advance
  /\ UNCHANGED ring

Lives == loop \notin {"unborn", "done"}

(* try_send of the unit that shows a picture.                               *)
SendIt(picture) == units' = units + 1 /\ shown' = picture
TrySendUnit(picture) == SendIt(picture) \/ UNCHANGED sentVars

GpuStop ==
  /\ ~shutdown
  /\ shutdown' = TRUE
  /\ UNCHANGED <<converterVars, loop, sentVars>>

NewConverter == ring = [s \in Slots |-> 0] /\ ring_index = 0 /\ calls = 0

GpuLoopInit == loop = "unborn" /\ shutdown = FALSE /\ units = 0 /\ shown = 0 /\ NewConverter

Labels == {"unborn", "mf_open", "nvenc_load", "nvenc_open", "nvenc_initialize",
           "top", "convert", "encode", "submit", "pump", "send", "finish", "send_tail", "done"}

GpuLoopTypeOK ==
  /\ loop \in Labels /\ shutdown \in BOOLEAN
  /\ units \in Nat /\ shown \in Nat /\ calls \in Nat
  /\ ring \in [Slots -> Nat] /\ ring_index \in Slots
=============================================================================
