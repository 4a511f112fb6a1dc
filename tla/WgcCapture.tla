----------------------------- MODULE WgcCapture -----------------------------
(***************************************************************************)
(* WgcCapture (crates/capture/src/wgc.rs): a thread of the capture library *)
(* delivers frames of a window, which changes its size as it likes;        *)
(* open_by_title decides once what part of it is captured; the capture     *)
(* loop calls grab_into when it wants a picture.                           *)
(*                                                                         *)
(* A pixel of a frame is its place <<x, y>> in the window; Black, which is *)
(* opaque, and Clear, which the page does not show, are filled in.         *)
(* grab_into holds the lock of `latest' from its first read to its end, so *)
(* that it is one step; it changes nothing but the caller's buffer, so     *)
(* that it is an operator, the picture a caller would get.                 *)
(*                                                                         *)
(* Abstracted: finding the window, borders, DPI, the stride of a frame.    *)
(***************************************************************************)
EXTENDS Integers

CONSTANTS
  WindowSizes,    \* bound: the sizes <<w, h>> a window may have
  Border, Title   \* pixels left of, above the client area

ASSUME WgcAssumption == WindowSizes \subseteq Nat \X Nat /\ Border \in Nat /\ Title \in Nat

VARIABLES
  window,         \* its size
  vanished,
  phase,          \* of open_by_title: "new", "waiting", "open", "failed"
  crop,           \* what client_crop measured, or NoCrop
  area,           \* crop_x, crop_y, width, height as opened
  latest,         \* the size of the frame stored, or None
  dimensions,     \* as stored, or None
  storing         \* the callback has stored the one and not the other

wgcVars == <<window, vanished, phase, crop, area, latest, dimensions, storing>>
sharedVars == <<latest, dimensions, storing>>

None == <<>>
NoCrop == [x |-> 0, y |-> 0, w |-> 0, h |-> 0]

Even(n) == n - (n % 2)
Smaller(a, b) == IF a < b THEN a ELSE b
Monus(a, b) == IF a > b THEN a - b ELSE 0

----------------------------------------------------------------------------
(* The window and the library (external).                                   *)

WindowResizes ==
  /\ ~vanished
  /\ window' \in WindowSizes \ {window}
  /\ UNCHANGED <<vanished, phase, crop, area, sharedVars>>

(* on_closed changes nothing.                                               *)
WindowVanishes ==
  /\ ~vanished
  /\ vanished' = TRUE
  /\ UNCHANGED <<window, phase, crop, area, sharedVars>>

----------------------------------------------------------------------------
(* The frame callback.                                                      *)

StoreLatest ==
  /\ phase # "new" /\ ~vanished /\ ~storing
  /\ latest' = window
  /\ storing' = TRUE
  /\ UNCHANGED <<window, vanished, phase, crop, area, dimensions>>

(* Mutant: the dimensions are those of the first frame.                     *)
StoreDimensions_Once ==
  /\ storing
  /\ dimensions' = IF dimensions = None THEN latest ELSE dimensions
  /\ storing' = FALSE
  /\ UNCHANGED <<window, vanished, phase, crop, area, latest>>

(* (The frame's size was read when the callback began.)                     *)
StoreDimensions ==
  /\ storing
  /\ dimensions' = latest
  /\ storing' = FALSE
  /\ UNCHANGED <<window, vanished, phase, crop, area, latest>>

----------------------------------------------------------------------------
(* open_by_title.                                                           *)

client_crop ==
  LET w == Monus(window[1], 2 * Border)
      h == Monus(window[2], Title + Border)
  IN  IF w = 0 \/ h = 0 THEN NoCrop ELSE [x |-> Border, y |-> Title, w |-> w, h |-> h]

(* The window is found and visible, its client area is measured (unless     *)
(* that fails) and the session started; or it is refused.                   *)
StartCapture ==
  /\ phase = "new"
  /\ crop' \in {client_crop, NoCrop}
  /\ phase' \in {"waiting", "failed"}
  /\ UNCHANGED <<window, vanished, area, sharedVars>>

(* The client area, within the frame, with even numbers everywhere.         *)
AreaIn(frame) ==
  IF crop = NoCrop
  THEN [x |-> 0, y |-> 0, w |-> Even(frame[1]), h |-> Even(frame[2])]
  ELSE LET x == Smaller(crop.x, frame[1])
           y == Smaller(crop.y, frame[2])
       IN  [x |-> Even(x), y |-> Even(y),
            w |-> Even(Smaller(crop.w, frame[1] - x)),
            h |-> Even(Smaller(crop.h, frame[2] - y))]

FrameSeen == dimensions # None /\ dimensions[1] > 0 /\ dimensions[2] > 0

FirstFrame ==
  /\ phase = "waiting" /\ FrameSeen
  /\ phase' = "open"
  /\ area' = AreaIn(dimensions)
  /\ UNCHANGED <<window, vanished, crop, sharedVars>>

(* Eight seconds without a frame.                                           *)
NoFirstFrame ==
  /\ phase = "waiting" /\ ~FrameSeen
  /\ phase' = "failed"
  /\ UNCHANGED <<window, vanished, crop, area, sharedVars>>

----------------------------------------------------------------------------
Black == "black"
Clear == "clear"
Output == (0 .. area.w - 1) \X (0 .. area.h - 1)
RawDims == IF dimensions = None THEN <<area.w, area.h>> ELSE dimensions

(* The rows of the frame are as long as `dimensions' says, whatever is in   *)
(* `latest'; a strip may run on into the next row, and is cut off at the    *)
(* end of the frame.                                                        *)
grab_into ==
  [p \in Output |->
     IF latest = None THEN Black
     ELSE LET row == area.y + p[2]
              at == row * RawDims[1] + area.x + p[1]
          IN  IF row >= RawDims[2] \/ at >= latest[1] * latest[2]
              THEN Clear
              ELSE <<at % latest[1], at \div latest[1]>>]

WgcInit ==
  /\ window \in WindowSizes /\ vanished = FALSE
  /\ phase = "new" /\ crop = NoCrop /\ area = NoCrop
  /\ latest = None /\ dimensions = None /\ storing = FALSE

WgcNext ==
  \/ WindowResizes \/ WindowVanishes
  \/ StoreLatest \/ StoreDimensions
  \/ StartCapture \/ FirstFrame \/ NoFirstFrame

WgcSpec == WgcInit /\ [][WgcNext]_wgcVars

----------------------------------------------------------------------------
Place(p) == <<area.x + p[1], area.y + p[2]>>
InFrame(q) == q[1] < latest[1] /\ q[2] < latest[2]

(* Once open there is a frame ("serving the last frame" when the window has *)
(* gone), and a picture shows it at its place, all of the area in the frame *)
(* that the area was decided from.  Where a smaller window leaves part of   *)
(* the area empty the picture is transparent, but for the right margin,     *)
(* where the next row shows.  Between the callback's two stores part of it  *)
(* may be missing, and the rest is at its place unless the width changes,   *)
(* when rows are sheared: what they show is then from anywhere in the frame.*)
GrabShowsTheWindow ==
  phase = "open" =>
    /\ latest # None
    /\ \A p \in Output :
         /\ ~storing =>
              /\ InFrame(Place(p)) => grab_into[p] = Place(p)
              /\ Place(p)[2] >= latest[2] => grab_into[p] = Clear
         /\ dimensions[1] = latest[1] /\ Place(p)[1] < latest[1] =>
              grab_into[p] \in {Place(p), Clear}
         /\ grab_into[p] = Clear \/ InFrame(grab_into[p])
=============================================================================
