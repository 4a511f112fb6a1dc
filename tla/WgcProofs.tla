------------------------------ MODULE WgcProofs ------------------------------
(***************************************************************************)
(* Proofs about WgcCapture: what a caller of grab_into sees, for windows   *)
(* of any sizes and borders of any width.                                  *)
(*                                                                         *)
(* A pixel is found at row * width + column of the frame stored, so that   *)
(* the picture is right because the width that the callback stored beside  *)
(* the frame is the frame's own, except between its two stores.            *)
(***************************************************************************)
EXTENDS WgcCapture, TLAPS

IsSize(d) == d \in Nat \X Nat

WgcTypes ==
  /\ IsSize(window) /\ storing \in BOOLEAN
  /\ latest # None => IsSize(latest)
  /\ dimensions # None => IsSize(dimensions)
  /\ crop \in [x : Nat, y : Nat, w : Nat, h : Nat]
  /\ area \in [x : Nat, y : Nat, w : Nat, h : Nat]

(* The frame is stored first, and its dimensions before anything is opened. *)
FrameBeforeDimensions ==
  /\ ~storing => dimensions = latest
  /\ storing \/ dimensions # None => latest # None
  /\ phase = "open" => dimensions # None

IInv == WgcTypes /\ FrameBeforeDimensions

LEMMA SizeFacts ==
  ASSUME NEW d, IsSize(d)
  PROVE  d[1] \in Nat /\ d[2] \in Nat /\ d = <<d[1], d[2]>> /\ d # None
  BY DEF IsSize, None

LEMMA EvenFacts == \A n \in Nat : Even(n) \in Nat /\ Even(n) <= n
  BY DEF Even

(* The place of a pixel, back from its offset in the frame. *)
LEMMA OffsetFacts ==
  ASSUME NEW x \in Nat, NEW y \in Nat, NEW w \in Nat, NEW h \in Nat, x < w
  PROVE  /\ (y * w + x) % w = x /\ (y * w + x) \div w = y
         /\ y < h => y * w + x < w * h
  OBVIOUS

LEMMA OffsetInFrame ==
  ASSUME NEW w \in Nat, NEW h \in Nat, NEW n \in Nat, n < w * h
  PROVE  n % w < w /\ n \div w < h
<1>1. w > 0
  OBVIOUS
<1>2. PICK q \in Int, r \in Nat : n \div w = q /\ n % w = r /\ n = w * q + r /\ r < w
  BY <1>1
<1>3. CASE q >= h
  <2>1. PICK d \in Nat : q = h + d
    BY <1>2, <1>3
  <2>2. w * q = w * h + w * d /\ w * d \in Nat
    BY <1>2, <2>1
  <2>3. n >= w * h
    BY <1>2, <2>2
  <2>. QED  BY <2>3
<1>. QED  BY <1>2, <1>3

LEMMA CropFacts ==
  ASSUME WgcTypes, crop' \in {client_crop, NoCrop}
  PROVE  crop' \in [x : Nat, y : Nat, w : Nat, h : Nat]
<1>1. window[1] \in Nat /\ window[2] \in Nat /\ Border \in Nat /\ Title \in Nat
  BY SizeFacts, WgcAssumption DEF WgcTypes
<1>2. \A a, b \in Nat : Monus(a, b) \in Nat
  BY DEF Monus
<1>3. Monus(window[1], 2 * Border) \in Nat /\ Monus(window[2], Title + Border) \in Nat
  <2>1. 2 * Border \in Nat /\ Title + Border \in Nat
    BY <1>1
  <2>. QED  BY <1>1, <1>2, <2>1
<1>. QED  BY <1>1, <1>3 DEF client_crop, NoCrop

LEMMA AreaFacts ==
  ASSUME WgcTypes, NEW f, IsSize(f)
  PROVE  AreaIn(f) \in [x : Nat, y : Nat, w : Nat, h : Nat]
<1>1. f[1] \in Nat /\ f[2] \in Nat
  BY SizeFacts
<1>2. CASE crop = NoCrop
  BY <1>1, <1>2, EvenFacts DEF AreaIn
<1>3. CASE crop # NoCrop
  <2>. DEFINE x == Smaller(crop.x, f[1])
              y == Smaller(crop.y, f[2])
  <2>1. crop.x \in Nat /\ crop.y \in Nat /\ crop.w \in Nat /\ crop.h \in Nat
    BY DEF WgcTypes
  <2>2. x \in Nat /\ x <= f[1] /\ y \in Nat /\ y <= f[2]
    BY <1>1, <2>1 DEF Smaller
  <2>. HIDE DEF x, y
  <2>3. Smaller(crop.w, f[1] - x) \in Nat /\ Smaller(crop.h, f[2] - y) \in Nat
    BY <1>1, <2>1, <2>2 DEF Smaller
  <2>. QED  BY <1>3, <2>2, <2>3, EvenFacts DEF AreaIn, x, y
<1>. QED  BY <1>2, <1>3

LEMMA WgcInitIsSafe == WgcInit => IInv
<1>. SUFFICES ASSUME WgcInit PROVE IInv
  OBVIOUS
<1>1. IsSize(window)
  BY WgcAssumption DEF WgcInit, IsSize
<1>2. NoCrop \in [x : Nat, y : Nat, w : Nat, h : Nat]
  BY DEF NoCrop
<1>3. latest = None /\ dimensions = None /\ storing = FALSE /\ phase = "new"
      /\ crop = NoCrop /\ area = NoCrop
  BY DEF WgcInit
<1>. QED  BY <1>1, <1>2, <1>3 DEF IInv, WgcTypes, FrameBeforeDimensions

LEMMA WgcStepsAreSafe == IInv /\ [WgcNext]_wgcVars => IInv'
<1>. SUFFICES ASSUME IInv, [WgcNext]_wgcVars PROVE IInv'
  OBVIOUS
<1>. USE DEF IInv, sharedVars
<1>1. CASE WindowResizes \/ WindowVanishes
  BY <1>1, WgcAssumption DEF WindowResizes, WindowVanishes, WgcTypes, FrameBeforeDimensions, IsSize
<1>2. CASE StoreLatest
  <2>1. latest' = window /\ IsSize(latest') /\ latest' # None
    BY <1>2, SizeFacts DEF StoreLatest, WgcTypes
  <2>. QED  BY <1>2, <2>1 DEF StoreLatest, WgcTypes, FrameBeforeDimensions, IsSize
<1>3. CASE StoreDimensions
  BY <1>3 DEF StoreDimensions, WgcTypes, FrameBeforeDimensions, IsSize
<1>4. CASE StartCapture
  BY <1>4, CropFacts DEF StartCapture, WgcTypes, FrameBeforeDimensions, IsSize
<1>5. CASE FirstFrame
  <2>1. area' \in [x : Nat, y : Nat, w : Nat, h : Nat]
    BY <1>5, AreaFacts DEF FirstFrame, FrameSeen, WgcTypes
  <2>. QED  BY <1>5, <2>1 DEF FirstFrame, FrameSeen, WgcTypes, FrameBeforeDimensions, IsSize
<1>6. CASE NoFirstFrame
  BY <1>6 DEF NoFirstFrame, WgcTypes, FrameBeforeDimensions, IsSize
<1>7. CASE UNCHANGED wgcVars
  BY <1>7 DEF wgcVars, WgcTypes, FrameBeforeDimensions, IsSize
<1>. QED  BY <1>1, <1>2, <1>3, <1>4, <1>5, <1>6, <1>7 DEF WgcNext

(* A frame that was stored stays there, and its width is known.             *)
THEOREM Invariance == WgcSpec => []IInv
  BY WgcInitIsSafe, WgcStepsAreSafe, PTL DEF WgcSpec

LEMMA GrabFacts ==
  ASSUME IInv, phase = "open", NEW p \in Output
  PROVE  /\ ~storing =>
              /\ InFrame(Place(p)) => grab_into[p] = Place(p)
              /\ Place(p)[2] >= latest[2] => grab_into[p] = Clear
         /\ dimensions[1] = latest[1] /\ Place(p)[1] < latest[1] =>
              grab_into[p] \in {Place(p), Clear}
         /\ grab_into[p] = Clear \/ InFrame(grab_into[p])
<1>. DEFINE x == area.x + p[1]
            y == area.y + p[2]
            at == y * dimensions[1] + area.x + p[1]
<1>1. /\ latest # None /\ latest[1] \in Nat /\ latest[2] \in Nat
      /\ dimensions[1] \in Nat /\ dimensions[2] \in Nat /\ RawDims = dimensions
      /\ ~storing => dimensions = latest
  BY SizeFacts DEF IInv, WgcTypes, FrameBeforeDimensions, RawDims
<1>2. x \in Nat /\ y \in Nat
  BY DEF Output, IInv, WgcTypes
<1>3. at = y * dimensions[1] + x
  BY <1>1 DEF Output, IInv, WgcTypes
<1>4. Place(p) = <<x, y>> /\ Place(p)[1] = x /\ Place(p)[2] = y
  BY DEF Place
<1>5. grab_into[p] = IF y >= dimensions[2] \/ at >= latest[1] * latest[2]
                     THEN Clear ELSE <<at % latest[1], at \div latest[1]>>
  BY <1>1 DEF grab_into
<1>. HIDE DEF x, y, at
<1>6. ASSUME dimensions[1] = latest[1], x < latest[1]
      PROVE  <<at % latest[1], at \div latest[1]>> = Place(p)
  <2>. PICK w \in Nat, h \in Nat : w = latest[1] /\ h = latest[2]
    BY <1>1
  <2>1. (y * w + x) % w = x /\ (y * w + x) \div w = y
    BY <1>2, <1>6, OffsetFacts
  <2>2. at = y * w + x
    BY <1>3, <1>6
  <2>. QED  BY <1>4, <2>1, <2>2
<1>7. dimensions[1] = latest[1] /\ x < latest[1] => grab_into[p] \in {Place(p), Clear}
  BY <1>5, <1>6
<1>8. ASSUME ~storing, x < latest[1], y < latest[2]
      PROVE  grab_into[p] = Place(p)
  <2>1. at < latest[1] * latest[2]
    BY <1>1, <1>2, <1>3, <1>8, OffsetFacts
  <2>2. latest[1] * latest[2] \in Nat /\ at \in Nat
    BY <1>1, <1>2, <1>3
  <2>. QED  BY <1>1, <1>2, <1>5, <1>6, <1>8, <2>1, <2>2
<1>9. ASSUME ~storing, y >= latest[2]
      PROVE  grab_into[p] = Clear
  BY <1>1, <1>5, <1>9
<1>10. grab_into[p] = Clear \/ InFrame(grab_into[p])
  <2>1. CASE y >= dimensions[2] \/ at >= latest[1] * latest[2]
    BY <1>5, <2>1
  <2>2. CASE ~ (y >= dimensions[2] \/ at >= latest[1] * latest[2])
    <3>1. latest[1] * latest[2] \in Nat /\ at \in Nat
      BY <1>1, <1>2, <1>3
    <3>2. at < latest[1] * latest[2]
      BY <2>2, <3>1
    <3>3. at % latest[1] < latest[1] /\ at \div latest[1] < latest[2]
      BY <1>1, <3>1, <3>2, OffsetInFrame
    <3>4. grab_into[p] = <<at % latest[1], at \div latest[1]>>
      BY <1>5, <2>2
    <3>. QED  BY <3>3, <3>4 DEF InFrame
  <2>. QED  BY <2>1, <2>2
<1>. QED  BY <1>4, <1>7, <1>8, <1>9, <1>10 DEF InFrame

(* Once a window is open a picture of it (WgcCapture::grab_into) shows each  *)
(* pixel of the frame stored at its place, but for the right margin of a     *)
(* window that has become narrower; while a frame of another width is being  *)
(* stored it shows pixels of that frame at any place.                        *)
THEOREM WindowsAreShown == WgcSpec => []GrabShowsTheWindow
<1>1. IInv => GrabShowsTheWindow
  BY GrabFacts DEF IInv, FrameBeforeDimensions, GrabShowsTheWindow
<1>. QED  BY <1>1, Invariance, PTL
=============================================================================
