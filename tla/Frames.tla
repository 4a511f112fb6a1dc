------------------------------- MODULE Frames -------------------------------
(***************************************************************************)
(* What happens to a picture between the capture source and the receiver   *)
(* page: byte order (capture/src/lib.rs, dda.rs), size (resize.rs), chroma *)
(* key and side-by-side packing (packer.rs), NV12 (mf_encoder.rs,          *)
(* gpu_convert.rs), and the page's shader (receiver.html).                 *)
(*                                                                         *)
(* All of it is pure; a state is a job, chosen at the start.  Where the    *)
(* code computes with floating point, a value that is an integer exactly   *)
(* may come out on either side of it, so that operators give the set of    *)
(* results.  Abstracted: the lossy codec in between.                       *)
(***************************************************************************)
EXTENDS Integers, FiniteSets

CONSTANTS
  MaxSide, MaxCap,    \* bounds: source sizes, max_packed_width
  Colours, Alphas     \* bounds: <<r, g, b>> and alpha of the pixels

ASSUME FramesAssumption ==
  /\ MaxSide \in Nat /\ MaxCap \in Nat
  /\ Colours \subseteq (0 .. 255) \X (0 .. 255) \X (0 .. 255) /\ Alphas \subseteq 0 .. 255

VARIABLE job

EvenDown(n) == n - (n % 2)
Lesser(a, b) == IF a < b THEN a ELSE b
Larger(a, b) == IF a > b THEN a ELSE b
Within(a, b, d) == a - b \in -d .. d

(* a / b in floating point, rounded down, up, to the nearest.               *)
Floor(a, b) == {a \div b} \cup (IF a > 0 /\ a % b = 0 THEN {a \div b - 1} ELSE {})
Ceil(a, b) ==
  IF a % b # 0 THEN {a \div b + 1} ELSE {a \div b} \cup (IF a > 0 THEN {a \div b + 1} ELSE {})
Round(a, b) == {n \in a \div b .. a \div b + 1 : 2 * n * b - 2 * a \in -b .. b}

----------------------------------------------------------------------------
(* Size.                                                                    *)

(* Mutant: the height is not made even.                                     *)
compute_effective_dims_Odd(w, h, max_packed_w) ==
  LET max_src_w == max_packed_w \div 2
  IN  IF w <= max_src_w
      THEN {<<EvenDown(w), EvenDown(h)>>}
      ELSE {<<EvenDown(max_src_w), Larger(n, 2)>> : n \in Round(h * max_src_w, w)}

compute_effective_dims(w, h, max_packed_w) ==
  LET max_src_w == max_packed_w \div 2
  IN  IF w <= max_src_w
      THEN {<<EvenDown(w), EvenDown(h)>>}
      ELSE {<<EvenDown(max_src_w), Larger(EvenDown(n), 2)>> : n \in Round(h * max_src_w, w)}

packed_dims(w, h) == <<w * 2, h>>

(* The source pixels that box_resize_rgba may average for pixel d of a side *)
(* that shrinks.                                                            *)
Footprints(d, from, to) ==
  {lo .. Larger(Lesser(hi, from), lo + 1) - 1 : lo \in Floor(d * from, to), hi \in Ceil((d + 1) * from, to)}

(* The pixels between which the shader's linear sampler interpolates for    *)
(* pixel d: its centre is a little right of pixel Tap(d).                   *)
Tap(d, from, to) == ((2 * d + 1) * from - to) \div (2 * to)
OnPixel(d, from, to) == ((2 * d + 1) * from - to) % (2 * to) = 0
Sampled(d, from, to) ==
  {Larger(0, Lesser(from - 1, s)) :
     s \in {Tap(d, from, to)} \cup (IF OnPixel(d, from, to) THEN {} ELSE {Tap(d, from, to) + 1})}

----------------------------------------------------------------------------
(* Byte order.                                                              *)

BGRA == {87, 90, 91}    \* DXGI_FORMAT_B8G8R8A8_UNORM, _TYPELESS, _UNORM_SRGB
RGBA == {28, 27, 29}

staging_safe_format(f) == IF f \in {90, 0} THEN 87 ELSE IF f = 27 THEN 28 ELSE f

Swap(px) == <<px[3], px[2], px[1], px[4]>>

(* A texture's four bytes (external).                                       *)
Stored(px, f) == IF f \in BGRA THEN Swap(px) ELSE px

(* SpoutReceiver::grab_into.                                                *)
SpoutGrab(bytes, format) == IF format \in {87, 91} THEN Swap(bytes) ELSE bytes

(* DdaCapture::grab_into: the desktop is BGRA; when acquire_next_frame does *)
(* not have a picture in time, the source's is opaque black.                *)
DdaGrab(bytes) == Swap(bytes)
DdaTimeout == <<0, 0, 0, 255>>

(* As what the shader samples the snapshot of a texture.                    *)
snapshot_formats(f) == IF f \in BGRA THEN 87 ELSE 28
Sampler(bytes, format) == IF snapshot_formats(format) = 87 THEN Swap(bytes) ELSE bytes

(* arrived: whether the source had a picture when it was asked for one.  A  *)
(* window that has none is WgcCapture's.                                    *)
OnCpu(px, source, arrived) ==
  LET bytes == Stored(px, source.format)
  IN  IF source.kind = "spout" THEN SpoutGrab(bytes, staging_safe_format(source.format))
      ELSE IF source.kind = "window" THEN bytes
      ELSE IF arrived THEN DdaGrab(bytes)
      ELSE DdaTimeout

OnGpu(px, source) ==
  Sampler(Stored(px, source.format), staging_safe_format(source.format))

----------------------------------------------------------------------------
(* Chroma key and packing.                                                  *)

Distance(px, key) ==
  LET d(c) == Larger(px[c] - key.colour[c], key.colour[c] - px[c])
  IN  Larger(Larger(d(1), d(2)), d(3))

NewAlpha(dist, t, s) ==
  IF dist <= t THEN 0 ELSE IF dist <= t + s THEN ((dist - t) * 255) \div s ELSE 255

NoKey == [colour |-> <<>>]

apply_chroma_key(px, key) ==
  IF key = NoKey THEN px
  ELSE [px EXCEPT ![4] = NewAlpha(Distance(px, key), key.threshold, Larger(key.softness, 1))]

(* Mutant: alpha goes into R alone.                                         *)
pack_rgba_side_by_side_RedOnly(row) ==
  LET w == Cardinality(DOMAIN row)
  IN  [x \in 0 .. 2 * w - 1 |->
         IF x < w THEN <<row[x][1], row[x][2], row[x][3]>> ELSE <<row[x - w][4], 0, 0>>]

pack_rgba_side_by_side(row) ==
  LET w == Cardinality(DOMAIN row)
  IN  [x \in 0 .. 2 * w - 1 |->
         IF x < w THEN <<row[x][1], row[x][2], row[x][3]>>
         ELSE <<row[x - w][4], row[x - w][4], row[x - w][4]>>]

----------------------------------------------------------------------------
(* NV12 (BT.601, limited range), of thousandths.                            *)

Luma(c) == 257 * c[1] + 504 * c[2] + 98 * c[3] + 16000
Blue(c) == 439 * c[3] - 148 * c[1] - 291 * c[2] + 128000
Red(c) == 439 * c[1] - 368 * c[2] - 71 * c[3] + 128000

(* rgba_to_nv12 cuts off, a render target rounds.  The chroma of two equal  *)
(* rows is that of the two pixels of one.                                   *)
rgba_to_nv12(row, x) ==
  LET l == 2 * (x \div 2)
  IN  [y : Floor(Luma(row[x]), 1000),
       u : Floor(Blue(row[l]) + Blue(row[l + 1]), 2000),
       v : Floor(Red(row[l]) + Red(row[l + 1]), 2000)]

(* ps_luma and ps_chroma, without scaling.                                  *)
Nv12Converter(row, x) ==
  LET w == Cardinality(DOMAIN row)
      l == 2 * (x \div 2)
  IN  IF x < w
      THEN [y : Round(Luma(row[x]), 1000),
            u : Round(Blue(row[l]) + Blue(row[l + 1]), 2000),
            v : Round(Red(row[l]) + Red(row[l + 1]), 2000)]
      ELSE [y : Round(859 * row[x - w][4] + 16000, 1000), u : {128}, v : {128}]

(* The browser's conversion (external).                                     *)
Clamped(n) == Larger(0, Lesser(255, n))
Decoded(p) ==
  <<Clamped((1164 * (p.y - 16) + 1596 * (p.v - 128)) \div 1000),
    Clamped((1164 * (p.y - 16) - 392 * (p.u - 128) - 813 * (p.v - 128)) \div 1000),
    Clamped((1164 * (p.y - 16) + 2017 * (p.u - 128)) \div 1000)>>

(* What the page may show of pixel x of a row, on either path: colour from  *)
(* the left half, alpha from the red of the right half (fsrc).              *)
Shown(nv12l, nv12r) == {<<Decoded(l), Decoded(r)[1]>> : l \in nv12l, r \in nv12r}
CpuRow ==
  [x \in DOMAIN job.row |->
     apply_chroma_key(OnCpu(job.row[x], job.source, job.arrived), job.key)]
CpuShows(x) ==
  LET packed == pack_rgba_side_by_side(CpuRow)
  IN  Shown(rgba_to_nv12(packed, x), rgba_to_nv12(packed, x + Cardinality(DOMAIN job.row)))
GpuShows(x) ==
  LET row == [i \in DOMAIN job.row |-> OnGpu(job.row[i], job.source)]
  IN  Shown(Nv12Converter(row, x), Nv12Converter(row, x + Cardinality(DOMAIN job.row)))

----------------------------------------------------------------------------
NoJob == [what |-> "none"]

Pixels == {<<c[1], c[2], c[3], a>> : c \in Colours, a \in Alphas}
Keys == {NoKey, [colour |-> <<0, 255, 0>>, threshold |-> 60, softness |-> 30],
         [colour |-> <<0, 255, 0>>, threshold |-> 0, softness |-> 0]}
Display == [kind |-> "display", format |-> 87]
Sources ==
  [kind : {"spout"}, format : BGRA \cup RGBA] \cup {[kind |-> "window", format |-> 28], Display}
has_alpha(source) == source.kind = "spout"

FramesInit ==
  \/ job \in [what : {"scale"}, w : 2 .. MaxSide, h : 2 .. MaxSide, cap : 4 .. MaxCap]
  \/ job \in [what : {"show"}, row : [0 .. 1 -> Pixels], source : Sources, key : Keys,
              arrived : {TRUE}]
  \/ job \in [what : {"show"}, row : [0 .. 1 -> Pixels], source : {Display}, key : Keys,
              arrived : {FALSE}]

FramesSpec == FramesInit /\ [][FALSE]_job

----------------------------------------------------------------------------
Covers(footprints, to, from) ==
  /\ \A d \in 0 .. to - 1 : \A f \in footprints[d] : f # {} /\ f \subseteq 0 .. from - 1
  /\ \A s \in 0 .. from - 1 : \E d \in 0 .. to - 1 : \A f \in footprints[d] : s \in f

BoxCovers(from, to) == Covers([d \in 0 .. to - 1 |-> Footprints(d, from, to)], to, from)
SamplerCovers(from, to) == Covers([d \in 0 .. to - 1 |-> {Sampled(d, from, to)}], to, from)

(* Whatever the size of the source (of two pixels or more, and a limit of   *)
(* four), the packed picture keeps to the limit and to even sides ("encoders*)
(* reject odd dims"), so that no 2x2 block of the chroma plane holds colour *)
(* and alpha, keeps the shape but for two rows, and no part of the source   *)
(* is left out: box_resize_rgba averages every pixel, the shader as long as *)
(* it shrinks no side to less than half.                                    *)
ScalingIsSound ==
  job.what = "scale" =>
    \A d \in compute_effective_dims(job.w, job.h, job.cap) :
      LET packed == packed_dims(d[1], d[2])
      IN  /\ packed[1] <= job.cap /\ packed[1] % 4 = 0 /\ packed[2] % 2 = 0
          /\ d[1] \in 2 .. job.w /\ d[2] \in 2 .. job.h
          /\ Within(d[2] * job.w, job.h * Lesser(job.w, job.cap \div 2), 2 * job.w)
          /\ BoxCovers(job.w, d[1]) /\ BoxCovers(job.h, d[2])
          /\ job.w <= 2 * d[1] => SamplerCovers(job.w, d[1])
          /\ job.h <= 2 * d[2] => SamplerCovers(job.h, d[2])

(* The alpha a keyed pixel has by the key's definition, to one level: the   *)
(* band of softness fades linearly.                                         *)
KeyedAlpha(px, key) ==
  LET beyond == Distance(px, key) - key.threshold
  IN  IF beyond <= 0 THEN 0
      ELSE IF beyond > key.softness THEN 255
      ELSE (255 * beyond) \div key.softness

(* The alpha a pixel should have on the page: that of the key, else that of *)
(* a source whose pixels carry one, else solid ("the alpha plane is solid   *)
(* 0xFF and the receiver shows the whole rectangle").                       *)
Ideal(px, source, key) ==
  IF key # NoKey THEN KeyedAlpha(px, key) ELSE IF has_alpha(source) THEN px[4] ELSE 255

(* Nothing on the way makes a pixel solid: no code asks has_alpha, and      *)
(* without a key the byte that was captured is passed on.  What has no      *)
(* claim to be transparent is so on the page if that byte is not 255.       *)
AlphaIsPassedOn(px, source, key) == key # NoKey \/ has_alpha(source) \/ px[4] = 255

(* Whatever its neighbour, from every source and on both paths, a pixel     *)
(* reaches the page with the alpha it should have, to three levels, where   *)
(* the code sees to it (the key; a source with alpha) or the capture did    *)
(* (a byte of 255): nothing of the colours bleeds into it and what is to be *)
(* transparent is so entirely.  The colours of an even area are those that  *)
(* were captured, to four; a display that had no picture is black.          *)
PictureSurvives ==
  job.what = "show" =>
    \A x \in DOMAIN job.row :
      LET Captured(i) == IF job.arrived THEN job.row[i] ELSE <<0, 0, 0, 255>>
          px == Captured(x)
          AlphaIsKept(s, a) == Within(s[2], a, 3) /\ (a = 0 => s[2] = 0)
          ColoursAreKept(s) ==
            Captured(0) = Captured(1) => \A c \in 1 .. 3 : Within(s[1][c], px[c], 4)
      IN  /\ \A s \in CpuShows(x) :
               /\ AlphaIsPassedOn(px, job.source, job.key) =>
                    AlphaIsKept(s, Ideal(px, job.source, job.key))
               /\ ColoursAreKept(s)
          /\ job.source.kind = "spout" =>
               \A s \in GpuShows(x) : AlphaIsKept(s, px[4]) /\ ColoursAreKept(s)
=============================================================================
