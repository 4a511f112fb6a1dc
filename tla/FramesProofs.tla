---------------------------- MODULE FramesProofs ----------------------------
(***************************************************************************)
(* Proofs about Frames.                                                    *)
(***************************************************************************)
EXTENDS Frames, FiniteSetTheorems, TLAPS

----------------------------------------------------------------------------
(* Division.                                                                *)

LEMMA DivisionFacts ==
  ASSUME NEW a \in Int, NEW b \in Nat, b # 0
  PROVE  /\ a \div b \in Int /\ a % b \in 0 .. b - 1
         /\ b * (a \div b) <= a /\ a < b * (a \div b) + b
         /\ a = b * (a \div b) + (a % b)
<1>1. a \div b \in Int /\ a % b \in Int
  OBVIOUS
<1>2. a % b >= 0 /\ a % b < b
  OBVIOUS
<1>3. a = b * (a \div b) + (a % b)
  OBVIOUS
<1>4. b * (a \div b) \in Int
  BY <1>1
<1>. QED  BY <1>1, <1>2, <1>3, <1>4

LEMMA EvenDownFacts ==
  ASSUME NEW n \in Nat
  PROVE  /\ EvenDown(n) \in Nat /\ EvenDown(n) % 2 = 0 /\ (2 * EvenDown(n)) % 4 = 0
         /\ EvenDown(n) <= n /\ n <= EvenDown(n) + 1
         /\ n >= 2 => EvenDown(n) \in 2 .. n
<1>1. n % 2 \in 0 .. 1
  OBVIOUS
<1>2. EvenDown(n) % 2 = 0 /\ (2 * EvenDown(n)) % 4 = 0
  BY <1>1 DEF EvenDown
<1>3. n >= 2 => EvenDown(n) \in 2 .. n
  BY <1>1 DEF EvenDown
<1>. QED  BY <1>1, <1>2, <1>3 DEF EvenDown

LEMMA FloorFacts ==
  ASSUME NEW a \in Nat, NEW b \in Nat, b # 0, NEW n \in Floor(a, b)
  PROVE  n \in Nat /\ b * n <= a
<1>1. a \div b \in Int /\ b * (a \div b) <= a /\ a < b * (a \div b) + b /\ a = b * (a \div b) + (a % b)
  BY DivisionFacts
<1>2. a \div b >= 0
  OBVIOUS
<1>3. CASE n = a \div b
  BY <1>1, <1>2, <1>3
<1>4. CASE n = a \div b - 1 /\ a > 0 /\ a % b = 0
  <2>1. a \div b # 0
    BY <1>1, <1>4
  <2>2. b * n = b * (a \div b) - b
    BY <1>1, <1>4
  <2>. QED  BY <1>1, <1>2, <1>4, <2>1, <2>2
<1>. QED  BY <1>3, <1>4 DEF Floor

LEMMA CeilFacts ==
  ASSUME NEW a \in Nat, NEW b \in Nat, b # 0, NEW n \in Ceil(a, b)
  PROVE  n \in Nat /\ b * n >= a
<1>1. a \div b \in Int /\ b * (a \div b) <= a /\ a < b * (a \div b) + b /\ a = b * (a \div b) + (a % b)
  BY DivisionFacts
<1>2. a \div b >= 0
  OBVIOUS
<1>3. CASE n = a \div b /\ a % b = 0
  BY <1>1, <1>2, <1>3
<1>4. CASE n = a \div b + 1
  <2>1. b * n = b * (a \div b) + b
    BY <1>1, <1>4
  <2>. QED  BY <1>1, <1>2, <1>4, <2>1
<1>. QED  BY <1>3, <1>4 DEF Ceil

LEMMA LargerFactor ==
  ASSUME NEW a \in Nat, NEW b \in Nat, NEW c \in Nat, a < b
  PROVE  a * c + c <= b * c
<1>1. PICK d \in Nat : b = a + 1 + d
  <2>. WITNESS b - a - 1 \in Nat
  <2>. QED  OBVIOUS
<1>2. b * c = a * c + c + d * c
  BY <1>1
<1>3. d * c \in Nat /\ a * c \in Nat
  OBVIOUS
<1>. QED  BY <1>2, <1>3

LEMMA Cancel ==
  ASSUME NEW a \in Int, NEW b \in Int, NEW c \in Nat, c # 0, a * c < b * c
  PROVE  a < b
<1>. SUFFICES ASSUME b <= a PROVE FALSE
  OBVIOUS
<1>1. PICK d \in Nat : a = b + d
  <2>. WITNESS a - b \in Nat
  <2>. QED  OBVIOUS
<1>2. a * c = b * c + d * c /\ d * c \in Nat /\ b * c \in Int
  BY <1>1
<1>. QED  BY <1>2

LEMMA Distinct ==
  ASSUME NEW a \in Int, NEW b \in Int, NEW c \in Nat, c # 0, a # b
  PROVE  a * c # b * c
<1>. PICK k \in Int : b = a + k /\ k # 0
  <2>. WITNESS b - a \in Int
  <2>. QED  OBVIOUS
<1>1. b * c = a * c + k * c /\ a * c \in Int
  OBVIOUS
<1>2. k * c # 0
  OBVIOUS
<1>. QED  BY <1>1, <1>2

LEMMA OddMultiples ==
  ASSUME NEW d \in Int, NEW w \in Int
  PROVE  /\ (2 * d + 1) * w = (2 * w) * d + w
         /\ (2 * d - 1) * w = (2 * w) * d - w
         /\ (2 * d - 1) * (2 * w) = (4 * d - 2) * w
  OBVIOUS

LEMMA Quotients == \A a, b \in Nat : b # 0 => \E q \in Nat : b * q <= a /\ a < b * q + b
<1>. SUFFICES ASSUME NEW a \in Nat, NEW b \in Nat, b # 0
              PROVE  \E q \in Nat : b * q <= a /\ a < b * q + b
  OBVIOUS
<1>1. a \div b \in Int /\ b * (a \div b) <= a /\ a < b * (a \div b) + b
  BY DivisionFacts
<1>2. a \div b >= 0
  OBVIOUS
<1>. QED  BY <1>1, <1>2

(* The multiples 2d-1 and 2d+1 of w that a number is between. *)
LEMMA BetweenOddMultiples ==
  ASSUME NEW n \in Nat, NEW w \in Nat, w # 0
  PROVE  \E d \in Nat : (2 * d - 1) * w <= n /\ n < (2 * d + 1) * w
<1>1. n + w \in Nat /\ 2 * w \in Nat /\ 2 * w # 0
  OBVIOUS
<1>2. \E q \in Nat : (2 * w) * q <= n + w /\ n + w < (2 * w) * q + 2 * w
  BY <1>1, Quotients
<1>3. PICK d \in Nat : (2 * w) * d <= n + w /\ n + w < (2 * w) * d + 2 * w
  BY <1>2
<1>4. (2 * d + 1) * w = (2 * w) * d + w /\ (2 * d - 1) * w = (2 * w) * d - w
  BY OddMultiples
<1>. QED  BY <1>3, <1>4

----------------------------------------------------------------------------
(* No pixel is left out.                                                    *)

LEMMA BoxAverages ==
  ASSUME NEW from \in Nat, NEW to \in Nat, 0 < to, to <= from
  PROVE  BoxCovers(from, to)
<1>1. ASSUME NEW d \in 0 .. to - 1, NEW lo \in Floor(d * from, to), NEW hi \in Ceil((d + 1) * from, to)
      PROVE  /\ lo \in 0 .. from - 1 /\ hi \in Nat
             /\ to * lo <= d * from /\ to * hi >= (d + 1) * from
  <2>1. d * from \in Nat /\ (d + 1) * from \in Nat
    OBVIOUS
  <2>2. lo \in Nat /\ to * lo <= d * from
    BY <2>1, FloorFacts
  <2>3. hi \in Nat /\ to * hi >= (d + 1) * from
    BY <2>1, CeilFacts
  <2>4. d * from + from <= to * from
    BY LargerFactor
  <2>5. lo * to < from * to
    BY <2>2, <2>4
  <2>6. lo < from
    BY <2>2, <2>5, Cancel
  <2>. QED  BY <2>2, <2>3, <2>6
<1>2. ASSUME NEW d \in 0 .. to - 1, NEW f \in Footprints(d, from, to)
      PROVE  f # {} /\ f \subseteq 0 .. from - 1
  <2>1. PICK lo \in Floor(d * from, to), hi \in Ceil((d + 1) * from, to) :
          f = lo .. Larger(Lesser(hi, from), lo + 1) - 1
    BY DEF Footprints
  <2>2. lo \in 0 .. from - 1 /\ hi \in Nat
    BY <1>1
  <2>3. lo \in f
    BY <2>1, <2>2 DEF Larger, Lesser
  <2>4. Larger(Lesser(hi, from), lo + 1) - 1 \in 0 .. from - 1
    BY <2>2 DEF Larger, Lesser
  <2>. PICK k \in 0 .. from - 1 : f = lo .. k
    BY <2>1, <2>4
  <2>5. lo .. k \subseteq 0 .. from - 1
    BY <2>2
  <2>. QED  BY <2>3, <2>5
<1>3. ASSUME NEW s \in 0 .. from - 1
      PROVE  \E d \in 0 .. to - 1 : \A f \in Footprints(d, from, to) : s \in f
  <2>. DEFINE e == (s * to) \div from
  <2>1. s * to \in Nat
    OBVIOUS
  <2>2. e \in Int /\ from * e <= s * to /\ s * to < from * e + from /\ e >= 0
    <3>. PICK a \in Nat : a = s * to
      BY <2>1
    <3>1. a \div from \in Int /\ from * (a \div from) <= a /\ a < from * (a \div from) + from
      BY DivisionFacts
    <3>2. a \div from >= 0
      OBVIOUS
    <3>. QED  BY <3>1, <3>2
  <2>. HIDE DEF e
  <2>3. e < to
    <3>1. s * to + to <= from * to
      BY LargerFactor
    <3>2. e * from < to * from
      BY <2>1, <2>2, <3>1
    <3>. QED  BY <2>2, <3>2, Cancel
  <2>4. ASSUME NEW f \in Footprints(e, from, to)
        PROVE  s \in f
    <3>1. PICK lo \in Floor(e * from, to), hi \in Ceil((e + 1) * from, to) :
            f = lo .. Larger(Lesser(hi, from), lo + 1) - 1
      BY DEF Footprints
    <3>2. /\ lo \in 0 .. from - 1 /\ hi \in Nat
          /\ to * lo <= e * from /\ to * hi >= (e + 1) * from
      <4>1. e \in 0 .. to - 1
        BY <2>2, <2>3
      <4>. QED  BY <1>1, <4>1
    <3>3. lo <= s
      <4>1. lo * to < (s + 1) * to
        BY <2>1, <2>2, <3>2
      <4>. QED  BY <3>2, <4>1, Cancel
    <3>4. s < hi
      <4>1. s * to < hi * to
        BY <2>1, <2>2, <3>2
      <4>. QED  BY <3>2, <4>1, Cancel
    <3>. QED  BY <3>1, <3>2, <3>3, <3>4 DEF Larger, Lesser
  <2>. QED  BY <2>2, <2>3, <2>4
<1>. QED  BY <1>2, <1>3 DEF BoxCovers, Covers

(* The sampler's position for pixel d is (2d+1)from - to of 2to parts.       *)
LEMMA SamplerTouches ==
  ASSUME NEW from \in Nat, NEW to \in Nat, 0 < to, to <= from, from <= 2 * to
  PROVE  SamplerCovers(from, to)
<1>1. ASSUME NEW d \in 0 .. to - 1
      PROVE  /\ Tap(d, from, to) \in Int
             /\ 2 * to * Tap(d, from, to) <= (2 * d + 1) * from - to
             /\ (2 * d + 1) * from - to < 2 * to * Tap(d, from, to) + 2 * to
             /\ ~ OnPixel(d, from, to) => 2 * to * Tap(d, from, to) < (2 * d + 1) * from - to
             /\ OnPixel(d, from, to) => 2 * to * Tap(d, from, to) = (2 * d + 1) * from - to
  <2>. PICK a \in Int : a = (2 * d + 1) * from - to
    OBVIOUS
  <2>. PICK b \in Nat : b = 2 * to /\ b # 0
    OBVIOUS
  <2>1. /\ a \div b \in Int /\ a % b \in 0 .. b - 1
        /\ b * (a \div b) <= a /\ a < b * (a \div b) + b
        /\ a = b * (a \div b) + (a % b)
    BY DivisionFacts
  <2>2. Tap(d, from, to) = a \div b /\ (OnPixel(d, from, to) <=> a % b = 0)
    BY DEF Tap, OnPixel
  <2>3. b * (a \div b) \in Int
    BY <2>1
  <2>. QED  BY <2>1, <2>2, <2>3
<1>2. ASSUME NEW d \in 0 .. to - 1, NEW f \in {Sampled(d, from, to)}
      PROVE  f # {} /\ f \subseteq 0 .. from - 1
  <2>1. Tap(d, from, to) \in Int
    BY <1>1
  <2>2. \A n \in Int : Larger(0, Lesser(from - 1, n)) \in 0 .. from - 1
    BY DEF Larger, Lesser
  <2>. QED  BY <2>1, <2>2 DEF Sampled
<1>3. ASSUME NEW s \in 0 .. from - 1
      PROVE  \E d \in 0 .. to - 1 : \A f \in {Sampled(d, from, to)} : s \in f
  <2>1. SUFFICES \E d \in 0 .. to - 1 : \/ Tap(d, from, to) = s
                                        \/ Tap(d, from, to) = s - 1 /\ ~ OnPixel(d, from, to)
    <3>1. PICK d \in 0 .. to - 1 : \/ Tap(d, from, to) = s
                                   \/ Tap(d, from, to) = s - 1 /\ ~ OnPixel(d, from, to)
      BY <2>1
    <3>2. Larger(0, Lesser(from - 1, s)) = s
      BY DEF Larger, Lesser
    <3>3. s - 1 + 1 = s
      OBVIOUS
    <3>4. s \in Sampled(d, from, to)
      BY <3>1, <3>2, <3>3 DEF Sampled
    <3>. QED  BY <3>4
  <2>2. CASE s = 0
    <3>1. (2 * 0 + 1) * from - to = from - to
      OBVIOUS
    <3>2. 0 \in 0 .. to - 1
      OBVIOUS
    <3>3. /\ Tap(0, from, to) \in Int
          /\ 2 * to * Tap(0, from, to) <= from - to
          /\ from - to < 2 * to * Tap(0, from, to) + 2 * to
      BY <1>1, <3>1, <3>2
    <3>4. Tap(0, from, to) = 0
      <4>. PICK t \in Int : t = Tap(0, from, to)
        BY <3>3
      <4>1. t * (2 * to) < 1 * (2 * to)
        BY <3>3
      <4>2. (0 - 1) * (2 * to) < t * (2 * to)
        BY <3>3
      <4>3. 2 * to \in Nat /\ 2 * to # 0
        OBVIOUS
      <4>4. t < 1
        BY <4>1, <4>3, Cancel
      <4>5. 0 - 1 < t
        BY <4>2, <4>3, Cancel
      <4>. QED  BY <4>4, <4>5
    <3>. QED  BY <2>2, <3>2, <3>4
  <2>3. CASE s > 0
    <3>1. PICK d \in Nat : (2 * d - 1) * from <= to * (2 * s - 1) /\ to * (2 * s - 1) < (2 * d + 1) * from
      <4>1. to * (2 * s - 1) \in Nat
        BY <2>3
      <4>2. \A n \in Nat : \E d \in Nat : (2 * d - 1) * from <= n /\ n < (2 * d + 1) * from
        <5>. TAKE n \in Nat
        <5>1. from # 0
          OBVIOUS
        <5>. QED  BY <5>1, BetweenOddMultiples
      <4>. QED  BY <4>1, <4>2
    <3>2. d < to
      <4>1. s * to + to <= from * to
        BY LargerFactor
      <4>2. to * (2 * s - 1) = 2 * (s * to) - to
        OBVIOUS
      <4>3. (2 * d - 1) * from = (2 * from) * d - from
        BY OddMultiples
      <4>4. d * (2 * from) < to * (2 * from)
        BY <3>1, <4>1, <4>2, <4>3
      <4>5. 2 * from \in Nat /\ 2 * from # 0
        OBVIOUS
      <4>. QED  BY <4>4, <4>5, Cancel
    <3>0. d \in 0 .. to - 1
      BY <3>2
    <3>. PICK t \in Int : t = Tap(d, from, to)
      BY <1>1, <3>0
    <3>3. /\ 2 * to * t <= (2 * d + 1) * from - to
          /\ (2 * d + 1) * from - to < 2 * to * t + 2 * to
          /\ OnPixel(d, from, to) => 2 * to * t = (2 * d + 1) * from - to
      BY <1>1, <3>0
    <3>6. s - 1 <= t
      <4>1. (s - 1) * (2 * to) < (t + 1) * (2 * to)
        BY <3>1, <3>3
      <4>2. 2 * to \in Nat /\ 2 * to # 0
        OBVIOUS
      <4>. QED  BY <4>1, <4>2, Cancel
    <3>7. t = s - 1 => ~ OnPixel(d, from, to)
      BY <3>1, <3>3
    <3>8. (2 * d + 1) * from < to * (2 * s + 3)
      <4>1. (2 * d + 1) * from = (2 * d - 1) * from + 2 * from
        BY <3>1
      <4>2. to * (2 * s + 3) = to * (2 * s - 1) + 4 * to
        OBVIOUS
      <4>3. CASE from = 2 * to
        <5>1. (2 * d - 1) * from = (4 * d - 2) * to
          <6>1. (2 * d - 1) * (2 * to) = (4 * d - 2) * to
            BY OddMultiples
          <6>. QED  BY <4>3, <6>1
        <5>2. (4 * d - 2) * to # (2 * s - 1) * to
          <6>. PICK u \in Int, v \in Int : u = 4 * d - 2 /\ v = 2 * s - 1
            BY <3>1
          <6>1. u # v
            BY <3>1
          <6>. QED  BY <6>1, Distinct
        <5>3. to * (2 * s - 1) = (2 * s - 1) * to
          OBVIOUS
        <5>. QED  BY <3>1, <4>1, <4>2, <4>3, <5>1, <5>2, <5>3
      <4>4. CASE from < 2 * to
        BY <3>1, <4>1, <4>2, <4>4
      <4>. QED  BY <4>3, <4>4
    <3>9. t < s + 1
      <4>1. t * (2 * to) < (s + 1) * (2 * to)
        BY <3>3, <3>8
      <4>2. 2 * to \in Nat /\ 2 * to # 0
        OBVIOUS
      <4>. QED  BY <4>1, <4>2, Cancel
    <3>10. t = s \/ t = s - 1
      BY <3>6, <3>9
    <3>. QED  BY <3>0, <3>7, <3>10
  <2>. QED  BY <2>2, <2>3
<1>. QED  BY <1>2, <1>3 DEF SamplerCovers, Covers

----------------------------------------------------------------------------
(* Size.                                                                    *)

LEMMA DimsFacts ==
  ASSUME NEW w \in Nat, NEW h \in Nat, NEW cap \in Nat, w >= 2, h >= 2, cap >= 4,
         NEW d \in compute_effective_dims(w, h, cap)
  PROVE  /\ d[1] \in 2 .. w /\ d[2] \in 2 .. h
         /\ 2 * d[1] <= cap /\ (2 * d[1]) % 4 = 0 /\ d[2] % 2 = 0
         /\ Within(d[2] * w, h * Lesser(w, cap \div 2), 2 * w)
<1>. DEFINE m == cap \div 2
<1>1. m \in Nat /\ 2 <= m /\ 2 * m <= cap
  OBVIOUS
<1>2. /\ EvenDown(w) \in 2 .. w /\ (2 * EvenDown(w)) % 4 = 0
      /\ EvenDown(h) \in 2 .. h /\ h <= EvenDown(h) + 1 /\ EvenDown(h) % 2 = 0
      /\ EvenDown(m) \in 2 .. m /\ (2 * EvenDown(m)) % 4 = 0
  <2>. HIDE DEF m
  <2>1. EvenDown(w) \in 2 .. w /\ (2 * EvenDown(w)) % 4 = 0
    BY EvenDownFacts
  <2>2. EvenDown(h) \in 2 .. h /\ h <= EvenDown(h) + 1 /\ EvenDown(h) % 2 = 0
    BY EvenDownFacts
  <2>3. EvenDown(m) \in 2 .. m /\ (2 * EvenDown(m)) % 4 = 0
    BY <1>1, EvenDownFacts
  <2>. QED  BY <2>1, <2>2, <2>3
<1>. HIDE DEF m
<1>3. CASE w <= m
  <2>1. d = <<EvenDown(w), EvenDown(h)>>
    BY <1>3 DEF compute_effective_dims, m
  <2>2. Lesser(w, m) = w
    BY <1>1, <1>3 DEF Lesser
  <2>3. EvenDown(h) * w - h * w \in -(2 * w) .. 2 * w
    <3>. PICK e \in Nat : e = EvenDown(h)
      BY <1>2
    <3>1. e * w <= h * w /\ h * w <= e * w + w
      <4>1. CASE h = e
        BY <4>1
      <4>2. CASE h = e + 1
        BY <4>2
      <4>. QED  BY <1>2, <4>1, <4>2
    <3>. QED  BY <3>1
  <2>. QED  BY <1>1, <1>2, <1>3, <2>1, <2>2, <2>3 DEF Within, m
<1>4. CASE m < w
  <2>1. PICK n \in Round(h * m, w) : d = <<EvenDown(m), Larger(EvenDown(n), 2)>>
    BY <1>1, <1>4 DEF compute_effective_dims, m
  <2>2. Lesser(w, m) = m
    BY <1>1, <1>4 DEF Lesser
  <2>3. h * m \in Nat
    BY <1>1
  <2>4. n \in Nat /\ 2 * n * w - 2 * (h * m) \in -w .. w
    <3>. PICK a \in Nat : a = h * m
      BY <2>3
    <3>1. a \div w \in Nat
      OBVIOUS
    <3>2. n \in a \div w .. a \div w + 1 /\ 2 * n * w - 2 * a \in -w .. w
      BY DEF Round
    <3>. QED  BY <3>1, <3>2
  <2>5. n <= h
    <3>1. m * h + h <= w * h
      BY <1>1, <1>4, LargerFactor
    <3>2. n * (2 * w) < (h + 1) * (2 * w)
      BY <1>1, <2>3, <2>4, <3>1
    <3>3. 2 * w \in Nat /\ 2 * w # 0
      OBVIOUS
    <3>4. n < h + 1
      BY <2>4, <3>2, <3>3, Cancel
    <3>. QED  BY <2>4, <3>4
  <2>6. /\ Larger(EvenDown(n), 2) \in 2 .. h /\ Larger(EvenDown(n), 2) % 2 = 0
    <3>1. n \in Nat
      BY <2>4
    <3>2. PICK e \in Nat : e = EvenDown(n) /\ e % 2 = 0 /\ e <= n
      BY <3>1, EvenDownFacts
    <3>. QED  BY <2>5, <3>1, <3>2 DEF Larger
  <2>7. Larger(EvenDown(n), 2) * w - h * m \in -(2 * w) .. 2 * w
    <3>. PICK a \in Nat : a = h * m
      BY <2>3
    <3>1. 2 * n * w - 2 * a \in -w .. w
      BY <2>4
    <3>2. CASE n \in {0, 1}
      <4>1. Larger(EvenDown(n), 2) = 2
        BY <3>2 DEF Larger, EvenDown
      <4>2. n = 0 \/ n = 1
        BY <3>2
      <4>. QED  BY <3>1, <4>1, <4>2
    <3>3. CASE n >= 2
      <4>. PICK e \in Nat : e = EvenDown(n) /\ e >= 2 /\ (n = e \/ n = e + 1)
        <5>1. n \in Nat
          BY <2>4
        <5>2. EvenDown(n) \in Nat /\ EvenDown(n) >= 2 /\ EvenDown(n) <= n /\ n <= EvenDown(n) + 1
          BY <3>3, <5>1, EvenDownFacts
        <5>. QED  BY <5>1, <5>2
      <4>1. Larger(EvenDown(n), 2) = e
        BY DEF Larger
      <4>2. e * w <= n * w /\ n * w <= e * w + w
        BY <2>4
      <4>3. n * w \in Nat /\ e * w \in Nat /\ 2 * n * w = 2 * (n * w)
        BY <2>4
      <4>. QED  BY <3>1, <4>1, <4>2, <4>3
    <3>. QED  BY <2>4, <3>2, <3>3
  <2>. QED  BY <1>1, <1>2, <1>4, <2>1, <2>2, <2>6, <2>7 DEF Within, m
<1>. QED  BY <1>1, <1>3, <1>4

(* The packed picture fits the encoder and the limit, keeps its shape, and   *)
(* takes every pixel of the source in, for sources of any size and any      *)
(* limit (resize.rs, packer.rs, the shader of gpu_convert.rs).              *)
THEOREM ScalingIsAlwaysSound == FramesSpec => []ScalingIsSound
<1>1. FramesInit => ScalingIsSound
  <2>. SUFFICES ASSUME FramesInit, job.what = "scale",
                       NEW d \in compute_effective_dims(job.w, job.h, job.cap)
                PROVE  LET packed == packed_dims(d[1], d[2])
                       IN  /\ packed[1] <= job.cap /\ packed[1] % 4 = 0 /\ packed[2] % 2 = 0
                           /\ d[1] \in 2 .. job.w /\ d[2] \in 2 .. job.h
                           /\ Within(d[2] * job.w, job.h * Lesser(job.w, job.cap \div 2), 2 * job.w)
                           /\ BoxCovers(job.w, d[1]) /\ BoxCovers(job.h, d[2])
                           /\ job.w <= 2 * d[1] => SamplerCovers(job.w, d[1])
                           /\ job.h <= 2 * d[2] => SamplerCovers(job.h, d[2])
    BY DEF ScalingIsSound
  <2>1. /\ job.w \in Nat /\ job.h \in Nat /\ job.cap \in Nat
        /\ job.w >= 2 /\ job.h >= 2 /\ job.cap >= 4
    <3>1. job \in [what : {"scale"}, w : 2 .. MaxSide, h : 2 .. MaxSide, cap : 4 .. MaxCap]
      BY DEF FramesInit
    <3>. QED  BY <3>1, FramesAssumption
  <2>2. /\ d[1] \in 2 .. job.w /\ d[2] \in 2 .. job.h
        /\ 2 * d[1] <= job.cap /\ (2 * d[1]) % 4 = 0 /\ d[2] % 2 = 0
        /\ Within(d[2] * job.w, job.h * Lesser(job.w, job.cap \div 2), 2 * job.w)
    BY <2>1, DimsFacts
  <2>3. packed_dims(d[1], d[2])[1] = 2 * d[1] /\ packed_dims(d[1], d[2])[2] = d[2]
    BY <2>1, <2>2 DEF packed_dims
  <2>4. BoxCovers(job.w, d[1]) /\ BoxCovers(job.h, d[2])
    BY <2>1, <2>2, BoxAverages
  <2>5. /\ job.w <= 2 * d[1] => SamplerCovers(job.w, d[1])
        /\ job.h <= 2 * d[2] => SamplerCovers(job.h, d[2])
    BY <2>1, <2>2, SamplerTouches
  <2>. QED  BY <2>2, <2>3, <2>4, <2>5
<1>2. ScalingIsSound /\ [FALSE]_job => ScalingIsSound'
  BY DEF ScalingIsSound
<1>. QED  BY <1>1, <1>2, PTL DEF FramesSpec

----------------------------------------------------------------------------
(* Pictures.                                                                *)

Quads == (0 .. 255) \X (0 .. 255) \X (0 .. 255) \X (0 .. 255)

LEMMA QuadFacts ==
  ASSUME NEW px \in Quads
  PROVE  /\ px[1] \in 0 .. 255 /\ px[2] \in 0 .. 255 /\ px[3] \in 0 .. 255 /\ px[4] \in 0 .. 255
         /\ px = <<px[1], px[2], px[3], px[4]>>
  BY DEF Quads

LEMMA SourcesAreRead ==
  ASSUME NEW px \in Quads, NEW source \in Sources
  PROVE  /\ OnCpu(px, source, TRUE) = px
         /\ source.kind = "spout" => OnGpu(px, source) = px
<1>1. Swap(Swap(px)) = px
  BY QuadFacts DEF Swap
<1>2. CASE source = [kind |-> "window", format |-> 28]
  BY <1>2 DEF OnCpu, Stored, BGRA
<1>3. CASE source = Display
  BY <1>1, <1>3 DEF OnCpu, Stored, BGRA, DdaGrab, Display
<1>4. CASE source \in [kind : {"spout"}, format : BGRA \cup RGBA]
  <2>1. source.kind = "spout"
    BY <1>4
  <2>2. source.format \in {87, 90, 91} \/ source.format \in {28, 27, 29}
    BY <1>4 DEF BGRA, RGBA
  <2>3. CASE source.format \in {87, 90, 91}
    <3>1. Stored(px, source.format) = Swap(px)
      BY <2>3 DEF Stored, BGRA
    <3>2. staging_safe_format(source.format) \in {87, 91}
      BY <2>3 DEF staging_safe_format
    <3>. QED  BY <1>1, <2>1, <3>1, <3>2 DEF OnCpu, OnGpu, SpoutGrab, Sampler, snapshot_formats, BGRA
  <2>4. CASE source.format \in {28, 27, 29}
    <3>1. Stored(px, source.format) = px
      BY <2>4 DEF Stored, BGRA
    <3>2. staging_safe_format(source.format) \in {28, 29}
      BY <2>4 DEF staging_safe_format
    <3>. QED  BY <2>1, <3>1, <3>2 DEF OnCpu, OnGpu, SpoutGrab, Sampler, snapshot_formats, BGRA, RGBA
  <2>. QED  BY <2>2, <2>3, <2>4
<1>. QED  BY <1>2, <1>3, <1>4 DEF Sources

(* The alpha that leaves the chroma key step.                               *)
Passed(px, key) == IF key = NoKey THEN px[4] ELSE KeyedAlpha(px, key)

LEMMA KeyIsApplied ==
  ASSUME NEW px \in Quads, NEW key \in Keys
  PROVE  /\ apply_chroma_key(px, key) = <<px[1], px[2], px[3], Passed(px, key)>>
         /\ Passed(px, key) \in 0 .. 255
<1>1. /\ px[1] \in 0 .. 255 /\ px[2] \in 0 .. 255 /\ px[3] \in 0 .. 255 /\ px[4] \in 0 .. 255
      /\ px = <<px[1], px[2], px[3], px[4]>>
  BY QuadFacts
<1>2. CASE key = NoKey
  BY <1>1, <1>2 DEF apply_chroma_key, Passed
<1>3. CASE key # NoKey
  <2>1. \/ key = [colour |-> <<0, 255, 0>>, threshold |-> 60, softness |-> 30]
        \/ key = [colour |-> <<0, 255, 0>>, threshold |-> 0, softness |-> 0]
    BY <1>3 DEF Keys
  <2>. DEFINE dist == Distance(px, key)
  <2>2. dist \in Nat
    <3>1. key.colour = <<0, 255, 0>>
      BY <2>1
    <3>. QED  BY <1>1, <3>1 DEF Distance, Larger
  <2>3. /\ KeyedAlpha(px, key) = NewAlpha(dist, key.threshold, Larger(key.softness, 1))
        /\ KeyedAlpha(px, key) \in 0 .. 255
    <3>. HIDE DEF dist
    <3>1. CASE key = [colour |-> <<0, 255, 0>>, threshold |-> 60, softness |-> 30]
      <4>1. key.threshold = 60 /\ key.softness = 30 /\ Larger(key.softness, 1) = 30
        BY <3>1 DEF Larger
      <4>. QED  BY <2>2, <4>1 DEF KeyedAlpha, NewAlpha, dist
    <3>2. CASE key = [colour |-> <<0, 255, 0>>, threshold |-> 0, softness |-> 0]
      <4>1. key.threshold = 0 /\ key.softness = 0 /\ Larger(key.softness, 1) = 1
        BY <3>2 DEF Larger
      <4>. QED  BY <2>2, <4>1 DEF KeyedAlpha, NewAlpha, dist
    <3>. QED  BY <2>1, <3>1, <3>2
  <2>4. Passed(px, key) = KeyedAlpha(px, key)
    BY <1>3 DEF Passed
  <2>5. [px EXCEPT ![4] = KeyedAlpha(px, key)] = <<px[1], px[2], px[3], KeyedAlpha(px, key)>>
    BY <1>1
  <2>. QED  BY <1>3, <2>3, <2>4, <2>5 DEF apply_chroma_key
<1>. QED  BY <1>2, <1>3

LEMMA KeyedQuads ==
  ASSUME NEW px \in Quads, NEW key \in Keys
  PROVE  apply_chroma_key(px, key) \in Quads
<1>1. px[1] \in 0 .. 255 /\ px[2] \in 0 .. 255 /\ px[3] \in 0 .. 255
  BY QuadFacts
<1>2. Passed(px, key) \in 0 .. 255
  BY KeyIsApplied
<1>3. apply_chroma_key(px, key) = <<px[1], px[2], px[3], Passed(px, key)>>
  BY KeyIsApplied
<1>4. PICK r \in 0 .. 255 : r = px[1]
  BY <1>1
<1>5. PICK g \in 0 .. 255 : g = px[2]
  BY <1>1
<1>6. PICK b \in 0 .. 255 : b = px[3]
  BY <1>1
<1>7. PICK a \in 0 .. 255 : a = Passed(px, key)
  BY <1>2
<1>8. <<r, g, b, a>> \in Quads
  BY DEF Quads
<1>9. apply_chroma_key(px, key) = <<r, g, b, a>>
  BY <1>3, <1>4, <1>5, <1>6, <1>7
<1>. QED  BY <1>8, <1>9

LEMMA Thousandths ==
  ASSUME NEW t \in Int
  PROVE  /\ t \div 1000 \in Int
         /\ 1000 * (t \div 1000) <= t /\ t < 1000 * (t \div 1000) + 1000
<1>1. 1000 \in Nat /\ 1000 # 0
  OBVIOUS
<1>. QED  BY <1>1, DivisionFacts

LEMMA Channel ==
  ASSUME NEW t \in Int, NEW n \in 0 .. 255, -4000 <= t - 1000 * n, t - 1000 * n < 5000
  PROVE  Within(Clamped(t \div 1000), n, 4)
<1>. PICK q \in Int : q = t \div 1000 /\ 1000 * q <= t /\ t < 1000 * q + 1000
  BY Thousandths
<1>1. q - n \in -4 .. 4
  OBVIOUS
<1>. QED  BY <1>1 DEF Within, Clamped, Larger, Lesser

(* The n that a picture stores instead of a thousandths.                    *)
Near(n, a) == 1000 * n - a \in -1000 .. 500

LEMMA NearFacts ==
  ASSUME NEW n \in Int, NEW a \in Int, Near(n, a)
  PROVE  1000 * n >= a - 1000 /\ 1000 * n <= a + 500
  BY DEF Near

LEMMA Floors ==
  ASSUME NEW a \in Nat, NEW n \in Floor(a, 1000)
  PROVE  n \in Int /\ Near(n, a)
<1>1. n \in {a \div 1000} \/ (a % 1000 = 0 /\ n = a \div 1000 - 1)
  BY DEF Floor
<1>2. a % 1000 = 0 => a = 1000 * (a \div 1000)
  OBVIOUS
<1>. PICK q \in Int : q = a \div 1000 /\ 1000 * q <= a /\ a < 1000 * q + 1000
  BY Thousandths
<1>. QED  BY <1>1, <1>2 DEF Near

LEMMA FloorsOfTwo ==
  ASSUME NEW a \in Nat, NEW n \in Floor(a + a, 2000)
  PROVE  n \in Int /\ Near(n, a)
<1>. PICK s \in Nat : s = a + a
  OBVIOUS
<1>. PICK q \in Int : q = s \div 2000 /\ 2000 * q <= s /\ s < 2000 * q + 2000
  OBVIOUS
<1>1. n = q \/ (s % 2000 = 0 /\ n = q - 1)
  BY DEF Floor
<1>2. s % 2000 = 0 => s = 2000 * q
  OBVIOUS
<1>. QED  BY <1>1, <1>2 DEF Near

LEMMA Rounds ==
  ASSUME NEW a \in Nat, NEW n \in Round(a, 1000)
  PROVE  n \in Int /\ Near(n, a)
<1>1. a \div 1000 \in Int
  OBVIOUS
<1>2. n \in Int /\ 2 * n * 1000 - 2 * a \in -1000 .. 1000
  BY <1>1 DEF Round
<1>. QED  BY <1>2 DEF Near

LEMMA RoundsOfTwo ==
  ASSUME NEW a \in Nat, NEW n \in Round(a + a, 2000)
  PROVE  n \in Int /\ Near(n, a)
<1>. PICK s \in Nat : s = a + a
  OBVIOUS
<1>1. s \div 2000 \in Int
  OBVIOUS
<1>2. n \in Int /\ 2 * n * 2000 - 2 * s \in -2000 .. 2000
  BY <1>1 DEF Round
<1>. QED  BY <1>2 DEF Near

LEMMA Planes ==
  ASSUME NEW c, c[1] \in 0 .. 255, c[2] \in 0 .. 255, c[3] \in 0 .. 255
  PROVE  Luma(c) \in Nat /\ Blue(c) \in Nat /\ Red(c) \in Nat
<1>1. PICK r \in 0 .. 255 : r = c[1]
  OBVIOUS
<1>2. PICK g \in 0 .. 255 : g = c[2]
  OBVIOUS
<1>3. PICK b \in 0 .. 255 : b = c[3]
  OBVIOUS
<1>4. PICK l \in Int : l = 257 * r + 504 * g + 98 * b + 16000
  OBVIOUS
<1>5. PICK m \in Int : m = 439 * b - 148 * r - 291 * g + 128000
  OBVIOUS
<1>6. PICK n \in Int : n = 439 * r - 368 * g - 71 * b + 128000
  OBVIOUS
<1>7. l >= 0
  BY <1>4
<1>8. m >= 0
  BY <1>5
<1>9. n >= 0
  BY <1>6
<1>10. Luma(c) = l
  BY <1>1, <1>2, <1>3, <1>4 DEF Luma
<1>11. Blue(c) = m
  BY <1>1, <1>2, <1>3, <1>5 DEF Blue
<1>12. Red(c) = n
  BY <1>1, <1>2, <1>3, <1>6 DEF Red
<1>. QED  BY <1>7, <1>8, <1>9, <1>10, <1>11, <1>12

LEMMA ColoursComeBack ==
  ASSUME NEW c, c[1] \in 0 .. 255, c[2] \in 0 .. 255, c[3] \in 0 .. 255,
         NEW p, p.y \in Int, p.u \in Int, p.v \in Int,
         Near(p.y, Luma(c)), Near(p.u, Blue(c)), Near(p.v, Red(c))
  PROVE  \A i \in 1 .. 3 : Within(Decoded(p)[i], c[i], 4)
<1>1. PICK r \in 0 .. 255 : r = c[1]
  OBVIOUS
<1>2. PICK g \in 0 .. 255 : g = c[2]
  OBVIOUS
<1>3. PICK b \in 0 .. 255 : b = c[3]
  OBVIOUS
<1>4. PICK y \in Int : y = p.y
  OBVIOUS
<1>5. PICK u \in Int : u = p.u
  OBVIOUS
<1>6. PICK v \in Int : v = p.v
  OBVIOUS
<1>7. /\ Luma(c) = 257 * r + 504 * g + 98 * b + 16000
      /\ Blue(c) = 439 * b - 148 * r - 291 * g + 128000
      /\ Red(c) = 439 * r - 368 * g - 71 * b + 128000
  BY <1>1, <1>2, <1>3 DEF Luma, Blue, Red
<1>8. PICK yy \in Int : yy = 1000 * y - (257 * r + 504 * g + 98 * b + 16000)
  OBVIOUS
<1>9. PICK uu \in Int : uu = 1000 * u - (439 * b - 148 * r - 291 * g + 128000)
  OBVIOUS
<1>10. PICK vv \in Int : vv = 1000 * v - (439 * r - 368 * g - 71 * b + 128000)
  OBVIOUS
<1>11. yy \in -1000 .. 500 /\ uu \in -1000 .. 500 /\ vv \in -1000 .. 500
  <2>1. PICK l \in Int : l = 257 * r + 504 * g + 98 * b + 16000
    OBVIOUS
  <2>2. PICK m \in Int : m = 439 * b - 148 * r - 291 * g + 128000
    OBVIOUS
  <2>3. PICK n \in Int : n = 439 * r - 368 * g - 71 * b + 128000
    OBVIOUS
  <2>4. Near(y, l) /\ Near(u, m) /\ Near(v, n)
    BY <1>4, <1>5, <1>6, <1>7, <2>1, <2>2, <2>3
  <2>5. yy = 1000 * y - l /\ uu = 1000 * u - m /\ vv = 1000 * v - n
    BY <1>8, <1>9, <1>10, <2>1, <2>2, <2>3
  <2>6. /\ 1000 * y >= l - 1000 /\ 1000 * y <= l + 500
        /\ 1000 * u >= m - 1000 /\ 1000 * u <= m + 500
        /\ 1000 * v >= n - 1000 /\ 1000 * v <= n + 500
    BY <2>4, NearFacts
  <2>. QED  BY <2>5, <2>6
<1>12. Within(Decoded(p)[1], r, 4)
  <2>1. PICK t \in Int : t = 1164 * (y - 16) + 1596 * (v - 128)
    OBVIOUS
  <2>2. 1000 * t - 1000000 * r = 1164 * yy + 1596 * vv - 208 * r - 672 * g + 756 * b
    BY <1>8, <1>9, <1>10, <2>1
  <2>3. /\ -4000000 <= 1164 * yy + 1596 * vv - 208 * r - 672 * g + 756 * b
        /\ 1164 * yy + 1596 * vv - 208 * r - 672 * g + 756 * b < 5000000
    BY <1>11
  <2>4. PICK e \in Int : e = 1164 * yy + 1596 * vv - 208 * r - 672 * g + 756 * b
    OBVIOUS
  <2>5. 1000 * t - 1000000 * r = e
    BY <2>2, <2>4
  <2>6. -4000000 <= e /\ e < 5000000
    BY <2>3, <2>4
  <2>7. -4000 <= t - 1000 * r /\ t - 1000 * r < 5000
    BY <2>5, <2>6
  <2>8. Within(Clamped(t \div 1000), r, 4)
    BY <2>7, Channel
  <2>9. Decoded(p)[1] = Clamped(t \div 1000)
    BY <1>4, <1>5, <1>6, <2>1 DEF Decoded
  <2>. QED  BY <2>8, <2>9
<1>13. Within(Decoded(p)[2], g, 4)
  <2>1. PICK t \in Int : t = 1164 * (y - 16) - 392 * (u - 128) - 813 * (v - 128)
    OBVIOUS
  <2>2. 1000 * t - 1000000 * g = 1164 * yy - 392 * uu - 813 * vv + 257 * r - 88 * g - 293 * b
    BY <1>8, <1>9, <1>10, <2>1
  <2>3. /\ -4000000 <= 1164 * yy - 392 * uu - 813 * vv + 257 * r - 88 * g - 293 * b
        /\ 1164 * yy - 392 * uu - 813 * vv + 257 * r - 88 * g - 293 * b < 5000000
    BY <1>11
  <2>4. PICK e \in Int : e = 1164 * yy - 392 * uu - 813 * vv + 257 * r - 88 * g - 293 * b
    OBVIOUS
  <2>5. 1000 * t - 1000000 * g = e
    BY <2>2, <2>4
  <2>6. -4000000 <= e /\ e < 5000000
    BY <2>3, <2>4
  <2>7. -4000 <= t - 1000 * g /\ t - 1000 * g < 5000
    BY <2>5, <2>6
  <2>8. Within(Clamped(t \div 1000), g, 4)
    BY <2>7, Channel
  <2>9. Decoded(p)[2] = Clamped(t \div 1000)
    BY <1>4, <1>5, <1>6, <2>1 DEF Decoded
  <2>. QED  BY <2>8, <2>9
<1>14. Within(Decoded(p)[3], b, 4)
  <2>1. PICK t \in Int : t = 1164 * (y - 16) + 2017 * (u - 128)
    OBVIOUS
  <2>2. 1000 * t - 1000000 * b = 1164 * yy + 2017 * uu + 632 * r - 291 * g - 465 * b
    BY <1>8, <1>9, <1>10, <2>1
  <2>3. /\ -4000000 <= 1164 * yy + 2017 * uu + 632 * r - 291 * g - 465 * b
        /\ 1164 * yy + 2017 * uu + 632 * r - 291 * g - 465 * b < 5000000
    BY <1>11
  <2>4. PICK e \in Int : e = 1164 * yy + 2017 * uu + 632 * r - 291 * g - 465 * b
    OBVIOUS
  <2>5. 1000 * t - 1000000 * b = e
    BY <2>2, <2>4
  <2>6. -4000000 <= e /\ e < 5000000
    BY <2>3, <2>4
  <2>7. -4000 <= t - 1000 * b /\ t - 1000 * b < 5000
    BY <2>5, <2>6
  <2>8. Within(Clamped(t \div 1000), b, 4)
    BY <2>7, Channel
  <2>9. Decoded(p)[3] = Clamped(t \div 1000)
    BY <1>4, <1>5, <1>6, <2>1 DEF Decoded
  <2>. QED  BY <2>8, <2>9
<1>. QED  BY <1>1, <1>2, <1>3, <1>12, <1>13, <1>14

(* The chroma and the luma of the right half, and what becomes of an alpha. *)
Neutral == {127, 128}
Kept(n, a) == Within(n, a, 3) /\ (a = 0 => n = 0)
AlphaLuma(a) == 859 * a + 16000

LEMMA AlphaComesBack ==
  ASSUME NEW a \in 0 .. 255, NEW p, p.y \in Int, p.v \in Neutral, Near(p.y, AlphaLuma(a))
  PROVE  Kept(Decoded(p)[1], a)
<1>1. PICK y \in Int : y = p.y
  OBVIOUS
<1>2. PICK v \in {127, 128} : v = p.v
  BY DEF Neutral
<1>3. 1000 * y >= 859 * a + 15000 /\ 1000 * y <= 859 * a + 16500
  <2>1. PICK m \in Int : m = 859 * a + 16000
    OBVIOUS
  <2>2. Near(y, m)
    BY <1>1, <2>1 DEF AlphaLuma
  <2>3. 1000 * y >= m - 1000 /\ 1000 * y <= m + 500
    BY <2>2, NearFacts
  <2>. QED  BY <2>1, <2>3
<1>4. PICK t \in Int : t = 1164 * (y - 16) + 1596 * (v - 128)
  OBVIOUS
<1>5. /\ -3000 <= t - 1000 * a /\ t - 1000 * a < 3000
      /\ a = 0 => t < 1000
  BY <1>3, <1>4
<1>6. PICK q \in Int : q = t \div 1000 /\ 1000 * q <= t /\ t < 1000 * q + 1000
  BY Thousandths
<1>7. q - a \in -3 .. 3 /\ (a = 0 => q <= 0)
  BY <1>5, <1>6
<1>8. Decoded(p)[1] = Clamped(q)
  BY <1>1, <1>2, <1>4, <1>6 DEF Decoded
<1>. QED  BY <1>7, <1>8 DEF Kept, Within, Clamped, Larger, Lesser

Grey(a) == <<a, a, a>>
GreyLuma(a) == Floor(Luma(Grey(a)), 1000)

(* A row of two pixels and the row twice as wide that is packed from it.    *)
LEMMA PackedRow ==
  ASSUME NEW row \in [0 .. 1 -> Quads]
  PROVE  LET packed == pack_rgba_side_by_side(row)
         IN  /\ \A x \in 0 .. 1 : packed[x] = <<row[x][1], row[x][2], row[x][3]>>
             /\ \A x \in 0 .. 1 : packed[x + 2] = Grey(row[x][4])
             /\ Cardinality(DOMAIN row) = 2
<1>1. DOMAIN row = {0, 1}
  OBVIOUS
<1>2. Cardinality({0, 1}) = 2
  <2>1. Cardinality({0}) = 1 /\ IsFiniteSet({0})
    BY FS_Singleton
  <2>2. {0, 1} = {0} \cup {1} /\ 1 \notin {0}
    OBVIOUS
  <2>. QED  BY <2>1, <2>2, FS_AddElement
<1>3. pack_rgba_side_by_side(row)
        = [x \in 0 .. 3 |->
             IF x < 2 THEN <<row[x][1], row[x][2], row[x][3]>>
             ELSE <<row[x - 2][4], row[x - 2][4], row[x - 2][4]>>]
  BY <1>1, <1>2 DEF pack_rgba_side_by_side
<1>. QED  BY <1>1, <1>2, <1>3 DEF Grey

(* The chroma of a grey pixel is neutral.                                   *)
LEMMA GreyFacts ==
  ASSUME NEW a \in 0 .. 255
  PROVE  /\ Luma(Grey(a)) = AlphaLuma(a) /\ AlphaLuma(a) \in Nat
         /\ Red(Grey(a)) = 128000
<1>1. Luma(Grey(a)) = AlphaLuma(a)
  BY DEF Luma, Grey, AlphaLuma
<1>2. Red(Grey(a)) = 128000
  BY DEF Red, Grey
<1>3. AlphaLuma(a) \in Nat
  BY DEF AlphaLuma
<1>. QED  BY <1>1, <1>2, <1>3

LEMMA NeutralFloor == Floor(128000 + 128000, 2000) \subseteq Neutral
<1>1. 256000 \div 2000 = 128
  OBVIOUS
<1>. QED  BY <1>1 DEF Floor, Neutral

LEMMA AlphaSurvives ==
  ASSUME NEW a \in 0 .. 255, NEW p, p.v \in Neutral,
         p.y \in Floor(AlphaLuma(a), 1000) \/ p.y \in Round(AlphaLuma(a), 1000)
  PROVE  Kept(Decoded(p)[1], a)
<1>1. AlphaLuma(a) \in Nat
  BY GreyFacts
<1>2. p.y \in Int /\ Near(p.y, AlphaLuma(a))
  BY <1>1, Floors, Rounds
<1>. QED  BY <1>2, AlphaComesBack

LEMMA GreySurvives ==
  ASSUME NEW a \in 0 .. 255, NEW p, p.y \in GreyLuma(a), p.v \in Neutral
  PROVE  Kept(Decoded(p)[1], a)
<1>1. Luma(Grey(a)) = AlphaLuma(a)
  BY GreyFacts
<1>2. p.y \in Floor(AlphaLuma(a), 1000)
  BY <1>1 DEF GreyLuma
<1>. QED  BY <1>2, AlphaSurvives

LEMMA CpuPixel ==
  ASSUME NEW row \in [0 .. 1 -> Quads], NEW x \in 0 .. 1,
         NEW l \in rgba_to_nv12(pack_rgba_side_by_side(row), x),
         NEW r \in rgba_to_nv12(pack_rgba_side_by_side(row), x + 2)
  PROVE  /\ Kept(Decoded(r)[1], row[x][4])
         /\ row[0] = row[1] => \A i \in 1 .. 3 : Within(Decoded(l)[i], row[x][i], 4)
<1>1. PICK packed : packed = pack_rgba_side_by_side(row)
  OBVIOUS
<1>2. /\ packed[0] = <<row[0][1], row[0][2], row[0][3]>> /\ packed[1] = <<row[1][1], row[1][2], row[1][3]>>
      /\ packed[0 + 2] = Grey(row[0][4])
      /\ packed[1 + 2] = Grey(row[1][4])
  BY <1>1, PackedRow
<1>3. row[0] \in Quads /\ row[1] \in Quads /\ row[x] \in Quads
  OBVIOUS
<1>4. 2 * (x \div 2) = 0 /\ 2 * ((x + 2) \div 2) = 2
  BY x = 0 \/ x = 1
<1>5. /\ l.y \in Floor(Luma(packed[x]), 1000)
      /\ l.u \in Floor(Blue(packed[0]) + Blue(packed[0 + 1]), 2000)
      /\ l.v \in Floor(Red(packed[0]) + Red(packed[0 + 1]), 2000)
  BY <1>1, <1>4 DEF rgba_to_nv12
<1>6. /\ r.y \in Floor(Luma(packed[x + 2]), 1000)
      /\ r.v \in Floor(Red(packed[2]) + Red(packed[2 + 1]), 2000)
  BY <1>1, <1>4 DEF rgba_to_nv12
<1>7. Kept(Decoded(r)[1], row[x][4])
  <2>1. PICK a \in 0 .. 255 : a = row[x][4]
    BY <1>3, QuadFacts
  <2>2. PICK a0 \in 0 .. 255 : a0 = row[0][4]
    BY <1>3, QuadFacts
  <2>3. PICK a1 \in 0 .. 255 : a1 = row[1][4]
    BY <1>3, QuadFacts
  <2>4. packed[2] = Grey(a0) /\ packed[2 + 1] = Grey(a1) /\ packed[x + 2] = Grey(a)
    BY <1>2, <2>1, <2>2, <2>3
  <2>5. Red(Grey(a0)) = 128000 /\ Red(Grey(a1)) = 128000
    BY GreyFacts
  <2>6. r.v \in Neutral
    BY <1>6, <2>4, <2>5, NeutralFloor
  <2>7. r.y \in GreyLuma(a)
    BY <1>6, <2>4 DEF GreyLuma
  <2>8. Kept(Decoded(r)[1], a)
    BY <2>6, <2>7, GreySurvives, Zenon
  <2>. QED  BY <2>1, <2>8
<1>8. ASSUME row[0] = row[1]
      PROVE  \A i \in 1 .. 3 : Within(Decoded(l)[i], row[x][i], 4)
  <2>1. PICK c : c = packed[x]
    OBVIOUS
  <2>2. c = packed[0] /\ c = packed[0 + 1]
    BY <1>2, <1>8, <2>1
  <2>3. c[1] = row[x][1] /\ c[2] = row[x][2] /\ c[3] = row[x][3]
    BY <1>2, <1>8, <2>2
  <2>4. c[1] \in 0 .. 255 /\ c[2] \in 0 .. 255 /\ c[3] \in 0 .. 255
    BY <1>3, <2>3, QuadFacts
  <2>5. Luma(c) \in Nat /\ Blue(c) \in Nat /\ Red(c) \in Nat
    BY <2>4, Planes
  <2>6. /\ l.y \in Floor(Luma(c), 1000) /\ l.u \in Floor(Blue(c) + Blue(c), 2000)
        /\ l.v \in Floor(Red(c) + Red(c), 2000)
    BY <1>5, <2>1, <2>2
  <2>7. l.y \in Int /\ Near(l.y, Luma(c))
    BY <2>5, <2>6, Floors
  <2>8. l.u \in Int /\ Near(l.u, Blue(c))
    BY <2>5, <2>6, FloorsOfTwo
  <2>9. l.v \in Int /\ Near(l.v, Red(c))
    BY <2>5, <2>6, FloorsOfTwo
  <2>10. \A i \in 1 .. 3 : Within(Decoded(l)[i], c[i], 4)
    BY <2>4, <2>7, <2>8, <2>9, ColoursComeBack, Zenon
  <2>. QED  BY <2>3, <2>10
<1>. QED  BY <1>7, <1>8

LEMMA GpuPixel ==
  ASSUME NEW row \in [0 .. 1 -> Quads], NEW x \in 0 .. 1,
         NEW l \in Nv12Converter(row, x), NEW r \in Nv12Converter(row, x + 2)
  PROVE  /\ Kept(Decoded(r)[1], row[x][4])
         /\ row[0] = row[1] => \A i \in 1 .. 3 : Within(Decoded(l)[i], row[x][i], 4)
<1>1. Cardinality(DOMAIN row) = 2
  BY PackedRow
<1>2. row[0] \in Quads /\ row[1] \in Quads /\ row[x] \in Quads
  OBVIOUS
<1>3. 2 * (x \div 2) = 0
  BY x = 0 \/ x = 1
<1>4. /\ l.y \in Round(Luma(row[x]), 1000)
      /\ l.u \in Round(Blue(row[0]) + Blue(row[0 + 1]), 2000)
      /\ l.v \in Round(Red(row[0]) + Red(row[0 + 1]), 2000)
  BY <1>1, <1>3 DEF Nv12Converter
<1>5. r.y \in Round(AlphaLuma(row[x][4]), 1000) /\ r.v = 128
  <2>1. ~ (x + 2 < 2) /\ x + 2 - 2 = x
    OBVIOUS
  <2>. QED  BY <1>1, <2>1 DEF Nv12Converter, AlphaLuma
<1>6. Kept(Decoded(r)[1], row[x][4])
  <2>1. PICK a \in 0 .. 255 : a = row[x][4]
    BY <1>2, QuadFacts
  <2>2. r.y \in Round(AlphaLuma(a), 1000)
    BY <1>5, <2>1
  <2>3. r.v \in Neutral
    BY <1>5 DEF Neutral
  <2>4. Kept(Decoded(r)[1], a)
    BY <2>2, <2>3, AlphaSurvives
  <2>. QED  BY <2>1, <2>4
<1>7. ASSUME row[0] = row[1]
      PROVE  \A i \in 1 .. 3 : Within(Decoded(l)[i], row[x][i], 4)
  <2>1. PICK c : c = row[x]
    OBVIOUS
  <2>2. c = row[0] /\ c = row[0 + 1]
    BY <1>7, <2>1
  <2>3. c[1] \in 0 .. 255 /\ c[2] \in 0 .. 255 /\ c[3] \in 0 .. 255
    BY <1>2, <2>1, QuadFacts
  <2>4. Luma(c) \in Nat /\ Blue(c) \in Nat /\ Red(c) \in Nat
    BY <2>3, Planes
  <2>5. /\ l.y \in Round(Luma(c), 1000) /\ l.u \in Round(Blue(c) + Blue(c), 2000)
        /\ l.v \in Round(Red(c) + Red(c), 2000)
    BY <1>4, <2>1, <2>2
  <2>6. l.y \in Int /\ Near(l.y, Luma(c))
    BY <2>4, <2>5, Rounds
  <2>7. l.u \in Int /\ Near(l.u, Blue(c))
    BY <2>4, <2>5, RoundsOfTwo
  <2>8. l.v \in Int /\ Near(l.v, Red(c))
    BY <2>4, <2>5, RoundsOfTwo
  <2>9. \A i \in 1 .. 3 : Within(Decoded(l)[i], c[i], 4)
    BY <2>3, <2>6, <2>7, <2>8, ColoursComeBack, Zenon
  <2>. QED  BY <2>1, <2>9
<1>. QED  BY <1>6, <1>7

(* The pixel the capture step hands on.                                     *)
Captured(i) == IF job.arrived THEN job.row[i] ELSE <<0, 0, 0, 255>>

LEMMA DisplaysTimeOut ==
  ASSUME FramesAssumption, FramesInit, job.what = "show"
  PROVE  /\ job.row \in [0 .. 1 -> Quads] /\ job.source \in Sources /\ job.key \in Keys
         /\ job.arrived = TRUE \/ (job.arrived = FALSE /\ job.source = Display)
<1>1. Pixels \subseteq Quads
  BY FramesAssumption DEF Pixels, Quads
<1>2. Display \in Sources
  BY DEF Sources
<1>. QED  BY <1>1, <1>2 DEF FramesInit

(* What a pixel has after the capture and the key, whoever it comes from.   *)
LEMMA CpuRowIs ==
  ASSUME FramesAssumption, FramesInit, job.what = "show", NEW i \in 0 .. 1
  PROVE  /\ Captured(i) \in Quads
         /\ CpuRow[i] = <<Captured(i)[1], Captured(i)[2], Captured(i)[3], Passed(Captured(i), job.key)>>
         /\ CpuRow[i] \in Quads
<1>1. job.row \in [0 .. 1 -> Quads] /\ job.source \in Sources /\ job.key \in Keys
  BY DisplaysTimeOut
<1>2. job.row[i] \in Quads
  BY <1>1
<1>3. Captured(i) \in Quads /\ OnCpu(job.row[i], job.source, job.arrived) = Captured(i)
  <2>1. CASE job.arrived = TRUE
    BY <1>1, <1>2, <2>1, SourcesAreRead DEF Captured
  <2>2. CASE job.arrived = FALSE /\ job.source = Display
    <3>1. <<0, 0, 0, 255>> \in Quads
      BY DEF Quads
    <3>2. OnCpu(job.row[i], job.source, FALSE) = <<0, 0, 0, 255>>
      BY <2>2 DEF OnCpu, DdaTimeout, Display
    <3>. QED  BY <2>2, <3>1, <3>2 DEF Captured
  <2>. QED  BY <2>1, <2>2, DisplaysTimeOut
<1>4. CpuRow[i] = apply_chroma_key(Captured(i), job.key)
  BY <1>1, <1>3 DEF CpuRow
<1>. QED  BY <1>1, <1>3, <1>4, KeyIsApplied, KeyedQuads

(* Where the code or the capture settles the alpha, what leaves the key is  *)
(* the alpha the pixel should have.                                         *)
LEMMA PassedIsIdeal ==
  ASSUME NEW px, NEW source, NEW key, AlphaIsPassedOn(px, source, key)
  PROVE  Passed(px, key) = Ideal(px, source, key)
  BY DEF AlphaIsPassedOn, Passed, Ideal

(* Every pixel, of any colour and alpha, reaches the page with its alpha    *)
(* and, in an even area, its colours, on both paths, from every source and  *)
(* with every key (dda.rs, packer.rs, mf_encoder.rs, gpu_convert.rs and the *)
(* page's shader): the alpha of the key, else of a source that has one.  Of *)
(* windows and displays without a key it says no more than that a byte of   *)
(* 255 stays solid, for the code does not make it so.                       *)
THEOREM PicturesSurvive == FramesSpec => []PictureSurvives
<1>1. FramesInit => PictureSurvives
  <2>. SUFFICES ASSUME FramesInit, job.what = "show", NEW x \in DOMAIN job.row
                PROVE  LET px == Captured(x)
                           AlphaIsKept(s, a) == Within(s[2], a, 3) /\ (a = 0 => s[2] = 0)
                           ColoursAreKept(s) ==
                             Captured(0) = Captured(1) => \A c \in 1 .. 3 : Within(s[1][c], px[c], 4)
                       IN  /\ \A s \in CpuShows(x) :
                                /\ AlphaIsPassedOn(px, job.source, job.key) =>
                                     AlphaIsKept(s, Ideal(px, job.source, job.key))
                                /\ ColoursAreKept(s)
                           /\ job.source.kind = "spout" =>
                                \A s \in GpuShows(x) : AlphaIsKept(s, px[4]) /\ ColoursAreKept(s)
    BY DEF PictureSurvives, Captured
  <2>1. /\ job.row \in [0 .. 1 -> Quads] /\ job.source \in Sources /\ job.key \in Keys
        /\ job.arrived = TRUE \/ (job.arrived = FALSE /\ job.source = Display)
    BY FramesAssumption, DisplaysTimeOut
  <2>2. x \in 0 .. 1 /\ DOMAIN job.row = 0 .. 1
    BY <2>1
  <2>3. Cardinality(DOMAIN job.row) = 2
    BY <2>1, PackedRow
  <2>4. \A i \in 0 .. 1 :
          /\ CpuRow[i] = <<Captured(i)[1], Captured(i)[2], Captured(i)[3], Passed(Captured(i), job.key)>>
          /\ CpuRow[i] \in Quads
    BY FramesAssumption, CpuRowIs
  <2>5. CpuRow \in [0 .. 1 -> Quads]
    <3>1. \A i \in 0 .. 1 : CpuRow[i] \in Quads
      BY <2>4
    <3>2. DOMAIN CpuRow = 0 .. 1 /\ CpuRow = [i \in 0 .. 1 |-> CpuRow[i]]
      BY <2>1 DEF CpuRow
    <3>. QED  BY <3>1, <3>2
  <2>6. ASSUME NEW s \in CpuShows(x)
        PROVE  /\ Kept(s[2], Passed(Captured(x), job.key))
               /\ Captured(0) = Captured(1) =>
                    \A c \in 1 .. 3 : Within(s[1][c], Captured(x)[c], 4)
    <3>1. PICK l \in rgba_to_nv12(pack_rgba_side_by_side(CpuRow), x),
               r \in rgba_to_nv12(pack_rgba_side_by_side(CpuRow), x + 2) : s = <<Decoded(l), Decoded(r)[1]>>
      BY <2>3, <2>6 DEF CpuShows, Shown
    <3>2. /\ Kept(Decoded(r)[1], CpuRow[x][4])
          /\ CpuRow[0] = CpuRow[1] => \A i \in 1 .. 3 : Within(Decoded(l)[i], CpuRow[x][i], 4)
      BY <2>2, <2>5, <3>1, CpuPixel
    <3>3. CpuRow[x][4] = Passed(Captured(x), job.key)
      BY <2>2, <2>4
    <3>4. \A i \in 1 .. 3 : CpuRow[x][i] = Captured(x)[i]
      BY <2>2, <2>4
    <3>5. Captured(0) = Captured(1) => CpuRow[0] = CpuRow[1]
      BY <2>4
    <3>6. s[1] = Decoded(l) /\ s[2] = Decoded(r)[1]
      BY <3>1
    <3>. QED  BY <3>2, <3>3, <3>4, <3>5, <3>6
  <2>7. ASSUME job.source.kind = "spout", NEW s \in GpuShows(x)
        PROVE  /\ Kept(s[2], Captured(x)[4])
               /\ Captured(0) = Captured(1) =>
                    \A c \in 1 .. 3 : Within(s[1][c], Captured(x)[c], 4)
    <3>1. \A i \in 0 .. 1 : OnGpu(job.row[i], job.source) = job.row[i]
      BY <2>1, <2>7, SourcesAreRead
    <3>2. [i \in DOMAIN job.row |-> OnGpu(job.row[i], job.source)] = job.row
      BY <2>1, <3>1
    <3>3. PICK l \in Nv12Converter(job.row, x), r \in Nv12Converter(job.row, x + 2) :
            s = <<Decoded(l), Decoded(r)[1]>>
      BY <2>3, <2>7, <3>2 DEF GpuShows, Shown
    <3>4. /\ Kept(Decoded(r)[1], job.row[x][4])
          /\ job.row[0] = job.row[1] => \A i \in 1 .. 3 : Within(Decoded(l)[i], job.row[x][i], 4)
      BY <2>1, <2>2, <3>3, GpuPixel
    <3>5. s[1] = Decoded(l) /\ s[2] = Decoded(r)[1]
      BY <3>3
    <3>6. \A i \in 0 .. 1 : Captured(i) = job.row[i]
      BY <2>1, <2>7 DEF Captured, Display
    <3>. QED  BY <2>2, <3>4, <3>5, <3>6
  <2>8. AlphaIsPassedOn(Captured(x), job.source, job.key) =>
          Passed(Captured(x), job.key) = Ideal(Captured(x), job.source, job.key)
    BY PassedIsIdeal
  <2>. QED  BY <2>6, <2>7, <2>8 DEF Kept
<1>2. PictureSurvives /\ [FALSE]_job => PictureSurvives'
  BY DEF PictureSurvives, CpuShows, GpuShows, CpuRow
<1>. QED  BY <1>1, <1>2, PTL DEF FramesSpec
=============================================================================
