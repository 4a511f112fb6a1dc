------------------------- MODULE AccessUnitsProofs --------------------------
(***************************************************************************)
(* The parser of crates/sender/src/encoder.rs finds the pictures that the  *)
(* encoder wrote again, for every picture, preamble and number of pictures *)
(* that AuAssumption admits and however the stream is cut into reads.      *)
(*                                                                         *)
(* The functions scan and cuts that find_aud and Cuts define recursively   *)
(* are unfolded here: one that satisfies the equation exists, and whatever *)
(* satisfies it has the values stated, by the least offset from the end of *)
(* the buffer for which it would not.                                      *)
(***************************************************************************)
EXTENDS AccessUnits, FiniteSetTheorems, SequenceTheorems, WellFoundedInduction, TLAPS

(* A set of natural numbers that is not empty has a least element.          *)
LEMMA Least ==
  ASSUME NEW T \in SUBSET Nat, T # {}
  PROVE  \E m \in T : \A k \in T : m <= k
<1>. DEFINE R == OpToRel(<, Nat)
<1>1. IsWellFoundedOn(R, Nat)
  BY NatLessThanWellFounded
<1>2. \A x, y \in Nat : <<y, x>> \in R <=> y < x
  BY DEF OpToRel
<1>. HIDE DEF R
<1>3. PICK m \in T : \A k \in T : <<k, m>> \notin R
  BY <1>1, WFMin
<1>4. \A k \in T : ~ (k < m)
  BY <1>2, <1>3
<1>. QED  BY <1>3, <1>4

----------------------------------------------------------------------------
(* find_aud's criterion for an offset: a start code, the byte of a          *)
(* delimiter behind it, and one more byte in the buffer.                    *)
AudAt(b, i) ==
  /\ i + 4 < Len(b)
  /\ StartCode(b, i) # 0
  /\ IsAud(b[i + StartCode(b, i) + 1])

(* What a search from an offset must return.                                *)
IsNextAud(b, from, r) ==
  \/ /\ r \in Nat /\ from <= r /\ AudAt(b, r)
     /\ \A j \in Nat : from <= j /\ j < r => ~AudAt(b, j)
  \/ /\ r = NoAud
     /\ \A j \in Nat : from <= j => ~AudAt(b, j)

(* The right side of find_aud's recursive definition.                       *)
Scanned(f, b, i) ==
  IF i + 4 >= Len(b) THEN NoAud
  ELSE IF StartCode(b, i) = 0 THEN f[i + 1]
  ELSE IF IsAud(b[i + StartCode(b, i) + 1]) THEN i
  ELSE f[i + StartCode(b, i)]

(* The three or four bytes of another start code that the search skips      *)
(* begin no delimiter.                                                      *)
LEMMA NothingSkipped ==
  ASSUME NEW b \in Seq(Byte), NEW i \in Nat, i + 4 < Len(b), ~AudAt(b, i),
         NEW n, n = IF StartCode(b, i) = 0 THEN 1 ELSE StartCode(b, i)
  PROVE  n \in {1, 3, 4} /\ \A j \in Nat : i <= j /\ j < i + n => ~AudAt(b, j)
<1>1. n \in {1, 3, 4}
  BY DEF StartCode
<1>2. ~AudAt(b, i + 1) \/ n = 1
  BY DEF StartCode, AudAt
<1>3. ~AudAt(b, i + 2) \/ n = 1
  BY DEF StartCode, AudAt
<1>4. ~AudAt(b, i + 3) \/ n # 4
  BY DEF StartCode, AudAt
<1>5. ASSUME NEW j \in Nat, i <= j, j < i + n
      PROVE  ~AudAt(b, j)
  <2>1. j = i \/ (n # 1 /\ j = i + 1) \/ (n # 1 /\ j = i + 2) \/ (n = 4 /\ j = i + 3)
    BY <1>1, <1>5
  <2>. QED  BY <2>1, <1>2, <1>3, <1>4
<1>. QED  BY <1>1, <1>5

LEMMA ScanStep ==
  ASSUME NEW b \in Seq(Byte), NEW i \in Nat, NEW f,
         i + 4 < Len(b) => \A k \in Nat : i < k => IsNextAud(b, k, f[k])
  PROVE  IsNextAud(b, i, Scanned(f, b, i))
<1>. DEFINE n == IF StartCode(b, i) = 0 THEN 1 ELSE StartCode(b, i)
<1>1. CASE i + 4 >= Len(b)
  <2>1. \A j \in Nat : i <= j => ~(j + 4 < Len(b))
    BY <1>1
  <2>. QED  BY <1>1, <2>1 DEF Scanned, IsNextAud, AudAt
<1>2. CASE i + 4 < Len(b) /\ AudAt(b, i)
  <2>1. Scanned(f, b, i) = i
    BY <1>2 DEF Scanned, AudAt
  <2>. QED  BY <1>2, <2>1 DEF IsNextAud
<1>3. CASE i + 4 < Len(b) /\ ~AudAt(b, i)
  <2>1. Scanned(f, b, i) = f[i + n]
    BY <1>3 DEF Scanned, AudAt
  <2>2. n \in {1, 3, 4} /\ \A j \in Nat : i <= j /\ j < i + n => ~AudAt(b, j)
    BY <1>3, NothingSkipped
  <2>. HIDE DEF n
  <2>3. IsNextAud(b, i + n, f[i + n])
    BY <1>3, <2>2
  <2>4. \A j \in Nat : i <= j => (j < i + n \/ i + n <= j)
    BY <2>2
  <2>. QED  BY <2>1, <2>2, <2>3, <2>4 DEF IsNextAud
<1>. QED  BY <1>1, <1>2, <1>3

LEMMA ScanExists ==
  ASSUME NEW b \in Seq(Byte)
  PROVE  \E f : f = [i \in Nat |-> Scanned(f, b, i)]
<1>. DEFINE g == [i \in Nat |-> CHOOSE r : IsNextAud(b, i, r)]
<1>1. \A i \in Nat : \E r : IsNextAud(b, i, r)
  <2>. SUFFICES ASSUME NEW i \in Nat, \E j \in Nat : i <= j /\ AudAt(b, j)
                PROVE  \E r : IsNextAud(b, i, r)
    BY DEF IsNextAud
  <2>. DEFINE T == {j \in Nat : i <= j /\ AudAt(b, j)}
  <2>1. PICK m \in T : \A k \in T : m <= k
    BY Least
  <2>2. \A j \in Nat : j < m => j \notin T
    BY <2>1
  <2>. QED  BY <2>1, <2>2 DEF IsNextAud
<1>2. \A i \in Nat : IsNextAud(b, i, g[i])
  BY <1>1
<1>3. ASSUME NEW i \in Nat, NEW r, NEW s, IsNextAud(b, i, r), IsNextAud(b, i, s)
      PROVE  r = s
  BY <1>3 DEF IsNextAud
<1>4. g = [i \in Nat |-> g[i]]
  OBVIOUS
<1>. HIDE DEF g
<1>5. \A i \in Nat : g[i] = Scanned(g, b, i)
  BY <1>2, <1>3, ScanStep
<1>6. g = [i \in Nat |-> Scanned(g, b, i)]
  BY <1>4, <1>5
<1>. QED  BY <1>6

(* find_aud returns the first delimiter at or after the offset it is given, *)
(* whatever the buffer holds: no start code that it skips hides one.        *)
THEOREM FindAudFindsTheNext ==
  \A b \in Seq(Byte), from \in Nat : IsNextAud(b, from, find_aud(b, from))
<1>. SUFFICES ASSUME NEW b \in Seq(Byte), NEW from \in Nat
              PROVE  IsNextAud(b, from, find_aud(b, from))
  OBVIOUS
<1>. DEFINE h == CHOOSE f : f = [i \in Nat |-> Scanned(f, b, i)]
<1>1. h = [i \in Nat |-> Scanned(h, b, i)]
  BY ScanExists
<1>2. find_aud(b, from) = h[from]
  BY DEF find_aud, Scanned
<1>. HIDE DEF h
<1>3. \A i \in Nat : h[i] = Scanned(h, b, i)
  BY <1>1
<1>. DEFINE Wrong == {n \in Nat : \E i \in Nat : Len(b) <= i + n /\ ~IsNextAud(b, i, h[i])}
<1>4. Wrong = {}
  <2>. SUFFICES ASSUME Wrong # {}
                PROVE  FALSE
    OBVIOUS
  <2>1. PICK n \in Wrong : \A k \in Wrong : n <= k
    BY Least
  <2>2. PICK i \in Nat : Len(b) <= i + n /\ ~IsNextAud(b, i, h[i])
    BY <2>1
  <2>3. n # 0
    BY <2>2, <1>3, ScanStep
  <2>4. n - 1 \in Nat /\ n - 1 \notin Wrong
    <3>1. n \in Nat /\ \A k \in Wrong : n <= k
      BY <2>1
    <3>. HIDE DEF Wrong
    <3>. QED  BY <3>1, <2>3
  <2>5. \A k \in Nat : i < k => Len(b) <= k + (n - 1)
    BY <2>2, <2>3
  <2>6. \A k \in Nat : i < k => IsNextAud(b, k, h[k])
    BY <2>4, <2>5
  <2>. QED  BY <2>2, <2>6, <1>3, ScanStep
<1>5. Len(b) <= from + Len(b) /\ Len(b) \in Nat
  OBVIOUS
<1>. QED  BY <1>2, <1>4, <1>5

----------------------------------------------------------------------------
(* The delimiter that the loop of feed finds after the one at i.            *)
NextCut(b, i) == IF i + 4 >= Len(b) THEN NoAud ELSE find_aud(b, i + 4)

(* The right side of the recursive definition in Cuts.                      *)
Chained(f, b, i) ==
  IF NextCut(b, i) = NoAud THEN <<i>> ELSE <<i>> \o f[NextCut(b, i)]

LEMMA NextCutFacts ==
  ASSUME NEW b \in Seq(Byte), NEW i \in Nat
  PROVE  /\ NextCut(b, i) = NoAud \/ (NextCut(b, i) \in Nat /\ i < NextCut(b, i))
         /\ i >= Len(b) => NextCut(b, i) = NoAud
<1>1. IsNextAud(b, i + 4, find_aud(b, i + 4))
  BY FindAudFindsTheNext
<1>2. Len(b) \in Nat
  OBVIOUS
<1>. QED  BY <1>1, <1>2 DEF NextCut, IsNextAud

LEMMA ChainExists ==
  ASSUME NEW b \in Seq(Byte)
  PROVE  \E f : f = [i \in Nat |-> Chained(f, b, i)]
<1>. DEFINE Holds(g, d) == \A i \in Nat : Len(b) <= i + d => g[i] = Chained(g, b, i)
            Wrong == {d \in Nat : ~ \E g : Holds(g, d)}
<1>1. Holds([i \in Nat |-> <<i>>], 0)
  BY NextCutFacts DEF Chained
<1>2. ASSUME NEW d \in Nat, NEW g, Holds(g, d)
      PROVE  \E h : Holds(h, d + 1)
  <2>. DEFINE h == [i \in Nat |-> Chained(g, b, i)]
  <2>1. ASSUME NEW i \in Nat, Len(b) <= i + (d + 1), NextCut(b, i) # NoAud
        PROVE  h[NextCut(b, i)] = g[NextCut(b, i)]
    <3>1. NextCut(b, i) \in Nat /\ i < NextCut(b, i)
      BY <2>1, NextCutFacts
    <3>2. Len(b) <= NextCut(b, i) + d
      BY <2>1, <3>1
    <3>3. g[NextCut(b, i)] = Chained(g, b, NextCut(b, i))
      BY <1>2, <3>1, <3>2
    <3>. QED  BY <3>1, <3>3
  <2>2. \A i \in Nat : h[i] = Chained(g, b, i)
    OBVIOUS
  <2>. HIDE DEF h
  <2>3. Holds(h, d + 1)
    BY <2>1, <2>2 DEF Chained
  <2>. QED  BY <2>3
<1>3. Wrong = {}
  <2>. SUFFICES ASSUME Wrong # {}
                PROVE  FALSE
    OBVIOUS
  <2>. HIDE DEF Holds
  <2>1. PICK d \in Wrong : \A k \in Wrong : d <= k
    BY Least
  <2>2. d \in Nat /\ d # 0
    BY <1>1, <2>1
  <2>3. d - 1 \in Nat /\ d - 1 \notin Wrong
    <3>1. \A k \in Wrong : d <= k
      BY <2>1
    <3>. HIDE DEF Wrong
    <3>. QED  BY <3>1, <2>2
  <2>4. \E g : Holds(g, (d - 1) + 1)
    BY <2>3, <1>2
  <2>. QED  BY <2>1, <2>2, <2>4
<1>. HIDE DEF Holds
<1>4. PICK g : Holds(g, Len(b))
  <2>1. Len(b) \in Nat
    OBVIOUS
  <2>2. Len(b) \notin Wrong
    BY <1>3
  <2>. QED  BY <2>1, <2>2
<1>. USE DEF Holds
<1>5. \A i \in Nat : Len(b) <= i + Len(b)
  OBVIOUS
<1>. DEFINE f == [i \in Nat |-> g[i]]
<1>6. \A i \in Nat : Chained(f, b, i) = Chained(g, b, i)
  BY NextCutFacts DEF Chained
<1>7. \A i \in Nat : f[i] = Chained(f, b, i)
  BY <1>4, <1>5, <1>6
<1>8. f = [i \in Nat |-> f[i]]
  OBVIOUS
<1>. HIDE DEF f
<1>9. f = [i \in Nat |-> Chained(f, b, i)]
  BY <1>7, <1>8
<1>. QED  BY <1>9

(* Cuts lists the delimiters that follow one another from the first byte.   *)
LEMMA CutsAre ==
  ASSUME NEW b \in Seq(Byte), NEW c \in Seq(Nat), c # <<>>, c[1] = 0,
         \A u \in 1 .. Len(c) - 1 : NextCut(b, c[u]) = c[u + 1],
         NextCut(b, c[Len(c)]) = NoAud
  PROVE  Cuts(b) = c
<1>. DEFINE h == CHOOSE f : f = [i \in Nat |-> Chained(f, b, i)]
<1>1. h = [i \in Nat |-> Chained(h, b, i)]
  BY ChainExists
<1>2. Cuts(b) = h[0]
  BY DEF Cuts, Chained, NextCut
<1>. HIDE DEF h
<1>3. \A i \in Nat : h[i] = Chained(h, b, i)
  BY <1>1
<1>4. Len(c) \in Nat \ {0} /\ \A u \in 1 .. Len(c) : c[u] \in Nat
  OBVIOUS
<1>. DEFINE Right(u) == h[c[u]] = SubSeq(c, u, Len(c))
            Wrong == {n \in Nat : \E u \in 1 .. Len(c) : u + n = Len(c) /\ ~Right(u)}
<1>5. Right(Len(c))
  <2>1. SubSeq(c, Len(c), Len(c)) = <<c[Len(c)]>> \o SubSeq(c, Len(c) + 1, Len(c))
    BY <1>4, SubSeqRecursiveFirst
  <2>2. SubSeq(c, Len(c) + 1, Len(c)) = <<>>
    BY <1>4, SubSeqEmpty
  <2>3. <<c[Len(c)]>> \o <<>> = <<c[Len(c)]>>
    BY <1>4, ConcatEmptySeq
  <2>4. h[c[Len(c)]] = <<c[Len(c)]>>
    <3>1. c[Len(c)] \in Nat
      BY <1>4
    <3>2. h[c[Len(c)]] = Chained(h, b, c[Len(c)])
      BY <3>1, <1>3
    <3>. QED  BY <3>2 DEF Chained
  <2>. QED  BY <2>1, <2>2, <2>3, <2>4
<1>6. ASSUME NEW u \in 1 .. Len(c) - 1, Right(u + 1)
      PROVE  Right(u)
  <2>1. SubSeq(c, u, Len(c)) = <<c[u]>> \o SubSeq(c, u + 1, Len(c))
    BY <1>4, SubSeqRecursiveFirst
  <2>2. u \in 1 .. Len(c) /\ u + 1 \in 1 .. Len(c)
    BY <1>4
  <2>3. c[u] \in Nat /\ c[u + 1] \in Nat /\ NextCut(b, c[u]) = c[u + 1]
    BY <2>2, <1>4
  <2>4. h[c[u]] = <<c[u]>> \o h[c[u + 1]]
    <3>1. h[c[u]] = Chained(h, b, c[u])
      BY <2>3, <1>3
    <3>2. NextCut(b, c[u]) # NoAud
      BY <2>3 DEF NoAud
    <3>. QED  BY <2>3, <3>1, <3>2 DEF Chained
  <2>. QED  BY <1>6, <2>1, <2>4
<1>. HIDE DEF Right
<1>7. Wrong = {}
  <2>. SUFFICES ASSUME Wrong # {}
                PROVE  FALSE
    OBVIOUS
  <2>1. PICK n \in Wrong : \A k \in Wrong : n <= k
    BY Least
  <2>2. PICK u \in 1 .. Len(c) : u + n = Len(c) /\ ~Right(u)
    BY <2>1
  <2>3. n \in Nat /\ n # 0
    BY <2>1, <2>2, <1>4, <1>5
  <2>4. n - 1 \in Nat /\ n - 1 \notin Wrong
    <3>1. \A k \in Wrong : n <= k
      BY <2>1
    <3>. HIDE DEF Wrong
    <3>. QED  BY <3>1, <2>3
  <2>. HIDE DEF Wrong
  <2>5. u \in 1 .. Len(c) - 1 /\ u + 1 \in 1 .. Len(c) /\ (u + 1) + (n - 1) = Len(c)
    <3>1. ASSUME NEW l \in Nat, NEW v \in 1 .. l, NEW k \in Nat, k # 0, v + k = l
          PROVE  v \in 1 .. l - 1 /\ v + 1 \in 1 .. l /\ (v + 1) + (k - 1) = l
      BY <3>1
    <3>2. u + n = Len(c) /\ Len(c) \in Nat
      BY <2>2, <1>4
    <3>. QED  BY <3>1, <3>2, <2>3
  <2>. USE DEF Wrong
  <2>6. Right(u + 1)
    BY <2>4, <2>5
  <2>. QED  BY <2>2, <2>5, <2>6, <1>6
<1>8. Right(1)
  <2>1. Len(c) - 1 \in Nat /\ 1 \in 1 .. Len(c) /\ 1 + (Len(c) - 1) = Len(c)
    BY <1>4
  <2>2. Len(c) - 1 \notin Wrong
    BY <1>7
  <2>. QED  BY <2>1, <2>2
<1>9. SubSeq(c, 1, Len(c)) = c
  BY SubSeqFull
<1>. QED  BY <1>2, <1>8, <1>9 DEF Right

----------------------------------------------------------------------------
(* Where the u-th picture ends.                                             *)
EndOf(u) == IF u < Len(starts) THEN starts[u + 1] ELSE Len(bytes)

(* The stream is its preamble and the pictures, one after the other, ...    *)
Layout ==
  /\ pictures \in Seq(Pictures) /\ bytes \in Seq(Byte)
  /\ starts \in Seq(Nat) /\ Len(starts) = Len(pictures)
  /\ \A u \in 1 .. Len(starts) :
       /\ starts[u] + 5 <= EndOf(u)
       /\ EndOf(u) <= Len(bytes)
       /\ pictures[u] = SubSeq(bytes, starts[u] + 1, EndOf(u))

(* ... no two of which make a delimiter between them: what ends in another  *)
(* byte than 0 is followed by one that begins with 0.                       *)
Delimited ==
  /\ bytes # <<>> => bytes[Len(bytes)] # 0
  /\ \A u \in 1 .. Len(starts) :
       /\ starts[u] > 0 => bytes[starts[u]] # 0
       /\ AudAt(bytes, starts[u])
  /\ \A j \in 0 .. Len(bytes) :
       HasAud(bytes, j) => \E u \in 1 .. Len(starts) : j = starts[u] \/ j = starts[u] + 1

(* The u-th picture is the last whose delimiter is seen in f bytes.         *)
LastSeen(u, f) ==
  starts[u] + 4 < f /\ \A v \in u + 1 .. Len(starts) : f <= starts[v] + 4

Current(u) == u \in 1 .. Len(starts) /\ LastSeen(u, fed)

NoneSeen == \A u \in 1 .. Len(starts) : fed <= starts[u] + 4

Window(i) == SubSeq(bytes, i + 1, fed)

(* What it was given holds no delimiter yet, ...                            *)
Waiting == NoneSeen /\ buf = Window(0) /\ emitted = <<>>

(* ... or the pictures before the u-th are out, and the buffer begins with  *)
(* that one; ...                                                            *)
Gathering ==
  \E u \in 1 .. Len(starts) :
    Current(u) /\ buf = Window(starts[u]) /\ emitted = SubSeq(pictures, 1, u - 1)

(* ... finish adds what there is of it.                                     *)
Finished ==
  \/ NoneSeen /\ emitted = <<>>
  \/ \E u \in 1 .. Len(starts) :
       Current(u) /\ emitted = Append(SubSeq(pictures, 1, u - 1), Window(starts[u]))

Reader ==
  /\ fed \in 0 .. Len(bytes)
  /\ stream_ended \in BOOLEAN /\ current_au_start \in {NoAud, 0}
  /\ IF stream_ended THEN Finished
     ELSE IF current_au_start = NoAud THEN Waiting ELSE Gathering

IInv == Layout /\ Delimited /\ Reader

----------------------------------------------------------------------------
(* What a delimiter is in a part of the stream, and in two parts joined.    *)

LEMMA AudInWindow ==
  ASSUME NEW b \in Seq(Byte), NEW s \in Nat, NEW f \in Nat, s <= f, f <= Len(b),
         NEW j \in Nat
  PROVE  AudAt(SubSeq(b, s + 1, f), j) <=> j + 4 < f - s /\ AudAt(b, s + j)
<1>. DEFINE w == SubSeq(b, s + 1, f)
<1>1. Len(w) = f - s /\ \A i \in 1 .. f - s : w[i] = b[s + i]
  OBVIOUS
<1>. HIDE DEF w
<1>2. CASE j + 4 < f - s
  <2>1. /\ w[j + 1] = b[s + j + 1] /\ w[j + 2] = b[s + j + 2] /\ w[j + 3] = b[s + j + 3]
        /\ w[j + 4] = b[s + j + 4] /\ w[j + 5] = b[s + j + 5]
    BY <1>1, <1>2
  <2>2. StartCode(w, j) = StartCode(b, s + j)
    BY <2>1 DEF StartCode
  <2>3. StartCode(b, s + j) \in {0, 3, 4}
    BY DEF StartCode
  <2>4. StartCode(w, j) # 0 => w[j + StartCode(w, j) + 1] = b[s + j + StartCode(b, s + j) + 1]
    BY SMTT(30), <2>1, <2>2, <2>3
  <2>5. j + 4 < Len(w) /\ s + j + 4 < Len(b)
    BY <1>1, <1>2
  <2>. QED  BY <1>2, <2>2, <2>4, <2>5 DEF AudAt, w
<1>3. CASE ~(j + 4 < f - s)
  BY <1>1, <1>3 DEF AudAt, w
<1>. QED  BY <1>2, <1>3

LEMMA AudHasCode ==
  ASSUME NEW b \in Seq(Byte), NEW j \in Nat, AudAt(b, j)
  PROVE  HasAud(b, j) \/ (b[j + 1] = 0 /\ HasAud(b, j + 1))
  BY DEF AudAt, HasAud, StartCode

LEMMA PictureBegins ==
  ASSUME NEW p, IsPicture(p)
  PROVE  AudAt(p, 0)
<1>1. PICK d \in {0, 1} : HasAud(p, d)
  BY DEF IsPicture
<1>2. CASE d = 0
  BY <1>1, <1>2 DEF IsPicture, HasAud, AudAt, StartCode
<1>3. CASE d = 1
  BY <1>1, <1>3 DEF IsPicture, HasAud, AudAt, StartCode
<1>. QED  BY <1>2, <1>3

LEMMA Joined ==
  ASSUME NEW b \in Seq(Byte), NEW p, IsPicture(p), b # <<>> => b[Len(b)] # 0
  PROVE  /\ \A j \in Nat : AudAt(b, j) => AudAt(b \o p, j)
         /\ AudAt(b \o p, Len(b))
         /\ \A j \in Nat : HasAud(b \o p, j) =>
              HasAud(b, j) \/ j = Len(b) \/ j = Len(b) + 1
<1>. DEFINE w == b \o p
<1>1. p \in Seq(Byte) /\ Len(p) >= 5 /\ p[1] = 0
  BY DEF IsPicture
<1>2. /\ Len(b) \in Nat /\ Len(p) \in Nat
      /\ w \in Seq(Byte) /\ Len(w) = Len(b) + Len(p)
      /\ \A i \in 1 .. Len(b) : w[i] = b[i]
      /\ \A i \in 1 .. Len(p) : w[Len(b) + i] = p[i]
  BY <1>1
<1>. HIDE DEF w
<1>3. b = SubSeq(w, 1, Len(b))
  BY <1>1, SubSeqOfConcat1, SubSeqFull DEF w
<1>4. p = SubSeq(w, Len(b) + 1, Len(b) + Len(p))
  BY <1>1 DEF w
<1>5. ASSUME NEW j \in Nat, AudAt(b, j)
      PROVE  AudAt(w, j)
  <2>1. AudAt(SubSeq(w, 0 + 1, Len(b)), j) => AudAt(w, 0 + j)
    <3>1. 0 \in Nat /\ 0 <= Len(b) /\ Len(b) <= Len(w)
      BY <1>2
    <3>. QED  BY <1>2, <3>1, AudInWindow
  <2>2. 0 + 1 = 1 /\ 0 + j = j
    OBVIOUS
  <2>. QED  BY <1>3, <1>5, <2>1, <2>2
<1>6. AudAt(w, Len(b))
  <2>1. AudAt(SubSeq(w, Len(b) + 1, Len(b) + Len(p)), 0) => AudAt(w, Len(b) + 0)
    BY <1>2, AudInWindow
  <2>2. Len(b) + 0 = Len(b)
    BY <1>2
  <2>. QED  BY <1>4, <2>1, <2>2, PictureBegins
<1>7. ASSUME NEW j \in Nat, HasAud(w, j), j < Len(b)
      PROVE  HasAud(b, j)
  <2>1. /\ j + 4 <= Len(w) /\ w[j + 1] = 0 /\ w[j + 2] = 0 /\ w[j + 3] = 1 /\ IsAud(w[j + 4])
    BY <1>2, <1>7 DEF HasAud
  <2>2. w[Len(b)] # 0 /\ w[Len(b) + 1] = 0
    <3>1. Len(b) \in 1 .. Len(b) /\ b # <<>> /\ 1 \in 1 .. Len(p)
      BY <1>1, <1>2, <1>7
    <3>. QED  BY <3>1, <1>1, <1>2
  <2>3. ~IsAud(0)
    BY DEF IsAud
  <2>4. Len(b) # j + 1 /\ Len(b) # j + 2 /\ Len(b) # j + 3
    BY <1>2, <2>1, <2>2, <2>3
  <2>5. j + 4 <= Len(b)
    BY <1>2, <1>7, <2>4
  <2>6. b[j + 1] = w[j + 1] /\ b[j + 2] = w[j + 2] /\ b[j + 3] = w[j + 3] /\ b[j + 4] = w[j + 4]
    <3>1. \A k \in 1 .. 4 : j + k \in 1 .. Len(b)
      BY <1>2, <2>5
    <3>. QED  BY <1>2, <3>1
  <2>. QED  BY <1>2, <2>1, <2>5, <2>6 DEF HasAud
<1>8. ASSUME NEW j \in Nat, HasAud(w, j), Len(b) <= j
      PROVE  j = Len(b) \/ j = Len(b) + 1
  <2>. DEFINE i == j - Len(b)
  <2>1. i \in Nat /\ j = Len(b) + i
    BY <1>2, <1>8
  <2>. HIDE DEF i
  <2>2. i + 4 <= Len(p)
    BY <1>2, <1>8, <2>1 DEF HasAud
  <2>3. /\ w[j + 1] = p[i + 1] /\ w[j + 2] = p[i + 2] /\ w[j + 3] = p[i + 3]
        /\ w[j + 4] = p[i + 4]
    <3>1. \A k \in 1 .. 4 : i + k \in 1 .. Len(p) /\ Len(b) + (i + k) = j + k
      BY <1>2, <2>1, <2>2
    <3>2. \A k \in 1 .. 4 : w[j + k] = p[i + k]
      BY <1>2, <3>1
    <3>. QED  BY <3>2
  <2>4. HasAud(p, i)
    BY SMTT(30), <1>2, <1>8, <2>1, <2>2, <2>3 DEF HasAud
  <2>5. i \in {0, 1}
    BY <1>2, <2>1, <2>2, <2>4 DEF IsPicture
  <2>. QED  BY <1>2, <2>1, <2>5
<1>. QED  BY <1>2, <1>5, <1>6, <1>7, <1>8 DEF w

----------------------------------------------------------------------------
(* The stream stays what it is taken for.                                   *)

LEMMA StreamBegins ==
  ASSUME AuInit
  PROVE  Layout /\ Delimited
<1>1. pictures = <<>> /\ starts = <<>> /\ IsPreamble(bytes)
  BY AuAssumption DEF AuInit
<1>2. Len(starts) = 0 /\ Len(pictures) = 0 /\ \A u \in 1 .. 0 : FALSE
  BY <1>1
<1>3. Layout
  BY <1>1, <1>2 DEF Layout, IsPreamble
<1>4. Delimited
  BY <1>1, <1>2 DEF Delimited, IsPreamble
<1>. QED  BY <1>3, <1>4

LEMMA StreamGrows ==
  ASSUME Layout, Delimited, WritePicture
  PROVE  Layout' /\ Delimited'
<1>1. PICK p \in Pictures : pictures' = Append(pictures, p) /\ bytes' = bytes \o p
  BY DEF WritePicture
<1>2. IsPicture(p) /\ p \in Seq(Byte) /\ Len(p) \in Nat /\ Len(p) >= 5 /\ p[Len(p)] # 0
  BY AuAssumption DEF IsPicture
<1>. SUFFICES ASSUME NEW n, NEW l, n = Len(starts), l = Len(bytes)
              PROVE  Layout' /\ Delimited'
  OBVIOUS
<1>3. /\ n \in Nat /\ l \in Nat /\ Len(pictures) = n
      /\ \A u \in 1 .. n : starts[u] \in Nat /\ starts[u] + 5 <= EndOf(u) /\ EndOf(u) <= l
      /\ \A u \in 1 .. n : EndOf(u) \in Nat
  BY SMTT(30) DEF Layout, EndOf
<1>4. /\ starts' = Append(starts, l) /\ starts' \in Seq(Nat) /\ Len(starts') = n + 1
      /\ \A u \in 1 .. n : starts'[u] = starts[u]
      /\ starts'[n + 1] = l
  BY <1>3 DEF WritePicture, Layout
<1>5. /\ pictures' \in Seq(Pictures) /\ Len(pictures') = n + 1
      /\ \A u \in 1 .. n : pictures'[u] = pictures[u]
      /\ pictures'[n + 1] = p
  BY <1>1, <1>3 DEF Layout
<1>6. /\ bytes' \in Seq(Byte) /\ Len(bytes') = l + Len(p)
      /\ \A i \in 1 .. l : bytes'[i] = bytes[i]
      /\ \A i \in 1 .. Len(p) : bytes'[l + i] = p[i]
  BY <1>1, <1>2 DEF Layout
<1>7. \A u \in 1 .. n : EndOf(u)' = EndOf(u)
  BY <1>3, <1>4 DEF EndOf
<1>8. EndOf(n + 1)' = l + Len(p)
  BY <1>3, <1>4, <1>6 DEF EndOf
<1>9. \A u \in 1 .. n + 1 : u \in 1 .. n \/ u = n + 1
  BY <1>3
<1>10. Layout'
  <2>1. ASSUME NEW u \in 1 .. n
        PROVE  /\ starts'[u] + 5 <= EndOf(u)' /\ EndOf(u)' <= Len(bytes')
               /\ pictures'[u] = SubSeq(bytes', starts'[u] + 1, EndOf(u)')
    <3>1. starts[u] + 1 \in 1 .. l /\ EndOf(u) \in 1 .. l /\ l <= l + Len(p)
      BY <1>2, <1>3
    <3>2. SubSeq(bytes', starts[u] + 1, EndOf(u)) = SubSeq(bytes, starts[u] + 1, EndOf(u))
      BY <3>1, <1>1, <1>2, SubSeqOfConcat1 DEF Layout
    <3>3. pictures[u] = SubSeq(bytes, starts[u] + 1, EndOf(u))
      BY DEF Layout
    <3>4. starts'[u] = starts[u] /\ EndOf(u)' = EndOf(u) /\ pictures'[u] = pictures[u]
      BY <1>4, <1>5, <1>7
    <3>5. starts[u] + 5 <= EndOf(u) /\ EndOf(u) <= Len(bytes')
      BY <1>2, <1>3, <1>6, <3>1
    <3>. QED  BY <3>2, <3>3, <3>4, <3>5
  <2>2. /\ starts'[n + 1] + 5 <= EndOf(n + 1)' /\ EndOf(n + 1)' <= Len(bytes')
        /\ pictures'[n + 1] = SubSeq(bytes', starts'[n + 1] + 1, EndOf(n + 1)')
    <3>1. SubSeq(bytes', l + 1, l + Len(p)) = p
      BY <1>1, <1>2, <1>3 DEF Layout
    <3>. QED  BY SMTT(30), <3>1, <1>2, <1>3, <1>4, <1>5, <1>6, <1>8
  <2>3. \A u \in 1 .. n + 1 :
          /\ starts'[u] + 5 <= EndOf(u)' /\ EndOf(u)' <= Len(bytes')
          /\ pictures'[u] = SubSeq(bytes', starts'[u] + 1, EndOf(u)')
    <3>. SUFFICES ASSUME NEW u \in 1 .. n + 1
                  PROVE  /\ starts'[u] + 5 <= EndOf(u)' /\ EndOf(u)' <= Len(bytes')
                         /\ pictures'[u] = SubSeq(bytes', starts'[u] + 1, EndOf(u)')
      OBVIOUS
    <3>1. CASE u \in 1 .. n
      BY <2>1, <3>1
    <3>2. CASE u = n + 1
      BY <2>2, <3>2
    <3>. QED  BY <3>1, <3>2, <1>9
  <2>. QED  BY <2>3, <1>4, <1>5, <1>6 DEF Layout
<1>11. Delimited'
  <2>1. /\ \A j \in Nat : AudAt(bytes, j) => AudAt(bytes', j)
        /\ AudAt(bytes', l)
        /\ \A j \in Nat : HasAud(bytes', j) => HasAud(bytes, j) \/ j = l \/ j = l + 1
    BY <1>1, <1>2, Joined DEF Layout, Delimited
  <2>2. bytes' # <<>> => bytes'[Len(bytes')] # 0
    <3>1. Len(p) \in 1 .. Len(p)
      BY <1>2
    <3>. QED  BY <3>1, <1>2, <1>6
  <2>3. ASSUME NEW u \in 1 .. n
        PROVE  (starts'[u] > 0 => bytes'[starts'[u]] # 0) /\ AudAt(bytes', starts'[u])
    <3>1. (starts[u] > 0 => bytes[starts[u]] # 0) /\ AudAt(bytes, starts[u])
      BY DEF Delimited
    <3>2. starts[u] \in Nat /\ (starts[u] > 0 => starts[u] \in 1 .. l)
      BY <1>3
    <3>. QED  BY <3>1, <3>2, <2>1, <1>4, <1>6
  <2>4. (starts'[n + 1] > 0 => bytes'[starts'[n + 1]] # 0) /\ AudAt(bytes', starts'[n + 1])
    <3>1. l > 0 => l \in 1 .. l /\ bytes[l] # 0
      BY <1>3 DEF Layout, Delimited
    <3>. QED  BY <3>1, <2>1, <1>4, <1>6
  <2>5. ASSUME NEW j \in 0 .. Len(bytes'), HasAud(bytes', j)
        PROVE  \E u \in 1 .. n + 1 : j = starts'[u] \/ j = starts'[u] + 1
    <3>1. CASE HasAud(bytes, j)
      <4>1. j \in 0 .. l
        BY <3>1, <1>3 DEF HasAud
      <4>2. PICK u \in 1 .. n : j = starts[u] \/ j = starts[u] + 1
        BY <3>1, <4>1 DEF Delimited
      <4>. QED  BY <4>2, <1>3, <1>4
    <3>2. CASE j = l \/ j = l + 1
      BY <3>2, <1>3, <1>4
    <3>. QED  BY <2>1, <2>5, <3>1, <3>2
  <2>6. \A u \in 1 .. n + 1 :
          (starts'[u] > 0 => bytes'[starts'[u]] # 0) /\ AudAt(bytes', starts'[u])
    BY <2>3, <2>4, <1>9
  <2>. QED  BY <2>2, <2>5, <2>6, <1>4 DEF Delimited
<1>. QED  BY <1>10, <1>11

(* Pictures begin one after the other, at delimiters, and all delimiters    *)
(* are theirs: a long one is one at its second byte too.                    *)
LEMMA StreamFacts ==
  ASSUME Layout, Delimited
  PROVE  /\ Len(starts) \in Nat /\ Len(bytes) \in Nat
         /\ \A u \in 1 .. Len(starts) :
              starts[u] \in Nat /\ starts[u] + 5 <= Len(bytes) /\ AudAt(bytes, starts[u])
         /\ \A u \in 1 .. Len(starts) - 1 : starts[u] + 5 <= starts[u + 1]
         /\ \A j \in Nat : AudAt(bytes, j) =>
              \E u \in 1 .. Len(starts) : j = starts[u] \/ j = starts[u] + 1
<1>1. Len(starts) \in Nat /\ Len(bytes) \in Nat
  BY DEF Layout
<1>2. ASSUME NEW u \in 1 .. Len(starts)
      PROVE  starts[u] \in Nat /\ starts[u] + 5 <= Len(bytes) /\ AudAt(bytes, starts[u])
  <2>1. starts[u] \in Nat /\ EndOf(u) \in Nat /\ starts[u] + 5 <= EndOf(u) /\ EndOf(u) <= Len(bytes)
    BY SMTT(30) DEF Layout, EndOf
  <2>. QED  BY <2>1, <1>1 DEF Delimited
<1>3. ASSUME NEW u \in 1 .. Len(starts) - 1
      PROVE  starts[u] + 5 <= starts[u + 1]
  <2>1. u \in 1 .. Len(starts) /\ u < Len(starts)
    BY <1>1
  <2>2. EndOf(u) = starts[u + 1]
    BY <2>1 DEF EndOf
  <2>. QED  BY <2>1, <2>2 DEF Layout
<1>4. ASSUME NEW j \in Nat, AudAt(bytes, j)
      PROVE  \E u \in 1 .. Len(starts) : j = starts[u] \/ j = starts[u] + 1
  <2>1. HasAud(bytes, j) \/ (bytes[j + 1] = 0 /\ HasAud(bytes, j + 1))
    BY <1>4, AudHasCode DEF Layout
  <2>2. j \in 0 .. Len(bytes) /\ j + 1 \in 0 .. Len(bytes)
    BY <1>1, <1>4 DEF AudAt
  <2>3. CASE HasAud(bytes, j)
    BY <2>2, <2>3 DEF Delimited
  <2>4. CASE bytes[j + 1] = 0 /\ HasAud(bytes, j + 1)
    <3>1. PICK u \in 1 .. Len(starts) : j + 1 = starts[u] \/ j + 1 = starts[u] + 1
      BY <2>2, <2>4 DEF Delimited
    <3>2. starts[u] \in Nat /\ (starts[u] > 0 => bytes[starts[u]] # 0)
      BY <1>2 DEF Delimited
    <3>. QED  BY <3>1, <3>2, <2>4
  <2>. QED  BY <2>1, <2>3, <2>4
<1>. QED  BY <1>1, <1>2, <1>3, <1>4

LEMMA StartFacts ==
  ASSUME Layout, Delimited
  PROVE  /\ Len(starts) \in Nat /\ Len(bytes) \in Nat
         /\ \A u \in 1 .. Len(starts) : starts[u] \in Nat /\ starts[u] + 5 <= Len(bytes)
<1>1. \A u \in 1 .. Len(starts) : starts[u] \in Nat /\ starts[u] + 5 <= Len(bytes)
  BY StreamFacts
<1>. QED  BY <1>1, StreamFacts

(* An earlier one begins earlier.                                           *)
LEMMA StartsIncrease ==
  ASSUME Layout, Delimited, NEW u \in 1 .. Len(starts), NEW v \in 1 .. Len(starts), u < v
  PROVE  starts[u] + 5 <= starts[v]
<1>. DEFINE Wrong == {i \in Nat : i \in u + 1 .. Len(starts) /\ ~(starts[u] + 5 <= starts[i])}
<1>1. Wrong = {}
  <2>. SUFFICES ASSUME Wrong # {}
                PROVE  FALSE
    OBVIOUS
  <2>1. PICK i \in Wrong : \A m \in Wrong : i <= m
    BY Least
  <2>2. i \in u + 1 .. Len(starts) /\ ~(starts[u] + 5 <= starts[i])
    BY <2>1
  <2>3. /\ i - 1 \in 1 .. Len(starts) - 1 /\ i - 1 \in 1 .. Len(starts) /\ (i - 1) + 1 = i
        /\ i \in 1 .. Len(starts) /\ u \in 1 .. Len(starts)
    BY <2>2, StartFacts
  <2>4. starts[i - 1] + 5 <= starts[i]
    BY <2>3, StreamFacts
  <2>5. starts[u] \in Nat /\ starts[i - 1] \in Nat /\ starts[i] \in Nat
    BY <2>3, StreamFacts
  <2>6. i - 1 # u
    BY <2>2, <2>4
  <2>7. i - 1 \in Nat /\ i - 1 \in u + 1 .. Len(starts) /\ i - 1 \notin Wrong
    <3>1. \A m \in Wrong : i <= m
      BY <2>1
    <3>. HIDE DEF Wrong
    <3>. QED  BY <3>1, <2>2, <2>3, <2>6
  <2>8. starts[u] + 5 <= starts[i - 1]
    BY <2>7
  <2>. QED  BY SMTT(30), <2>2, <2>4, <2>5, <2>8
<1>2. v \in Nat /\ v \in u + 1 .. Len(starts)
  OBVIOUS
<1>. QED  BY <1>1, <1>2

----------------------------------------------------------------------------
(* What the parser makes of the first f bytes.                              *)

LEMMA LastSeenExists ==
  ASSUME Layout, Delimited, NEW f \in Nat, NEW k \in 1 .. Len(starts), starts[k] + 4 < f
  PROVE  \E u \in k .. Len(starts) : LastSeen(u, f)
<1>. DEFINE T == {m \in Nat : \E u \in k .. Len(starts) : u + m = Len(starts) /\ starts[u] + 4 < f}
<1>1. Len(starts) - k \in T
  BY StartFacts
<1>2. \E m \in T : \A i \in T : m <= i
  BY <1>1, Least
<1>3. PICK m \in Nat, u \in k .. Len(starts) :
        u + m = Len(starts) /\ starts[u] + 4 < f /\ \A i \in T : m <= i
  BY <1>2
<1>4. \A i \in Nat, v \in k .. Len(starts) : v + i = Len(starts) /\ starts[v] + 4 < f => m <= i
  BY <1>3
<1>. HIDE DEF T
<1>5. Len(starts) \in Nat /\ k \in Nat /\ \A v \in k .. Len(starts) : starts[v] \in Nat
  BY StartFacts
<1>6. ASSUME NEW v \in u + 1 .. Len(starts)
      PROVE  f <= starts[v] + 4
  <2>1. v \in k .. Len(starts) /\ Len(starts) - v \in Nat /\ v + (Len(starts) - v) = Len(starts)
    BY <1>5
  <2>2. Len(starts) - v < m
    BY SMTT(30), <1>3, <1>5, <2>1
  <2>3. ~(starts[v] + 4 < f)
    <3>1. ~(m <= Len(starts) - v)
      BY <1>3, <1>5, <2>1, <2>2
    <3>. QED  BY ZenonT(40), <1>4, <2>1, <3>1
  <2>4. starts[v] \in Nat
    BY <1>5, <2>1
  <2>. QED  BY <2>3, <2>4
<1>. QED  BY <1>3, <1>6 DEF LastSeen

(* The first search, from the beginning of the stream.                      *)
LEMMA FirstFound ==
  ASSUME Layout, Delimited, NEW f \in 0 .. Len(bytes)
  PROVE  LET first == find_aud(SubSeq(bytes, 1, f), 0)
         IN  \/ first = NoAud /\ \A u \in 1 .. Len(starts) : f <= starts[u] + 4
             \/ Len(starts) >= 1 /\ first = starts[1] /\ starts[1] + 4 < f
<1>. DEFINE w == SubSeq(bytes, 0 + 1, f)
            r == find_aud(w, 0)
<1>1. bytes \in Seq(Byte) /\ f \in Nat /\ f <= Len(bytes)
  BY StartFacts DEF Layout
<1>2. w = SubSeq(bytes, 1, f) /\ w \in Seq(Byte)
  BY <1>1
<1>3. \A j \in Nat : AudAt(w, j) <=> j + 4 < f /\ AudAt(bytes, j)
  <2>1. \A j \in Nat : AudAt(w, j) <=> j + 4 < f - 0 /\ AudAt(bytes, 0 + j)
    <3>1. 0 \in Nat /\ 0 <= f
      BY <1>1
    <3>. QED  BY <1>1, <3>1, AudInWindow
  <2>. QED  BY <2>1, <1>1
<1>4. IsNextAud(w, 0, r)
  BY <1>2, FindAudFindsTheNext
<1>. HIDE DEF w, r
<1>5. ASSUME NEW u \in 1 .. Len(starts), starts[u] + 4 < f
      PROVE  1 \in 1 .. Len(starts) /\ starts[1] \in Nat /\ starts[u] \in Nat
             /\ starts[1] <= starts[u] /\ AudAt(w, starts[1])
  <2>1. u # 1 => starts[1] + 5 <= starts[u]
    BY StartsIncrease, StreamFacts
  <2>. QED  BY <1>3, <1>5, <2>1, StreamFacts
<1>6. CASE r = NoAud
  <2>1. \A j \in Nat : ~AudAt(w, j)
    BY <1>4, <1>6 DEF IsNextAud, NoAud
  <2>2. \A u \in 1 .. Len(starts) : ~(starts[u] + 4 < f)
    BY <1>5, <2>1
  <2>. QED  BY <1>1, <1>2, <1>6, <2>2, StreamFacts DEF r
<1>7. CASE r \in Nat /\ AudAt(w, r) /\ \A j \in Nat : j < r => ~AudAt(w, j)
  <2>1. r + 4 < f /\ AudAt(bytes, r)
    BY <1>3, <1>7
  <2>2. PICK u \in 1 .. Len(starts) : r = starts[u] \/ r = starts[u] + 1
    BY <1>7, <2>1, StreamFacts
  <2>3. starts[u] \in Nat /\ starts[u] + 4 < f
    BY <1>1, <2>1, <2>2, StartFacts
  <2>4. /\ 1 \in 1 .. Len(starts) /\ starts[1] \in Nat
        /\ starts[1] <= starts[u] /\ AudAt(w, starts[1])
    BY <1>5, <2>3
  <2>5. r = starts[1]
    BY <1>7, <2>2, <2>3, <2>4
  <2>. QED  BY <1>2, <2>1, <2>4, <2>5 DEF r
<1>. QED  BY <1>4, <1>6, <1>7 DEF IsNextAud

(* Each further one, from a picture to the next.                            *)
LEMMA NextFound ==
  ASSUME Layout, Delimited, NEW f \in 0 .. Len(bytes),
         NEW k \in 1 .. Len(starts), NEW last \in k .. Len(starts), LastSeen(last, f),
         NEW u \in k .. last
  PROVE  NextCut(SubSeq(bytes, starts[k] + 1, f), starts[u] - starts[k]) =
           IF u < last THEN starts[u + 1] - starts[k] ELSE NoAud
<1>0. SUFFICES ASSUME NEW s, s = starts[k], NEW i, i = starts[u] - s,
                      NEW b, b = SubSeq(bytes, s + 1, f), NEW r, r = find_aud(b, i + 4)
               PROVE  NextCut(b, i) = IF u < last THEN starts[u + 1] - s ELSE NoAud
  OBVIOUS
<1>b. bytes \in Seq(Byte) /\ f <= Len(bytes)
  BY StreamFacts DEF Layout
<1>1. /\ f \in Nat /\ Len(starts) \in Nat
      /\ k \in Nat /\ u \in Nat /\ last \in Nat /\ u <= last /\ k <= u
      /\ u \in 1 .. Len(starts) /\ last \in 1 .. Len(starts)
  BY StartFacts
<1>2. /\ s \in Nat /\ starts[u] \in Nat /\ starts[last] \in Nat /\ starts[last] + 4 < f
      /\ s <= starts[u] /\ starts[u] <= starts[last]
  <2>1. k < u => s + 5 <= starts[u]
    BY <1>0, <1>1, StartsIncrease
  <2>2. u < last => starts[u] + 5 <= starts[last]
    BY <1>1, StartsIncrease
  <2>3. /\ s \in Nat /\ starts[u] \in Nat /\ starts[last] \in Nat
        /\ k = u => s = starts[u]
    BY <1>0, <1>1, StartFacts
  <2>4. (k < u \/ k = u) /\ (u < last \/ u = last)
    BY <1>1
  <2>. QED  BY SMTT(30), <2>1, <2>2, <2>3, <2>4 DEF LastSeen
<1>3. i \in Nat /\ s + i = starts[u] /\ s <= f
  <2>1. i = starts[u] - s
    BY <1>0
  <2>. QED  BY SMTT(30), <1>1, <1>2, <2>1
<1>4. b \in Seq(Byte) /\ Len(b) = f - s
  <2>1. s + 1 \in Int /\ f \in Int /\ s + 1 <= f /\ f - (s + 1) + 1 = f - s
    BY <1>1, <1>2
  <2>2. \A m \in s + 1 .. f : bytes[m] \in Byte
    BY <1>b, <1>1, <1>2
  <2>. QED  BY <1>0, <2>1, <2>2, SubSeqProperties
<1>5. \A j \in Nat : AudAt(b, j) <=> j + 4 < f - s /\ AudAt(bytes, s + j)
  BY <1>0, <1>b, <1>1, <1>2, <1>3, AudInWindow
<1>6. ASSUME NEW j \in Nat, i + 4 <= j, AudAt(b, j)
      PROVE  u < last /\ starts[u + 1] \in Nat /\ starts[u + 1] <= s + j
  <2>1. s + j + 4 < f /\ s + j \in Nat /\ AudAt(bytes, s + j)
    BY <1>1, <1>2, <1>5, <1>6
  <2>2. PICK v \in 1 .. Len(starts) : s + j = starts[v] \/ s + j = starts[v] + 1
    BY <2>1, StreamFacts
  <2>3. starts[v] \in Nat
    BY StreamFacts
  <2>4. starts[u] + 4 <= s + j
    BY <1>2, <1>3, <1>6
  <2>5. u < v
    <3>1. v < u => starts[v] + 5 <= starts[u]
      BY <1>1, StartsIncrease
    <3>2. v \in Nat
      BY <1>1
    <3>. QED  BY SMTT(30), <1>1, <1>2, <2>2, <2>3, <2>4, <3>1, <3>2
  <2>6. v <= last
    <3>1. v \in last + 1 .. Len(starts) => f <= starts[v] + 4
      BY DEF LastSeen
    <3>2. v \notin last + 1 .. Len(starts)
      BY SMTT(30), <1>1, <2>1, <2>2, <2>3, <3>1
    <3>. QED  BY <1>1, <3>2
  <2>7. u + 1 \in 1 .. Len(starts)
    BY <1>1, <2>5, <2>6
  <2>8. starts[u + 1] \in Nat /\ (u + 1 < v => starts[u + 1] + 5 <= starts[v])
    BY <2>7, StreamFacts, StartsIncrease
  <2>9. u + 1 = v \/ u + 1 < v
    BY <1>1, <2>5
  <2>. QED  BY <1>1, <2>2, <2>3, <2>5, <2>6, <2>8, <2>9
<1>7. ASSUME u < last
      PROVE  /\ starts[u + 1] - s \in Nat /\ i + 4 <= starts[u + 1] - s
             /\ AudAt(b, starts[u + 1] - s) /\ starts[u + 1] \in Nat
  <2>1. u + 1 \in 1 .. Len(starts) /\ u \in 1 .. Len(starts) - 1 /\ (u + 1 < last \/ u + 1 = last)
    BY <1>1, <1>7
  <2>2. /\ starts[u + 1] \in Nat /\ AudAt(bytes, starts[u + 1]) /\ starts[u] + 5 <= starts[u + 1]
        /\ starts[u + 1] <= starts[last]
    <3>1. u + 1 < last => starts[u + 1] + 5 <= starts[last]
      BY <1>1, <2>1, StartsIncrease
    <3>2. starts[u + 1] \in Nat /\ AudAt(bytes, starts[u + 1]) /\ starts[u] + 5 <= starts[u + 1]
      BY <2>1, StreamFacts
    <3>3. starts[u + 1] <= starts[last]
      BY SMTT(30), <1>2, <2>1, <3>1, <3>2
    <3>. QED  BY <3>2, <3>3
  <2>3. starts[u + 1] - s \in Nat /\ i + 4 <= starts[u + 1] - s /\ s + (starts[u + 1] - s) = starts[u + 1]
        /\ (starts[u + 1] - s) + 4 < f - s
    <3>1. starts[u + 1] \in Nat /\ s + i + 5 <= starts[u + 1] /\ starts[u + 1] + 4 < f
      BY SMTT(30), <1>1, <1>2, <1>3, <2>2
    <3>2. ASSUME NEW m \in Nat, s + i + 5 <= m, m + 4 < f
          PROVE  m - s \in Nat /\ i + 4 <= m - s /\ s + (m - s) = m /\ (m - s) + 4 < f - s
      BY <3>2, <1>1, <1>2, <1>3
    <3>. QED  BY <3>1, <3>2
  <2>. QED  BY <1>5, <2>2, <2>3
<1>8. IsNextAud(b, i + 4, r)
  <2>1. i + 4 \in Nat
    BY <1>3
  <2>. QED  BY <1>0, <1>4, <2>1, FindAudFindsTheNext
<1>9. NextCut(b, i) = r
  <2>1. r = find_aud(b, i + 4)
    BY <1>0
  <2>2. i + 4 < f - s
    BY <1>1, <1>2, <1>3
  <2>3. Len(b) = f - s
    BY <1>4
  <2>. QED  BY <1>1, <1>2, <1>3, <2>1, <2>2, <2>3 DEF NextCut
<1>10. CASE u < last
  <2>1. r \in Nat /\ AudAt(b, r) /\ i + 4 <= r /\ r <= starts[u + 1] - s
    BY <1>7, <1>8, <1>10 DEF IsNextAud
  <2>2. starts[u + 1] <= s + r
    BY <1>6, <2>1
  <2>3. r = starts[u + 1] - s
    BY <1>2, <1>7, <1>10, <2>1, <2>2
  <2>. QED  BY <1>9, <1>10, <2>3
<1>11. CASE ~(u < last)
  BY <1>6, <1>8, <1>9, <1>11 DEF IsNextAud
<1>. QED  BY <1>10, <1>11

(* A part of a window is a part of the stream.                              *)
LEMMA PartOfWindow ==
  ASSUME NEW b \in Seq(Byte), NEW s \in Nat, NEW f \in Nat, s <= f, f <= Len(b),
         NEW i \in Nat, NEW j \in Nat, j <= f - s
  PROVE  SubSeq(SubSeq(b, s + 1, f), i + 1, j) = SubSeq(b, s + i + 1, s + j)
<1>1. /\ SubSeq(b, s + 1, f) \in Seq(Byte)
      /\ \A m \in 1 .. f - s : SubSeq(b, s + 1, f)[m] = b[s + m]
  OBVIOUS
<1>2. CASE j < i + 1
  BY <1>2, SubSeqEmpty
<1>3. CASE i + 1 <= j
  <2>. DEFINE v == SubSeq(SubSeq(b, s + 1, f), i + 1, j)
              w == SubSeq(b, s + i + 1, s + j)
  <2>1. /\ v \in Seq(Byte) /\ Len(v) = j - i
        /\ \A m \in 1 .. j - i : v[m] = SubSeq(b, s + 1, f)[i + m]
    BY <1>1, <1>3
  <2>2. /\ w \in Seq(Byte) /\ Len(w) = j - i
        /\ \A m \in 1 .. j - i : w[m] = b[s + i + m]
    BY <1>3
  <2>3. \A m \in 1 .. j - i : i + m \in 1 .. f - s /\ s + (i + m) = s + i + m
    BY <1>3
  <2>4. \A m \in 1 .. j - i : v[m] = w[m]
    BY <1>1, <2>1, <2>2, <2>3
  <2>. HIDE DEF v, w
  <2>5. v = w
    BY <2>1, <2>2, <2>4, SeqEqual
  <2>. QED  BY <2>5 DEF v, w
<1>. QED  BY <1>2, <1>3

(* What feed emits of a buffer that begins with a delimiter.                *)
Units(b) == [m \in 1 .. Len(Cuts(b)) - 1 |-> SubSeq(b, Cuts(b)[m] + 1, Cuts(b)[m + 1])]

(* The loop cuts at every delimiter seen: it emits the pictures before the  *)
(* last of these, whole, and keeps what there is of that one.               *)
LEMMA PicturesCut ==
  ASSUME Layout, Delimited, NEW f \in 0 .. Len(bytes),
         NEW k \in 1 .. Len(starts), starts[k] + 4 < f
  PROVE  \A b : b = SubSeq(bytes, starts[k] + 1, f) =>
           \E u \in k .. Len(starts) :
             /\ LastSeen(u, f)
             /\ Units(b) = SubSeq(pictures, k, u - 1)
             /\ From(b, Cuts(b)[Len(Cuts(b))]) = SubSeq(bytes, starts[u] + 1, f)
<1>1. f \in Nat /\ Len(starts) \in Nat /\ k \in Nat
  BY StartFacts
<1>2. bytes \in Seq(Byte) /\ f <= Len(bytes)
  BY StartFacts DEF Layout
<1>3. PICK u \in k .. Len(starts) : LastSeen(u, f)
  BY <1>1, LastSeenExists
<1>4. u \in Nat /\ k <= u
  BY <1>1
<1>5. \A v \in k .. u : starts[v] \in Nat /\ starts[k] <= starts[v] /\ starts[v] + 4 < f
  <2>. SUFFICES ASSUME NEW v \in k .. u
                PROVE  starts[v] \in Nat /\ starts[k] <= starts[v] /\ starts[v] + 4 < f
    OBVIOUS
  <2>1. v \in 1 .. Len(starts) /\ u \in 1 .. Len(starts) /\ v \in Nat
    BY <1>1
  <2>2. starts[v] \in Nat /\ starts[k] \in Nat /\ starts[u] \in Nat /\ starts[u] + 4 < f
    BY <1>3, <2>1, StartFacts DEF LastSeen
  <2>3. k < v => starts[k] + 5 <= starts[v]
    BY <2>1, StartsIncrease
  <2>4. v < u => starts[v] + 5 <= starts[u]
    BY <2>1, StartsIncrease
  <2>5. (k < v \/ k = v) /\ (v < u \/ v = u)
    BY <1>1, <2>1
  <2>6. starts[k] <= starts[v]
    BY SMTT(30), <2>2, <2>3, <2>5
  <2>7. starts[v] <= starts[u]
    BY SMTT(30), <2>2, <2>4, <2>5
  <2>. QED  BY <1>1, <2>2, <2>6, <2>7
<1>0. SUFFICES ASSUME NEW s, s = starts[k], NEW b, b = SubSeq(bytes, s + 1, f)
               PROVE  /\ Units(b) = SubSeq(pictures, k, u - 1)
                      /\ From(b, Cuts(b)[Len(Cuts(b))]) = SubSeq(bytes, starts[u] + 1, f)
  BY <1>3
<1>. DEFINE c == [m \in 1 .. u - k + 1 |-> starts[k + m - 1] - s]
<1>6. s \in Nat /\ s <= f /\ k \in k .. u /\ u \in k .. u
  BY <1>0, <1>1, <1>4, <1>5
<1>p. \A i, j \in Nat : j <= f - s => SubSeq(b, i + 1, j) = SubSeq(bytes, s + i + 1, s + j)
  <2>1. \A i, j \in Nat : j <= f - s =>
          SubSeq(SubSeq(bytes, s + 1, f), i + 1, j) = SubSeq(bytes, s + i + 1, s + j)
    BY <1>1, <1>2, <1>6, PartOfWindow
  <2>. QED  BY <1>0, <2>1
<1>7. \A m \in 1 .. u - k + 1 : k + m - 1 \in k .. u
  BY <1>1, <1>4
<1>8. \A m \in 1 .. u - k + 1 : c[m] \in Nat /\ s + c[m] = starts[k + m - 1] /\ c[m] + 4 < f - s
  <2>. SUFFICES ASSUME NEW m \in 1 .. u - k + 1
                PROVE  c[m] \in Nat /\ s + c[m] = starts[k + m - 1] /\ c[m] + 4 < f - s
    OBVIOUS
  <2>1. starts[k + m - 1] \in Nat /\ s <= starts[k + m - 1] /\ starts[k + m - 1] + 4 < f
    BY <1>0, <1>5, <1>7
  <2>2. c[m] = starts[k + m - 1] - s
    OBVIOUS
  <2>. HIDE DEF c
  <2>. QED  BY SMTT(30), <1>1, <1>6, <2>1, <2>2
<1>9. c \in Seq(Nat) /\ Len(c) = u - k + 1 /\ u - k + 1 \in Nat \ {0}
  <2>1. u - k + 1 \in Nat \ {0}
    BY <1>1, <1>4
  <2>2. c \in [1 .. u - k + 1 -> Nat]
    BY <1>8
  <2>. HIDE DEF c
  <2>. QED  BY <2>1, <2>2, SeqDef
<1>. HIDE DEF c
<1>10. Cuts(b) = c
  <2>1. b \in Seq(Byte)
    BY SMTT(30), <1>0, <1>1, <1>2, <1>6
  <2>2. c # <<>>
    BY <1>9
  <2>3. c[1] = 0
    <3>1. 1 \in 1 .. u - k + 1 /\ k + 1 - 1 = k
      BY <1>1, <1>4
    <3>2. c[1] \in Nat /\ s + c[1] = starts[k + 1 - 1]
      BY <1>8, <3>1
    <3>3. s + c[1] = s
      BY <1>0, <3>1, <3>2
    <3>. QED  BY <1>6, <3>2, <3>3
  <2>4. ASSUME NEW m \in 1 .. Len(c) - 1
        PROVE  NextCut(b, c[m]) = c[m + 1]
    <3>1. m \in 1 .. u - k + 1 /\ m + 1 \in 1 .. u - k + 1 /\ k + (m + 1) - 1 = (k + m - 1) + 1
          /\ k + m - 1 \in k .. u /\ k + m - 1 < u
      BY <1>1, <1>4, <1>9
    <3>2. NextCut(b, starts[k + m - 1] - s) = starts[(k + m - 1) + 1] - s
      BY <1>0, <1>3, <3>1, NextFound
    <3>. QED  BY <3>1, <3>2 DEF c
  <2>5. NextCut(b, c[Len(c)]) = NoAud
    <3>1. u - k + 1 \in 1 .. u - k + 1 /\ k + (u - k + 1) - 1 = u
      BY <1>1, <1>4
    <3>2. NextCut(b, starts[u] - s) = NoAud
      BY <1>0, <1>3, <1>6, NextFound
    <3>. QED  BY <1>9, <3>1, <3>2 DEF c
  <2>. QED  BY <2>1, <2>2, <2>3, <2>4, <2>5, <1>9, CutsAre
<1>11. From(b, c[Len(c)]) = SubSeq(bytes, starts[u] + 1, f)
  <2>1. u - k + 1 \in 1 .. u - k + 1 /\ k + (u - k + 1) - 1 = u
    BY <1>1, <1>4
  <2>2. c[Len(c)] \in Nat /\ s + c[Len(c)] = starts[u] /\ s + (f - s) = f /\ f - s \in Nat
    BY <1>1, <1>6, <1>8, <1>9, <2>1
  <2>3. Len(b) = f - s
    BY SMTT(30), <1>0, <1>1, <1>2, <1>6
  <2>4. SubSeq(b, c[Len(c)] + 1, f - s) = SubSeq(bytes, s + c[Len(c)] + 1, s + (f - s))
    <3>1. f - s <= f - s
      BY <2>2
    <3>. QED  BY <1>p, <2>2, <3>1
  <2>. QED  BY <2>2, <2>3, <2>4 DEF From
<1>12. [m \in 1 .. Len(c) - 1 |-> SubSeq(b, c[m] + 1, c[m + 1])] = SubSeq(pictures, k, u - 1)
  <2>1. ASSUME NEW m \in 1 .. u - k
        PROVE  SubSeq(b, c[m] + 1, c[m + 1]) = pictures[k + m - 1]
    <3>1. m \in 1 .. u - k + 1 /\ m + 1 \in 1 .. u - k + 1 /\ k + (m + 1) - 1 = (k + m - 1) + 1
          /\ k + m - 1 \in k .. u /\ k + m - 1 < u
          /\ k + m - 1 \in 1 .. Len(starts) /\ k + m - 1 < Len(starts)
      BY <1>1, <1>4
    <3>2. c[m] \in Nat /\ c[m + 1] \in Nat /\ c[m + 1] + 4 < f - s
          /\ s + c[m] = starts[k + m - 1] /\ s + c[m + 1] = starts[(k + m - 1) + 1]
      BY <1>8, <3>1
    <3>3. SubSeq(b, c[m] + 1, c[m + 1]) = SubSeq(bytes, s + c[m] + 1, s + c[m + 1])
      <4>1. c[m + 1] <= f - s
        BY <1>1, <1>6, <3>2
      <4>. QED  BY <1>p, <3>2, <4>1
    <3>4. pictures[k + m - 1] = SubSeq(bytes, starts[k + m - 1] + 1, starts[(k + m - 1) + 1])
      BY <3>1 DEF Layout, EndOf
    <3>. QED  BY <3>2, <3>3, <3>4
  <2>2. /\ pictures \in Seq(Pictures) /\ Len(pictures) = Len(starts)
        /\ k \in 1 .. Len(pictures) /\ u - 1 \in 0 .. Len(pictures)
    BY <1>1, <1>4 DEF Layout
  <2>3. \A m \in k .. u - 1 : pictures[m] \in Pictures
    BY <1>1, <2>2
  <2>4. /\ SubSeq(pictures, k, u - 1) \in Seq(Pictures)
        /\ Len(SubSeq(pictures, k, u - 1)) = u - k
        /\ \A m \in 1 .. u - k : SubSeq(pictures, k, u - 1)[m] = pictures[k + m - 1]
    <3>1. k \in Int /\ u - 1 \in Int /\ u - 1 - k + 1 = u - k /\ (k <= u - 1 \/ u - k = 0)
      BY <1>1, <1>4
    <3>. QED  BY <2>3, <3>1, SubSeqProperties
  <2>5. SubSeq(pictures, k, u - 1) = [m \in 1 .. u - k |-> SubSeq(pictures, k, u - 1)[m]]
    BY <2>4, LenProperties
  <2>6. Len(c) - 1 = u - k
    BY <1>1, <1>4, <1>9
  <2>. QED  BY ZenonT(40), <2>1, <2>4, <2>5, <2>6
<1>. QED  BY <1>10, <1>11, <1>12 DEF Units

----------------------------------------------------------------------------
(* The invariant is inductive.                                              *)

LEMMA NoAudIsNoOffset == NoAud # 0
  BY DEF NoAud

LEMMA InitInv == AuInit => IInv
<1>. SUFFICES ASSUME AuInit
              PROVE  IInv
  OBVIOUS
<1>1. Layout /\ Delimited
  BY StreamBegins
<1>2. Reader
  <2>1. fed = 0 /\ buf = <<>> /\ current_au_start = NoAud /\ emitted = <<>> /\ stream_ended = FALSE
    BY DEF AuInit, NewParser
  <2>2. starts = <<>> /\ Len(bytes) \in Nat /\ Len(starts) = 0
    BY <1>1, StartFacts DEF AuInit
  <2>3. NoneSeen
    BY <2>2 DEF NoneSeen
  <2>4. Window(0) = <<>>
    BY <2>1, SubSeqEmpty DEF Window
  <2>5. Waiting
    BY <2>1, <2>3, <2>4 DEF Waiting
  <2>6. fed \in 0 .. Len(bytes)
    BY <2>1, <2>2
  <2>. QED  BY <2>1, <2>5, <2>6 DEF Reader
<1>. QED  BY <1>1, <1>2 DEF IInv

(* What was read of the stream does not change when more is written.        *)
LEMMA WriteKeepsReader ==
  ASSUME IInv, WritePicture
  PROVE  Reader'
<1>1. Layout /\ Delimited /\ Reader
  BY DEF IInv
<1>2. PICK p \in Pictures : pictures' = Append(pictures, p) /\ bytes' = bytes \o p
  BY DEF WritePicture
<1>3. p \in Seq(Byte) /\ Len(p) \in Nat
  BY AuAssumption DEF IsPicture
<1>4. /\ starts' = Append(starts, Len(bytes)) /\ stream_ended = FALSE
      /\ fed' = fed /\ buf' = buf /\ current_au_start' = current_au_start
      /\ emitted' = emitted /\ stream_ended' = stream_ended
  BY DEF WritePicture
<1>5. Len(bytes') = Len(bytes) + Len(p) /\ Len(bytes) \in Nat /\ fed \in 0 .. Len(bytes)
  BY <1>1, <1>2, <1>3 DEF Layout, Reader
<1>6. fed' \in 0 .. Len(bytes')
  BY <1>3, <1>4, <1>5
<1>7. /\ Len(starts) \in Nat /\ Len(starts') = Len(starts) + 1
      /\ \A u \in 1 .. Len(starts) : starts'[u] = starts[u]
      /\ starts'[Len(starts) + 1] = Len(bytes)
  BY <1>1, <1>4, <1>5 DEF Layout
<1>8. \A i \in Nat : i <= fed => SubSeq(bytes', i + 1, fed) = SubSeq(bytes, i + 1, fed)
  <2>. SUFFICES ASSUME NEW i \in Nat, i <= fed
                PROVE  SubSeq(bytes', i + 1, fed) = SubSeq(bytes, i + 1, fed)
    OBVIOUS
  <2>1. CASE i = fed
    BY <2>1, <1>5, SubSeqEmpty
  <2>2. CASE i < fed
    <3>1. i + 1 \in 1 .. Len(bytes) /\ fed \in 1 .. Len(bytes)
      BY <1>5, <2>2
    <3>. QED  BY <1>1, <1>2, <1>3, <3>1, SubSeqOfConcat1 DEF Layout
  <2>. QED  BY <1>5, <2>1, <2>2
<1>9. CASE current_au_start = NoAud
  <2>1. NoneSeen /\ buf = SubSeq(bytes, 0 + 1, fed) /\ emitted = <<>>
    BY <1>1, <1>4, <1>9 DEF Reader, Waiting, Window
  <2>2. NoneSeen'
    <3>1. fed <= Len(bytes) + 4
      BY <1>5
    <3>2. \A u \in 1 .. Len(starts) + 1 : u \in 1 .. Len(starts) \/ u = Len(starts) + 1
      BY <1>7
    <3>. QED  BY <1>4, <1>7, <2>1, <3>1, <3>2 DEF NoneSeen
  <2>3. buf' = Window(0)'
    <3>1. SubSeq(bytes', 0 + 1, fed) = SubSeq(bytes, 0 + 1, fed)
      BY <1>5, <1>8
    <3>. QED  BY <1>4, <2>1, <3>1 DEF Window
  <2>4. Waiting'
    BY <1>4, <2>1, <2>2, <2>3 DEF Waiting
  <2>. QED  BY <1>1, <1>4, <1>6, <1>9, <2>4 DEF Reader
<1>10. CASE current_au_start = 0
  <2>1. PICK u \in 1 .. Len(starts) :
          Current(u) /\ buf = Window(starts[u]) /\ emitted = SubSeq(pictures, 1, u - 1)
    BY <1>1, <1>4, <1>10, NoAudIsNoOffset DEF Reader, Gathering
  <2>2. starts'[u] = starts[u] /\ starts[u] \in Nat /\ starts[u] + 4 < fed /\ u \in 1 .. Len(starts')
    BY <1>1, <1>7, <2>1, StartFacts DEF Current, LastSeen
  <2>3. \A v \in u + 1 .. Len(starts) + 1 : fed <= starts'[v] + 4
    <3>1. \A v \in u + 1 .. Len(starts) + 1 :
            (v \in u + 1 .. Len(starts) /\ v \in 1 .. Len(starts)) \/ v = Len(starts) + 1
      BY <1>7
    <3>2. fed <= Len(bytes) + 4
      BY <1>5
    <3>3. \A v \in u + 1 .. Len(starts) : fed <= starts[v] + 4
      BY <2>1 DEF Current, LastSeen
    <3>. QED  BY <1>7, <3>1, <3>2, <3>3
  <2>4. Current(u)'
    BY <1>4, <1>7, <2>2, <2>3 DEF Current, LastSeen
  <2>5. buf' = Window(starts[u])'
    <3>1. starts[u] <= fed
      BY <2>2, <1>5
    <3>. QED  BY <1>4, <1>8, <2>1, <2>2, <3>1 DEF Window
  <2>6. emitted' = SubSeq(pictures', 1, u - 1)
    <3>1. pictures \in Seq(Pictures) /\ Len(pictures) = Len(starts)
      BY <1>1 DEF Layout
    <3>2. SubSeq(pictures', 1, u - 1) = SubSeq(pictures, 1, u - 1)
      BY <1>2, <1>7, <3>1
    <3>. QED  BY <1>4, <2>1, <3>2
  <2>7. Gathering'
    BY <1>4, <2>2, <2>4, <2>5, <2>6 DEF Gathering
  <2>. QED  BY <1>1, <1>4, <1>6, <1>10, <2>7, NoAudIsNoOffset DEF Reader
<1>. QED  BY <1>1, <1>9, <1>10 DEF Reader

(* Once a delimiter is at the front of the buffer, feed goes on from        *)
(* picture to picture.                                                      *)
LEMMA FeedFromPicture ==
  ASSUME Layout, Delimited, NEW f \in 0 .. Len(bytes),
         NEW k \in 1 .. Len(starts), starts[k] + 4 < f,
         NEW b, b = SubSeq(bytes, starts[k] + 1, f)
  PROVE  \E u \in 1 .. Len(starts) :
           /\ LastSeen(u, f)
           /\ SubSeq(pictures, 1, k - 1) \o Units(b) = SubSeq(pictures, 1, u - 1)
           /\ From(b, Cuts(b)[Len(Cuts(b))]) = SubSeq(bytes, starts[u] + 1, f)
<1>1. PICK u \in k .. Len(starts) :
        /\ LastSeen(u, f)
        /\ Units(b) = SubSeq(pictures, k, u - 1)
        /\ From(b, Cuts(b)[Len(Cuts(b))]) = SubSeq(bytes, starts[u] + 1, f)
  BY ZenonT(40), PicturesCut
<1>2. /\ pictures \in Seq(Pictures) /\ Len(pictures) = Len(starts) /\ Len(starts) \in Nat
  BY DEF Layout
<1>3. /\ 1 \in 1 .. Len(pictures) + 1 /\ k - 1 \in 1 - 1 .. Len(pictures)
      /\ u - 1 \in k - 1 .. Len(pictures) /\ (k - 1) + 1 = k /\ u \in 1 .. Len(starts)
  BY <1>2
<1>4. SubSeq(pictures, 1, k - 1) \o SubSeq(pictures, (k - 1) + 1, u - 1) = SubSeq(pictures, 1, u - 1)
  BY <1>2, <1>3, ConcatAdjacentSubSeq
<1>. QED  BY <1>1, <1>3, <1>4

LEMMA ReadKeepsReader ==
  ASSUME IInv, ReadChunk
  PROVE  Reader'
<1>1. Layout /\ Delimited /\ Reader
  BY DEF IInv
<1>2. /\ bytes' = bytes /\ starts' = starts /\ pictures' = pictures
      /\ stream_ended' = stream_ended /\ stream_ended = FALSE
  BY DEF ReadChunk
<1>3. PICK n \in ChunkSizes :
        /\ fed' = IF fed + n < Len(bytes) THEN fed + n ELSE Len(bytes)
        /\ feed(SubSeq(bytes, fed + 1, fed'))
  BY DEF ReadChunk
<1>4. n \in Nat /\ fed \in 0 .. Len(bytes) /\ Len(bytes) \in Nat /\ bytes \in Seq(Byte)
  BY <1>1, AuAssumption, StartFacts DEF Reader, Layout
<1>0. SUFFICES ASSUME NEW f, f = fed', NEW all, all = buf \o SubSeq(bytes, fed + 1, f)
               PROVE  Reader'
  OBVIOUS
<1>5. f \in 0 .. Len(bytes) /\ f \in Nat /\ fed <= f /\ f <= Len(bytes)
  BY <1>0, <1>3, <1>4
<1>6. \A i \in 0 .. fed : SubSeq(bytes, i + 1, fed) \o SubSeq(bytes, fed + 1, f) = SubSeq(bytes, i + 1, f)
  <2>. SUFFICES ASSUME NEW i \in 0 .. fed
                PROVE  SubSeq(bytes, i + 1, fed) \o SubSeq(bytes, fed + 1, f) = SubSeq(bytes, i + 1, f)
    OBVIOUS
  <2>1. i + 1 \in 1 .. Len(bytes) + 1 /\ fed \in (i + 1) - 1 .. Len(bytes) /\ f \in fed .. Len(bytes)
    BY <1>4, <1>5
  <2>. QED  BY <1>4, <2>1, ConcatAdjacentSubSeq
<1>z. SubSeq(bytes, 0 + 1, fed) \o SubSeq(bytes, fed + 1, f) = SubSeq(bytes, 0 + 1, f)
  <2>1. 0 \in 0 .. fed
    BY <1>4
  <2>. QED  BY <1>6, <2>1
<1>7. \A i \in Nat : i <= f => From(SubSeq(bytes, 1, f), i) = SubSeq(bytes, i + 1, f)
  <2>. SUFFICES ASSUME NEW i \in Nat, i <= f
                PROVE  From(SubSeq(bytes, 1, f), i) = SubSeq(bytes, i + 1, f)
    OBVIOUS
  <2>1. Len(SubSeq(bytes, 1, f)) = f
    BY <1>4, <1>5
  <2>2. SubSeq(SubSeq(bytes, 0 + 1, f), i + 1, f) = SubSeq(bytes, 0 + i + 1, 0 + f)
    <3>1. 0 \in Nat /\ 0 <= f /\ f <= f - 0
      BY <1>5
    <3>. QED  BY <1>4, <1>5, <3>1, PartOfWindow
  <2>3. 0 + 1 = 1 /\ 0 + i + 1 = i + 1 /\ 0 + f = f
    BY <1>5
  <2>. QED  BY <2>1, <2>2, <2>3 DEF From
<1>. DEFINE first == IF current_au_start = NoAud THEN find_aud(all, 0) ELSE 0
            b == From(all, first)
<1>8. /\ first = NoAud => buf' = all /\ current_au_start' = current_au_start /\ emitted' = emitted
      /\ first # NoAud => /\ emitted' = emitted \o Units(b)
                          /\ buf' = From(b, Cuts(b)[Len(Cuts(b))])
                          /\ current_au_start' = 0
  BY <1>0, <1>3 DEF feed, Units
<1>9. ASSUME first = NoAud
      PROVE  Reader'
  <2>1. current_au_start = NoAud
    BY <1>9, NoAudIsNoOffset
  <2>2. NoneSeen /\ buf = SubSeq(bytes, 0 + 1, fed) /\ emitted = <<>>
    BY <1>1, <1>2, <2>1 DEF Reader, Waiting, Window
  <2>3. all = SubSeq(bytes, 0 + 1, f)
    BY <1>0, <1>z, <2>2
  <2>4. find_aud(SubSeq(bytes, 1, f), 0) = NoAud
    BY <1>9, <2>1, <2>3
  <2>5. \A u \in 1 .. Len(starts) : f <= starts[u] + 4
    <3>1. ~(Len(starts) >= 1 /\ NoAud = starts[1])
      <4>1. Len(starts) >= 1 => starts[1] \in Nat
        BY <1>1, StartFacts
      <4>. QED  BY <4>1 DEF NoAud
    <3>. QED  BY <1>1, <1>5, <2>4, <3>1, FirstFound
  <2>6. Waiting'
    BY <1>0, <1>2, <1>8, <1>9, <2>2, <2>3, <2>5 DEF Waiting, NoneSeen, Window
  <2>. QED  BY <1>0, <1>2, <1>5, <1>8, <1>9, <2>1, <2>6 DEF Reader
<1>10. ASSUME first # NoAud
       PROVE  Reader'
  <2>1. PICK k \in 1 .. Len(starts) :
          starts[k] + 4 < f /\ b = SubSeq(bytes, starts[k] + 1, f) /\ emitted = SubSeq(pictures, 1, k - 1)
    <3>1. CASE current_au_start = NoAud
      <4>1. buf = SubSeq(bytes, 0 + 1, fed) /\ emitted = <<>>
        BY <1>1, <1>2, <3>1 DEF Reader, Waiting, Window
      <4>2. all = SubSeq(bytes, 0 + 1, f)
        BY <1>0, <1>z, <4>1
      <4>3. first = find_aud(SubSeq(bytes, 1, f), 0)
        BY <3>1, <4>2
      <4>4. Len(starts) >= 1 /\ first = starts[1] /\ starts[1] + 4 < f
        BY <1>1, <1>5, <1>10, <4>3, FirstFound
      <4>5. 1 \in 1 .. Len(starts) /\ starts[1] \in Nat /\ starts[1] <= f
        BY <1>1, <1>5, <4>4, StartFacts
      <4>6. b = SubSeq(bytes, starts[1] + 1, f)
        BY <1>7, <4>2, <4>4, <4>5
      <4>7. emitted = SubSeq(pictures, 1, 1 - 1)
        BY <4>1, SubSeqEmpty
      <4>. QED  BY <4>4, <4>5, <4>6, <4>7
    <3>2. CASE current_au_start # NoAud
      <4>1. PICK k \in 1 .. Len(starts) :
              Current(k) /\ buf = Window(starts[k]) /\ emitted = SubSeq(pictures, 1, k - 1)
        BY <1>1, <1>2, <3>2 DEF Reader, Gathering
      <4>2. starts[k] \in Nat /\ starts[k] + 4 < fed
        BY <1>1, <4>1, StartFacts DEF Current, LastSeen
      <4>3. starts[k] \in 0 .. fed /\ starts[k] + 4 < f /\ starts[k] <= f
        BY <1>4, <1>5, <4>2
      <4>4. all = SubSeq(bytes, starts[k] + 1, f)
        BY <1>0, <1>6, <4>1, <4>3 DEF Window
      <4>5. b = all
        <5>1. \A m \in starts[k] + 1 .. f : bytes[m] \in Byte
          BY <1>4, <1>5, <4>2
        <5>2. SubSeq(bytes, starts[k] + 1, f) \in Seq(Byte)
          BY <1>5, <4>2, <5>1, SubSeqProperties
        <5>3. all \in Seq(Byte)
          BY <4>4, <5>2
        <5>4. b = From(all, 0)
          BY <3>2
        <5>5. From(all, 0) = SubSeq(all, 1, Len(all))
          BY DEF From
        <5>. QED  BY <5>3, <5>4, <5>5, SubSeqFull
      <4>. QED  BY <4>1, <4>3, <4>4, <4>5
    <3>. QED  BY <3>1, <3>2
  <2>. HIDE DEF b
  <2>. HIDE DEF first
  <2>2. PICK u \in 1 .. Len(starts) :
          /\ LastSeen(u, f)
          /\ SubSeq(pictures, 1, k - 1) \o Units(b) = SubSeq(pictures, 1, u - 1)
          /\ From(b, Cuts(b)[Len(Cuts(b))]) = SubSeq(bytes, starts[u] + 1, f)
    BY ZenonT(40), <1>1, <1>5, <2>1, FeedFromPicture
  <2>3. emitted' = SubSeq(pictures, 1, u - 1) /\ buf' = SubSeq(bytes, starts[u] + 1, f)
    BY <1>8, <1>10, <2>1, <2>2
  <2>4. Gathering'
    BY <1>0, <1>2, <2>2, <2>3 DEF Gathering, Current, LastSeen, Window
  <2>. QED  BY <1>0, <1>2, <1>5, <1>8, <1>10, <2>4, NoAudIsNoOffset DEF Reader
<1>. QED  BY <1>9, <1>10

LEMMA EndKeepsReader ==
  ASSUME IInv, ReadEnd
  PROVE  Reader'
<1>1. Layout /\ Delimited /\ Reader
  BY DEF IInv
<1>2. /\ bytes' = bytes /\ starts' = starts /\ pictures' = pictures /\ fed' = fed
      /\ stream_ended' = TRUE /\ stream_ended = FALSE /\ current_au_start' = NoAud
      /\ emitted' = IF current_au_start # NoAud /\ buf # <<>> THEN Append(emitted, buf) ELSE emitted
  BY <1>1 DEF ReadEnd, finish, Reader
<1>3. Finished'
  <2>1. CASE current_au_start = NoAud
    <3>1. NoneSeen /\ emitted = <<>>
      BY <1>1, <1>2, <2>1 DEF Reader, Waiting
    <3>2. NoneSeen' /\ emitted' = <<>>
      BY <1>2, <2>1, <3>1 DEF NoneSeen
    <3>. QED  BY <3>2 DEF Finished
  <2>2. CASE current_au_start # NoAud
    <3>1. PICK u \in 1 .. Len(starts) :
            Current(u) /\ buf = Window(starts[u]) /\ emitted = SubSeq(pictures, 1, u - 1)
      BY <1>1, <1>2, <2>2 DEF Reader, Gathering
    <3>2. starts[u] \in Nat /\ starts[u] + 4 < fed /\ fed \in Nat /\ fed <= Len(bytes)
      BY <1>1, <3>1, StartFacts DEF Current, LastSeen, Reader
    <3>3. Len(Window(starts[u])) # 0
      BY SMTT(30), <1>1, <3>2 DEF Window, Layout
    <3>4. emitted' = Append(SubSeq(pictures, 1, u - 1), Window(starts[u]))
      BY <1>2, <2>2, <3>1, <3>3
    <3>5. Current(u)' /\ Window(starts[u])' = Window(starts[u])
      BY <1>2, <3>1 DEF Current, LastSeen, Window
    <3>. QED  BY <1>2, <3>4, <3>5 DEF Finished
  <2>. QED  BY <2>1, <2>2
<1>. QED  BY <1>1, <1>2, <1>3 DEF Reader

LEMMA StepInv == IInv /\ [AuNext]_auVars => IInv'
<1>. SUFFICES ASSUME IInv, [AuNext]_auVars
              PROVE  IInv'
  OBVIOUS
<1>1. CASE WritePicture
  BY <1>1, StreamGrows, WriteKeepsReader DEF IInv
<1>2. ASSUME ReadChunk \/ ReadEnd
      PROVE  Layout' /\ Delimited'
  BY <1>2 DEF ReadChunk, ReadEnd, IInv, Layout, Delimited, EndOf
<1>3. CASE ReadChunk
  BY <1>2, <1>3, ReadKeepsReader DEF IInv
<1>4. CASE ReadEnd
  BY <1>2, <1>4, EndKeepsReader DEF IInv
<1>5. CASE UNCHANGED auVars
  <2>1. Layout' /\ Delimited'
    BY <1>5 DEF IInv, Layout, Delimited, EndOf, auVars
  <2>2. Reader'
    BY <1>5 DEF IInv, Reader, Waiting, Gathering, Finished, Current, LastSeen, NoneSeen, Window, auVars
  <2>. QED  BY <2>1, <2>2 DEF IInv
<1>. QED  BY <1>1, <1>3, <1>4, <1>5 DEF AuNext

(* While the u-th picture is the last one seen, those before it are due.    *)
LEMMA DueBefore ==
  ASSUME Layout, Delimited, NEW u \in 1 .. Len(starts), LastSeen(u, fed), fed \in Nat
  PROVE  Cardinality(Due) = u - 1
<1>1. Len(starts) \in Nat /\ Len(pictures) = Len(starts) /\ u \in Nat
  BY StartFacts DEF Layout
<1>2. ASSUME NEW w \in 1 .. Len(starts) - 1
      PROVE  starts[w + 1] + 5 <= fed <=> w \in 1 .. u - 1
  <2>1. w + 1 \in 1 .. Len(starts) /\ w \in Nat
    BY <1>1
  <2>2. starts[w + 1] \in Nat /\ starts[u] \in Nat /\ starts[u] + 4 < fed
    BY <2>1, StartFacts DEF LastSeen
  <2>3. CASE w + 1 <= u
    <3>1. w + 1 < u => starts[w + 1] + 5 <= starts[u]
      BY <2>1, StartsIncrease
    <3>2. starts[w + 1] <= starts[u]
      BY SMTT(30), <1>1, <2>1, <2>2, <2>3, <3>1
    <3>3. w \in 1 .. u - 1
      BY <1>1, <2>1, <2>3
    <3>. QED  BY <2>2, <3>2, <3>3
  <2>4. CASE u < w + 1
    <3>1. w + 1 \in u + 1 .. Len(starts)
      BY <1>1, <2>1, <2>4
    <3>2. fed <= starts[w + 1] + 4
      BY <3>1 DEF LastSeen
    <3>3. w \notin 1 .. u - 1
      BY <1>1, <2>1, <2>4
    <3>. QED  BY <2>2, <3>2, <3>3
  <2>. QED  BY <1>1, <2>1, <2>3, <2>4
<1>3. Due = 1 .. u - 1
  <2>1. 1 .. u - 1 \subseteq 1 .. Len(starts) - 1
    BY <1>1
  <2>2. Due = {w \in 1 .. Len(starts) - 1 : starts[w + 1] + 5 <= fed}
    BY <1>1 DEF Due
  <2>. QED  BY <1>2, <2>1, <2>2
<1>4. 1 \in Int /\ u - 1 \in Int /\ (1 > u - 1 => u - 1 = 0) /\ u - 1 - 1 + 1 = u - 1
  BY <1>1
<1>. QED  BY <1>3, <1>4, FS_Interval

LEMMA NoneDue ==
  ASSUME Layout, Delimited, NoneSeen, fed \in Nat
  PROVE  Cardinality(Due) = 0
<1>1. Len(starts) \in Nat /\ Len(pictures) = Len(starts)
  BY StartFacts DEF Layout
<1>2. \A w \in 1 .. Len(starts) - 1 : ~(starts[w + 1] + 5 <= fed)
  <2>1. \A w \in 1 .. Len(starts) - 1 : w + 1 \in 1 .. Len(starts)
    BY <1>1
  <2>2. \A v \in 1 .. Len(starts) : starts[v] \in Nat /\ fed <= starts[v] + 4
    BY StartFacts DEF NoneSeen
  <2>. QED  BY <2>1, <2>2
<1>3. Due = {}
  BY <1>1, <1>2 DEF Due
<1>. QED  BY <1>3, FS_EmptySet

LEMMA PrefixItself ==
  ASSUME NEW S, NEW s \in Seq(S)
  PROVE  IsPrefix(s, s)
  BY DEF IsPrefix

LEMMA PrefixOfAppend ==
  ASSUME NEW S, NEW s \in Seq(S), NEW e \in S
  PROVE  IsPrefix(s, Append(s, e)) /\ Len(Append(s, e)) = Len(s) + 1
<1>1. /\ Append(s, e) \in Seq(S) /\ Len(Append(s, e)) = Len(s) + 1
      /\ \A i \in 1 .. Len(s) : Append(s, e)[i] = s[i]
  BY AppendProperties
<1>2. SubSeq(Append(s, e), 1, Len(s)) = SubSeq(s, 1, Len(s))
  BY <1>1
<1>. QED  BY <1>1, <1>2 DEF IsPrefix

LEMMA InvUnits == IInv => UnitsArePictures
<1>. SUFFICES ASSUME IInv
              PROVE  UnitsArePictures
  OBVIOUS
<1>1. Layout /\ Delimited /\ Reader
  BY DEF IInv
<1>2. fed \in Nat /\ stream_ended \in BOOLEAN /\ Len(bytes) \in Nat
  BY <1>1, StartFacts DEF Reader
<1>3. /\ pictures \in Seq(Pictures) /\ Len(pictures) = Len(starts) /\ Len(starts) \in Nat
      /\ bytes \in Seq(Byte)
  BY <1>1 DEF Layout
<1>4. Pictures \subseteq Seq(Byte)
  BY AuAssumption DEF IsPicture
<1>5. pictures \in Seq(Seq(Byte))
  BY <1>3, <1>4, SeqMonotonic
<1>6. ASSUME NoneSeen, emitted = <<>>
      PROVE  UnitsArePictures
  <2>1. Cardinality(Due) = 0
    BY <1>1, <1>2, <1>6, NoneDue
  <2>2. SubSeq(pictures, 1, 0) = <<>>
    BY SubSeqEmpty
  <2>3. IsPrefix(<<>>, <<>>) /\ Len(emitted) = 0
    BY <1>6, PrefixItself, EmptySeq
  <2>4. fed = Len(bytes) => emitted = pictures
    <3>1. fed = Len(bytes) => ~(1 \in 1 .. Len(starts))
      BY <1>1, <1>2, <1>6, StartFacts DEF NoneSeen
    <3>2. fed = Len(bytes) => Len(pictures) = 0
      BY <1>3, <3>1
    <3>. QED  BY <1>3, <1>6, <3>2, EmptySeq
  <2>5. IsPrefix(SubSeq(pictures, 1, 0), emitted)
    BY <1>6, <2>2, <2>3
  <2>6. Len(emitted) <= 0 + (IF stream_ended THEN 1 ELSE 0)
    BY <2>3
  <2>. QED  BY <2>1, <2>4, <2>5, <2>6 DEF UnitsArePictures
<1>7. ASSUME NEW u \in 1 .. Len(starts), Current(u)
      PROVE  /\ Cardinality(Due) = u - 1 /\ u - 1 \in Nat /\ u - 1 \in 0 .. Len(pictures)
             /\ SubSeq(pictures, 1, u - 1) \in Seq(Seq(Byte))
             /\ Len(SubSeq(pictures, 1, u - 1)) = u - 1
  <2>1. Cardinality(Due) = u - 1
    BY <1>1, <1>2, <1>7, DueBefore DEF Current
  <2>2. u - 1 \in Nat /\ u - 1 \in 0 .. Len(pictures)
    BY <1>3
  <2>. QED  BY <1>5, <2>1, <2>2
<1>8. ASSUME NEW u \in 1 .. Len(starts), Current(u), emitted = SubSeq(pictures, 1, u - 1), ~stream_ended
      PROVE  UnitsArePictures
  <2>1. IsPrefix(emitted, emitted) /\ Len(emitted) = u - 1
    BY <1>7, <1>8, PrefixItself
  <2>. QED  BY <1>7, <1>8, <2>1 DEF UnitsArePictures
<1>9. ASSUME NEW u \in 1 .. Len(starts), Current(u), stream_ended,
             emitted = Append(SubSeq(pictures, 1, u - 1), Window(starts[u]))
      PROVE  UnitsArePictures
  <2>1. starts[u] \in Nat /\ starts[u] + 4 < fed /\ fed <= Len(bytes)
    BY <1>1, <1>9, StartFacts DEF Current, LastSeen, Reader
  <2>2. Window(starts[u]) \in Seq(Byte)
    <3>1. \A m \in starts[u] + 1 .. fed : bytes[m] \in Byte
      BY <1>2, <1>3, <2>1
    <3>. QED  BY <1>2, <2>1, <3>1, SubSeqProperties DEF Window
  <2>3. IsPrefix(SubSeq(pictures, 1, u - 1), emitted) /\ Len(emitted) = u - 1 + 1
    <3>1. SubSeq(pictures, 1, u - 1) \in Seq(Seq(Byte)) /\ Len(SubSeq(pictures, 1, u - 1)) = u - 1
      BY <1>7, <1>9
    <3>2. /\ IsPrefix(SubSeq(pictures, 1, u - 1), Append(SubSeq(pictures, 1, u - 1), Window(starts[u])))
          /\ Len(Append(SubSeq(pictures, 1, u - 1), Window(starts[u]))) = u - 1 + 1
      BY ZenonT(40), <2>2, <3>1, PrefixOfAppend
    <3>. QED  BY <1>9, <3>2
  <2>4. ASSUME fed = Len(bytes)
        PROVE  emitted = pictures
    <3>1. u = Len(starts)
      <4>1. u < Len(starts) => Len(starts) \in u + 1 .. Len(starts) /\ Len(starts) \in 1 .. Len(starts)
        BY <1>3
      <4>2. Len(starts) \in u + 1 .. Len(starts) => fed <= starts[Len(starts)] + 4
        BY <1>9 DEF Current, LastSeen
      <4>3. Len(starts) \in 1 .. Len(starts) =>
              starts[Len(starts)] \in Nat /\ starts[Len(starts)] + 5 <= Len(bytes)
        BY <1>1, StartFacts
      <4>4. ~(u < Len(starts))
        BY <1>2, <2>4, <4>1, <4>2, <4>3
      <4>. QED  BY <1>3, <4>4
    <3>2. Window(starts[u]) = pictures[u]
      BY <1>1, <2>4, <3>1 DEF Layout, EndOf, Window
    <3>3. Append(SubSeq(pictures, 1, u - 1), pictures[u]) = SubSeq(pictures, 1, u - 1) \o <<pictures[u]>>
      <4>1. pictures[u] \in Seq(Byte)
        BY <2>2, <3>2
      <4>. QED  BY <1>7, <1>9, <4>1, AppendIsConcat
    <3>4. SubSeq(pictures, 1, u) = SubSeq(pictures, 1, u - 1) \o <<pictures[u]>>
      <4>1. 1 \in 1 .. Len(pictures) /\ u \in 1 .. Len(pictures)
        BY <1>3
      <4>. QED  BY <1>5, <4>1, SubSeqRecursiveSecond
    <3>5. SubSeq(pictures, 1, u) = pictures
      BY <1>3, <3>1, SubSeqFull
    <3>. QED  BY <1>9, <3>2, <3>3, <3>4, <3>5
  <2>5. Len(emitted) <= u - 1 + 1
    BY <2>3, <1>7
  <2>. QED  BY <1>7, <1>9, <2>3, <2>4, <2>5 DEF UnitsArePictures
<1>10. CASE stream_ended
  BY <1>1, <1>6, <1>9, <1>10 DEF Reader, Finished
<1>11. CASE ~stream_ended
  BY <1>1, <1>6, <1>8, <1>11 DEF Reader, Waiting, Gathering
<1>. QED  BY <1>10, <1>11

(* feed and finish return the pictures that ffmpeg wrote, whole and in      *)
(* order, one as soon as the delimiter of the next has been read: for every *)
(* stream of such pictures and however the reads cut it.                    *)
THEOREM UnitsFound == AuSpec => []UnitsArePictures
<1>1. AuInit => IInv
  BY InitInv
<1>2. IInv /\ [AuNext]_auVars => IInv'
  BY StepInv
<1>3. IInv => UnitsArePictures
  BY InvUnits
<1>. QED  BY <1>1, <1>2, <1>3, PTL DEF AuSpec
=============================================================================
