---------------------------- MODULE AccessUnits -----------------------------
(***************************************************************************)
(* AccessUnitParser (crates/sender/src/encoder.rs): ffmpeg's standard      *)
(* output is an H.264 byte stream that arrives in chunks cut anywhere, and *)
(* the parser cuts it into access units at the delimiters (AUD).           *)
(*                                                                         *)
(* The stream is built from the pictures that the encoder makes, and the   *)
(* parser must find these very pictures again.  Offsets count from 0, as   *)
(* in the code.                                                            *)
(***************************************************************************)
EXTENDS Integers, SequencesExt

CONSTANTS
  Pictures,       \* what ffmpeg may write for one picture
  Preambles,      \* what may precede the first one
  MaxPictures,    \* bound: pictures in the stream
  ChunkSizes      \* bound: how much one read may return

VARIABLES
  pictures,       \* what the encoder made
  starts,         \* history: where each of them begins in the stream
  bytes,          \* what it has written
  fed,            \* how many of these the parser was given
  buf,
  current_au_start,
  emitted,        \* the units that feed and finish returned
  stream_ended

auVars == <<pictures, starts, bytes, fed, buf, current_au_start, emitted, stream_ended>>

NoAud == -1

----------------------------------------------------------------------------
StartCode(b, i) ==
  IF b[i + 1] = 0 /\ b[i + 2] = 0 /\ b[i + 3] = 0 /\ b[i + 4] = 1 THEN 4
  ELSE IF b[i + 1] = 0 /\ b[i + 2] = 0 /\ b[i + 3] = 1 THEN 3
  ELSE 0

IsAud(nal_byte) == nal_byte % 32 = 9

find_aud(b, from) ==
  LET scan[i \in Nat] ==
        IF i + 4 >= Len(b) THEN NoAud
        ELSE LET code == StartCode(b, i)
             IN  IF code = 0 THEN scan[i + 1]
                 ELSE IF IsAud(b[i + code + 1]) THEN i
                 ELSE scan[i + code]
  IN  scan[from]

(* The delimiters in b, which begins with one.                              *)
Cuts(b) ==
  LET cuts[i \in Nat] ==
        LET next == IF i + 4 >= Len(b) THEN NoAud ELSE find_aud(b, i + 4)
        IN  IF next = NoAud THEN <<i>> ELSE <<i>> \o cuts[next]
  IN  cuts[0]

From(b, i) == SubSeq(b, i + 1, Len(b))

(* Mutant: what holds no delimiter is thrown away.                          *)
feed_DropsPreamble(more) ==
  LET all == buf \o more
      first == IF current_au_start = NoAud THEN find_aud(all, 0) ELSE 0
  IN  IF first = NoAud
      THEN buf' = <<>> /\ UNCHANGED <<current_au_start, emitted>>
      ELSE LET b == From(all, first)
               cuts == Cuts(b)
           IN  /\ emitted' = emitted \o
                    [u \in 1 .. Len(cuts) - 1 |-> SubSeq(b, cuts[u] + 1, cuts[u + 1])]
               /\ buf' = From(b, cuts[Len(cuts)])
               /\ current_au_start' = 0

feed(more) ==
  LET all == buf \o more
      first == IF current_au_start = NoAud THEN find_aud(all, 0) ELSE 0
  IN  IF first = NoAud
      THEN buf' = all /\ UNCHANGED <<current_au_start, emitted>>
      ELSE LET b == From(all, first)
               cuts == Cuts(b)
           IN  /\ emitted' = emitted \o
                    [u \in 1 .. Len(cuts) - 1 |-> SubSeq(b, cuts[u] + 1, cuts[u + 1])]
               /\ buf' = From(b, cuts[Len(cuts)])
               /\ current_au_start' = 0

finish ==
  /\ current_au_start' = NoAud
  /\ emitted' = IF current_au_start # NoAud /\ buf # <<>> THEN Append(emitted, buf) ELSE emitted
  /\ UNCHANGED buf

----------------------------------------------------------------------------
(* ffmpeg (external) writes NAL units with start codes of three or four     *)
(* bytes.  Emulation prevention keeps start codes out of their payload and  *)
(* zeros from their end; no other bytes are excluded.                       *)

Byte == 0 .. 255

HasAud(b, i) ==
  /\ i \in 0 .. Len(b) - 4
  /\ b[i + 1] = 0 /\ b[i + 2] = 0 /\ b[i + 3] = 1 /\ IsAud(b[i + 4])

IsPreamble(b) == b \in Seq(Byte) /\ (b # <<>> => b[Len(b)] # 0) /\ \A i \in 0 .. Len(b) : ~HasAud(b, i)

(* A picture begins with a delimiter, which may have a zero before it, and  *)
(* has no other.                                                            *)
IsPicture(b) ==
  /\ b \in Seq(Byte) /\ Len(b) >= 5 /\ b[1] = 0 /\ b[Len(b)] # 0
  /\ \E d \in {0, 1} : \A i \in 0 .. Len(b) : HasAud(b, i) <=> i = d

ASSUME AuAssumption ==
  /\ \A b \in Pictures : IsPicture(b)
  /\ \A b \in Preambles : IsPreamble(b)
  /\ MaxPictures \in Nat /\ ChunkSizes \subseteq Nat \ {0}

WritePicture ==
  /\ ~stream_ended /\ Len(pictures) < MaxPictures
  /\ \E b \in Pictures : pictures' = Append(pictures, b) /\ bytes' = bytes \o b
  /\ starts' = Append(starts, Len(bytes))
  /\ UNCHANGED <<fed, buf, current_au_start, emitted, stream_ended>>

----------------------------------------------------------------------------
(* The task that reads it.                                                  *)

ReadChunk ==
  /\ ~stream_ended /\ fed < Len(bytes)
  /\ \E n \in ChunkSizes :
       /\ fed' = IF fed + n < Len(bytes) THEN fed + n ELSE Len(bytes)
       /\ feed(SubSeq(bytes, fed + 1, fed'))
  /\ UNCHANGED <<pictures, starts, bytes, stream_ended>>

(* At the end, or where ffmpeg was killed or crashed.                       *)
ReadEnd ==
  /\ ~stream_ended
  /\ stream_ended' = TRUE
  /\ finish
  /\ UNCHANGED <<pictures, starts, bytes, fed>>

(* AccessUnitParser::new.                                                   *)
NewParser ==
  /\ fed = 0 /\ buf = <<>> /\ current_au_start = NoAud /\ emitted = <<>>
  /\ stream_ended = FALSE

AuInit == NewParser /\ pictures = <<>> /\ starts = <<>> /\ bytes \in Preambles

AuNext == WritePicture \/ ReadChunk \/ ReadEnd

AuSpec == AuInit /\ [][AuNext]_auVars

----------------------------------------------------------------------------
(* A picture is out as soon as the delimiter of the next one has arrived,   *)
(* with the byte after a short one, however the stream was cut.             *)
Due == {u \in 1 .. Len(pictures) - 1 : starts[u + 1] + 5 <= fed}

(* "The bytes between consecutive AUDs ... are emitted as one AU": at any   *)
(* time the units are the pictures so far, whole and in order, and once the *)
(* stream has ended they are all of them.  Only the last of a stream that   *)
(* was broken off may be something else.                                    *)
UnitsArePictures ==
  LET n == Cardinality(Due)
  IN  /\ IsPrefix(SubSeq(pictures, 1, n), emitted)
      /\ Len(emitted) <= n + (IF stream_ended THEN 1 ELSE 0)
      /\ stream_ended /\ fed = Len(bytes) => emitted = pictures
=============================================================================
