---------------------------- MODULE SessionProofs ----------------------------
(***************************************************************************)
(* Proofs about Session.                                                   *)
(*                                                                         *)
(* IInv has two parts.  RelayInv says what the relay's messages mean for   *)
(* whoever reads them: each is true of its sender or subject for good, the *)
(* Welcome comes first, nothing of a peer comes before its PeerJoined or   *)
(* after its PeerLeft, and whom a joining was announced to is told of the  *)
(* leaving.  A step of the relay puts one message at the end of some       *)
(* outboxes (RelayGrows), so each part has to be shown for that message    *)
(* only.  ClientInv ties the clients' state to the prefix of its outbox    *)
(* that each has read, `seen': what lets a PeerConnection be made, what it *)
(* takes for one to be stable, what closes one.                            *)
(*                                                                         *)
(* A message that leaves a client as it is may be passed over; Overlooked  *)
(* says that none of those the invariants count is.                        *)
(***************************************************************************)
EXTENDS Session, SequenceTheorems, TLAPS

----------------------------------------------------------------------------
(* What the relay has sent.                                                 *)

(* Whom a message is about. *)
Who(m) == IF m.type = "signal" THEN m.from ELSE m.peer

Announced(c) == stage[c] \in {"joined", "departing", "gone"}

Hears(c, m) == \E i \in 1 .. Len(outbox[c]) : outbox[c][i] = m

RelayTypes ==
  /\ stage \in [Conns -> S!Stages] /\ home \in [Conns -> {Room, NoRoom}]
  /\ id \in [Conns -> Nat] /\ outbox \in [Conns -> Seq(S!Messages)]

Numbered ==
  /\ \A c \in Conns : stage[c] = "out" <=> id[c] = 0
  /\ \A c, d \in Conns : id[c] = id[d] /\ id[c] # 0 => c = d
  /\ \A c \in Conns : stage[c] # "out" => home[c] = Room

IsTrue(m) ==
  /\ m.type = "welcome" => \A k \in m.peers : \E c \in Conns : id[c] = k
  /\ m.type \in {"peer_joined", "signal"} => \E c \in Conns : id[c] = Who(m) /\ Announced(c)
  /\ m.type = "peer_left" => \E c \in Conns : id[c] = Who(m) /\ stage[c] = "gone"

(* Messages about someone tell what has happened; the Welcome is the first.  *)
Truthful ==
  \A c \in Conns :
    /\ \A i \in 1 .. Len(outbox[c]) :
         IsTrue(outbox[c][i]) /\ (outbox[c][i].type = "welcome" => i = 1)
    /\ stage[c] = "out" => outbox[c] = <<>>
    /\ stage[c] = "admitted" => \A i \in 1 .. Len(outbox[c]) : outbox[c][i].type = "welcome"

(* Nothing comes of a peer before it is announced, or after it has left.    *)
MayPrecede(m, n) ==
  Who(m) = Who(n) =>
    /\ n.type = "peer_joined" => m.type \notin {"peer_joined", "peer_left", "signal"}
    /\ m.type = "peer_left" => n.type # "signal"

InOrder ==
  \A c \in Conns : \A i, j \in 1 .. Len(outbox[c]) :
    i < j => MayPrecede(outbox[c][i], outbox[c][j])

(* Whom the joining was announced to is told of the leaving, if still there. *)
LeaversAreAnnounced ==
  \A c, d \in Conns :
    /\ c # d /\ stage[d] = "gone" /\ stage[c] \in {"registered", "joined"}
    /\ Hears(c, S!PeerJoined(id[d]))
    => Hears(c, S!PeerLeft(id[d]))

RelayInv == RelayTypes /\ Numbered /\ Truthful /\ InOrder /\ LeaversAreAnnounced

LEMMA MessageFacts ==
  /\ \A i, k : S!Welcome(i, k).type = "welcome" /\ S!Welcome(i, k).peers = k
  /\ \A i : S!PeerJoined(i).type = "peer_joined" /\ S!PeerJoined(i).peer = i
  /\ \A i : S!PeerLeft(i).type = "peer_left" /\ S!PeerLeft(i).peer = i
  /\ \A i, k, b : /\ S!Signal(i, k, b).type = "signal" /\ S!Signal(i, k, b).from = i
                  /\ S!Signal(i, k, b).body = b
  BY DEF S!Welcome, S!PeerJoined, S!PeerLeft, S!Signal

LEMMA MessageTypes ==
  /\ \A i \in S!PeerIds : \A k \in SUBSET S!PeerIds : S!Welcome(i, k) \in S!Messages
  /\ \A i \in S!PeerIds : S!PeerJoined(i) \in S!Messages /\ S!PeerLeft(i) \in S!Messages
  /\ \A i \in Nat : \A k \in S!PeerIds : \A b \in Bodies : S!Signal(i, k, b) \in S!Messages
  BY DEF S!Messages, S!Welcome, S!PeerJoined, S!PeerLeft, S!Signal

LEMMA MessageFields ==
  ASSUME NEW m \in S!Messages
  PROVE  /\ m.type = "welcome" => m.peers \subseteq S!PeerIds
         /\ m.type = "peer_joined" => m.peer \in S!PeerIds /\ m = S!PeerJoined(m.peer)
         /\ m.type = "peer_left" => m.peer \in S!PeerIds /\ m = S!PeerLeft(m.peer)
         /\ m.type = "signal" => m.from \in Nat /\ m.body \in Bodies
  BY DEF S!Messages, S!PeerJoined, S!PeerLeft

(* What any step of the relay does: connections move on, and one message is  *)
(* sent to some of them.                                                      *)
Sends(m, D) == outbox' = [c \in Conns |-> IF c \in D THEN Append(outbox[c], m) ELSE outbox[c]]

Advances(m, D) ==
  \A c \in Conns :
    /\ id[c] # 0 => id'[c] = id[c]
    /\ Announced(c) => stage'[c] \in {"joined", "departing", "gone"}
    /\ stage[c] = "gone" => stage'[c] = "gone"
    /\ stage'[c] = "out" => stage[c] = "out" /\ c \notin D
    /\ stage'[c] = "admitted" => \/ stage[c] = "admitted" /\ c \notin D
                                 \/ stage[c] = "out" /\ m.type = "welcome"
    /\ stage'[c] \in {"registered", "joined"} => stage[c] \in {"admitted", "registered", "joined"}
    /\ stage'[c] = "gone" /\ stage[c] # "gone" =>
         /\ m = S!PeerLeft(id[c]) /\ id'[c] = id[c]
         /\ D = {d \in Conns : stage[d] \in {"registered", "joined"}} \ {c}

WillBeTrue(m) ==
  /\ m.type = "welcome" => \A k \in m.peers : \E c \in Conns : id'[c] = k
  /\ m.type \in {"peer_joined", "signal"} =>
       \E c \in Conns : id'[c] = Who(m) /\ stage'[c] \in {"joined", "departing"}
  /\ m.type = "peer_left" => \E c \in Conns : id'[c] = Who(m) /\ stage'[c] = "gone"

IsInTime(m, D) ==
  \A c \in D : \A i \in 1 .. Len(outbox[c]) : m.type # "welcome" /\ MayPrecede(outbox[c][i], m)

(* A message put at the end of some outboxes. *)
LEMMA OutboxGrows ==
  ASSUME outbox \in [Conns -> Seq(S!Messages)], NEW m \in S!Messages, NEW D \in SUBSET Conns, Sends(m, D)
  PROVE  /\ outbox' \in [Conns -> Seq(S!Messages)]
         /\ \A c \in Conns :
              /\ Len(outbox[c]) \in Nat /\ Len(outbox'[c]) \in Nat /\ Len(outbox[c]) <= Len(outbox'[c])
              /\ \A i \in 1 .. Len(outbox[c]) : i \in 1 .. Len(outbox'[c]) /\ outbox'[c][i] = outbox[c][i]
              /\ \A i \in 1 .. Len(outbox'[c]) :
                   \/ i \in 1 .. Len(outbox[c])
                   \/ i = Len(outbox[c]) + 1 /\ c \in D /\ outbox'[c][i] = m
              /\ c \in D => Len(outbox'[c]) = Len(outbox[c]) + 1 /\ outbox'[c][Len(outbox[c]) + 1] = m
              /\ c \notin D => outbox'[c] = outbox[c]
<1>. USE DEF Sends
<1>1. ASSUME NEW c \in Conns
      PROVE  /\ Append(outbox[c], m) \in Seq(S!Messages)
             /\ Len(outbox[c]) \in Nat /\ Len(Append(outbox[c], m)) = Len(outbox[c]) + 1
             /\ \A i \in 1 .. Len(outbox[c]) : Append(outbox[c], m)[i] = outbox[c][i]
             /\ Append(outbox[c], m)[Len(outbox[c]) + 1] = m
  BY AppendProperties
<1>2. outbox' \in [Conns -> Seq(S!Messages)]
  BY <1>1
<1>3. \A c \in Conns : c \in D => outbox'[c] = Append(outbox[c], m)
  OBVIOUS
<1>4. \A c \in Conns : c \notin D => outbox'[c] = outbox[c]
  OBVIOUS
<1>5. ASSUME NEW c \in Conns
      PROVE  /\ Len(outbox[c]) \in Nat /\ Len(outbox'[c]) \in Nat /\ Len(outbox[c]) <= Len(outbox'[c])
             /\ \A i \in 1 .. Len(outbox[c]) : i \in 1 .. Len(outbox'[c]) /\ outbox'[c][i] = outbox[c][i]
             /\ \A i \in 1 .. Len(outbox'[c]) :
                  \/ i \in 1 .. Len(outbox[c])
                  \/ i = Len(outbox[c]) + 1 /\ c \in D /\ outbox'[c][i] = m
             /\ c \in D => Len(outbox'[c]) = Len(outbox[c]) + 1 /\ outbox'[c][Len(outbox[c]) + 1] = m
             /\ c \notin D => outbox'[c] = outbox[c]
  BY <1>1, <1>3, <1>4
<1>. QED  BY <1>2, <1>5

LEMMA InitRelay == Init => RelayInv
  BY DEF Init, S!Init, RelayInv, RelayTypes, Numbered, Truthful, InOrder, LeaversAreAnnounced, Hears,
     S!Stages

LEMMA RelayGrows ==
  ASSUME RelayInv, NEW m \in S!Messages, NEW D \in SUBSET Conns, Sends(m, D), Advances(m, D),
         stage' \in [Conns -> S!Stages], home' \in [Conns -> {Room, NoRoom}], id' \in [Conns -> Nat],
         Numbered', WillBeTrue(m), IsInTime(m, D)
  PROVE  RelayInv'
<1>. USE DEF Sends, Advances, WillBeTrue, IsInTime
<1>1. outbox \in [Conns -> Seq(S!Messages)]
  BY DEF RelayInv, RelayTypes
<1>2. /\ outbox' \in [Conns -> Seq(S!Messages)]
      /\ \A c \in Conns :
           /\ Len(outbox[c]) \in Nat /\ Len(outbox'[c]) \in Nat /\ Len(outbox[c]) <= Len(outbox'[c])
           /\ \A i \in 1 .. Len(outbox[c]) : i \in 1 .. Len(outbox'[c]) /\ outbox'[c][i] = outbox[c][i]
           /\ \A i \in 1 .. Len(outbox'[c]) :
                \/ i \in 1 .. Len(outbox[c])
                \/ i = Len(outbox[c]) + 1 /\ c \in D /\ outbox'[c][i] = m
           /\ c \in D => Len(outbox'[c]) = Len(outbox[c]) + 1 /\ outbox'[c][Len(outbox[c]) + 1] = m
           /\ c \notin D => outbox'[c] = outbox[c]
  BY <1>1, OutboxGrows
<1>3. RelayTypes'
  BY <1>2 DEF RelayTypes
<1>4. Truthful'
  <2>1. ASSUME NEW c \in Conns, NEW i \in 1 .. Len(outbox'[c])
        PROVE  IsTrue(outbox[c][i])' /\ (outbox'[c][i].type = "welcome" => i = 1)
    <3>. DEFINE n == outbox'[c][i]
    <3>1. CASE i \in 1 .. Len(outbox[c])
      <4>1. n = outbox[c][i] /\ n \in S!Messages
        BY <1>1, <1>2, <3>1, ElementOfSeq
      <4>2. IsTrue(n) /\ (n.type = "welcome" => i = 1)
        BY <3>1, <4>1 DEF RelayInv, Truthful
      <4>3. \A d \in Conns : Announced(d) => id[d] # 0
        BY DEF RelayInv, Numbered, Announced
      <4>. HIDE DEF n
      <4>4. n.type = "welcome" => \A k \in n.peers : \E d \in Conns : id'[d] = k
        <5>1. n.type = "welcome" => \A k \in n.peers : k # 0
          BY <4>1, MessageFields DEF S!PeerIds
        <5>. QED  BY <4>2, <5>1 DEF IsTrue
      <4>5. n.type \in {"peer_joined", "signal"} =>
              \E d \in Conns : id'[d] = Who(n) /\ stage'[d] \in {"joined", "departing", "gone"}
        BY <4>2, <4>3 DEF IsTrue
      <4>6. n.type = "peer_left" => \E d \in Conns : id'[d] = Who(n) /\ stage'[d] = "gone"
        BY <4>2, <4>3 DEF IsTrue, Announced
      <4>. QED  BY <4>2, <4>4, <4>5, <4>6 DEF IsTrue, Announced, Who, n
    <3>2. CASE i = Len(outbox[c]) + 1 /\ c \in D /\ outbox'[c][i] = m
      <4>1. m.type = "welcome" => i = 1
        BY <1>2, <3>2
      <4>. QED  BY <3>2, <4>1 DEF IsTrue, Announced, Who
    <3>. QED  BY <1>2, <3>1, <3>2
  <2>2. ASSUME NEW c \in Conns, stage'[c] = "out" PROVE outbox'[c] = <<>>
    BY <1>2, <2>2 DEF RelayInv, Truthful
  <2>3. ASSUME NEW c \in Conns, stage'[c] = "admitted", NEW i \in 1 .. Len(outbox'[c])
        PROVE  outbox'[c][i].type = "welcome"
    <3>1. CASE stage[c] = "admitted" /\ c \notin D
      BY <1>2, <3>1 DEF RelayInv, Truthful
    <3>2. CASE stage[c] = "out" /\ m.type = "welcome"
      <4>1. ~ (i \in 1 .. Len(outbox[c]))
        BY <3>2 DEF RelayInv, Truthful
      <4>. QED  BY <1>2, <3>2, <4>1
    <3>. QED  BY <2>3, <3>1, <3>2
  <2>. QED  BY <2>1, <2>2, <2>3 DEF Truthful
<1>5. InOrder'
  <2>1. ASSUME NEW c \in Conns, NEW i \in 1 .. Len(outbox'[c]), NEW j \in 1 .. Len(outbox'[c]), i < j
        PROVE  MayPrecede(outbox'[c][i], outbox'[c][j])
    <3>1. i \in 1 .. Len(outbox[c]) /\ outbox'[c][i] = outbox[c][i]
      BY <1>2, <2>1
    <3>2. CASE j \in 1 .. Len(outbox[c])
      BY <1>2, <2>1, <3>1, <3>2 DEF RelayInv, InOrder
    <3>3. CASE c \in D /\ outbox'[c][j] = m
      BY <3>1, <3>3
    <3>. QED  BY <1>2, <3>2, <3>3
  <2>. QED  BY <2>1 DEF InOrder, MayPrecede, Who
<1>6. LeaversAreAnnounced'
  <2>1. ASSUME NEW c \in Conns, NEW d \in Conns, c # d, stage'[d] = "gone",
               stage'[c] \in {"registered", "joined"}, Hears(c, S!PeerJoined(id[d]))'
        PROVE  Hears(c, S!PeerLeft(id[d]))'
    <3>. PICK i \in 1 .. Len(outbox'[c]) : outbox'[c][i] = S!PeerJoined(id'[d])
      BY <2>1 DEF Hears, S!PeerJoined
    <3>. SUFFICES \E j \in 1 .. Len(outbox'[c]) : outbox'[c][j] = S!PeerLeft(id'[d])
      BY DEF Hears, S!PeerLeft
    <3>1. i \in 1 .. Len(outbox[c]) /\ outbox[c][i] = S!PeerJoined(id'[d])
      <4>1. CASE outbox'[c][i] = m
        <5>1. m.type = "peer_joined" /\ Who(m) = id'[d]
          <6>1. m = S!PeerJoined(id'[d])
            BY <2>1, <4>1
          <6>. QED  BY <6>1 DEF Who, S!PeerJoined
        <5>2. PICK e \in Conns : id'[e] = id'[d] /\ stage'[e] \in {"joined", "departing"}
          BY <5>1
        <5>3. e = d
          BY <5>2 DEF Numbered
        <5>. QED  BY <2>1, <5>2, <5>3
      <4>. QED  BY <1>2, <2>1, <4>1
    <3>2. stage[c] \in {"registered", "joined"}
      <4>1. stage[c] # "admitted"
        BY <3>1, MessageFacts DEF RelayInv, Truthful
      <4>. QED  BY <2>1, <4>1
    <3>3. CASE stage[d] = "gone"
      <4>1. id'[d] = id[d]
        BY <3>3 DEF RelayInv, Numbered
      <4>2. outbox[c][i] = S!PeerJoined(id[d])
        BY <3>1, <4>1
      <4>3. Hears(c, S!PeerJoined(id[d]))
        BY <3>1, <4>2 DEF Hears
      <4>4. Hears(c, S!PeerLeft(id[d]))
        BY <2>1, <3>2, <3>3, <4>3 DEF RelayInv, LeaversAreAnnounced
      <4>5. PICK j \in 1 .. Len(outbox[c]) : outbox[c][j] = S!PeerLeft(id[d])
        BY <4>4 DEF Hears
      <4>6. j \in 1 .. Len(outbox'[c]) /\ outbox'[c][j] = S!PeerLeft(id'[d])
        BY <1>2, <4>1, <4>5
      <4>. QED  BY <4>6
    <3>4. CASE stage[d] # "gone"
      <4>1. m = S!PeerLeft(id'[d]) /\ c \in D
        BY <2>1, <3>2, <3>4
      <4>2. Len(outbox[c]) + 1 \in 1 .. Len(outbox'[c]) /\ outbox'[c][Len(outbox[c]) + 1] = m
        BY <1>2, <4>1
      <4>. QED  BY <4>1, <4>2
    <3>. QED  BY <3>3, <3>4
  <2>. QED  BY <2>1 DEF LeaversAreAnnounced
<1>. QED  BY <1>3, <1>4, <1>5, <1>6 DEF RelayInv

----------------------------------------------------------------------------
(* The clients.                                                             *)

HasRead(c, m) == \E i \in 1 .. seen[c] : outbox[c][i] = m

Names(k, C) == k # 0 /\ \E c \in C : id[c] = k

(* A socket in use has not been given up by the relay. *)
Cabled ==
  \A c \in Conns :
    /\ link[c] = "unused" => stage[c] = "out"
    /\ link[c] = "up" => stage[c] \notin {"departing", "gone"}
    /\ seen[c] <= Len(outbox[c])

(* The publisher writes to subscribers, offering what is its own; the page   *)
(* writes to publishers.                                                     *)
Addressed ==
  \A c \in Conns : \A i \in 1 .. Len(sent[c]) :
    /\ c \in Publishers => Names(sent[c][i].to, Subscribers) /\ sent[c][i].body.pc[1] = c
    /\ c \in Subscribers => Names(sent[c][i].to, Publishers)

Stamped ==
  \A c \in Conns : \A i \in 1 .. Len(outbox[c]) :
    outbox[c][i].type = "signal" =>
      /\ c \in Publishers => Names(outbox[c][i].from, Subscribers)
      /\ c \in Subscribers => id[outbox[c][i].body.pc[1]] = outbox[c][i].from

(* A subscriber is made known to a publisher by the Welcome, by its          *)
(* announcement, or both; each lets one PeerConnection be made.              *)
Welcomed(p, s) == \E i \in 1 .. seen[p] : outbox[p][i].type = "welcome" /\ id[s] \in outbox[p][i].peers

OffersAreInvited ==
  \A p \in Publishers, s \in Subscribers :
    /\ s \in todo[p] => id[s] # 0 /\ made[p][s] <= 1
    /\ made[p][s] <= 2
    /\ ~ Welcomed(p, s) \/ ~ HasRead(p, S!PeerJoined(id[s])) =>
         made[p][s] <= 1 /\ (s \in todo[p] => made[p][s] = 0)
    /\ ~ Welcomed(p, s) /\ ~ HasRead(p, S!PeerJoined(id[s])) => made[p][s] = 0 /\ s \notin todo[p]

(* The map of PeerConnections holds each under its own subscriber; one that  *)
(* was answered stays there, for its subscriber will not be made known again. *)
Mapped ==
  \A p \in Publishers, s \in Subscribers :
    pcs[p][s] = NoPc \/ \E n \in 1 .. 3 : pcs[p][s] = <<p, s, n>>

HasAnswered(p, s) == \E i \in 1 .. seen[p] : outbox[p][i].type = "signal" /\ outbox[p][i].from = id[s]

Settled ==
  \A p \in Publishers, s \in Subscribers : \A n \in 1 .. 3 :
    pc[<<p, s, n>>] = "stable" =>
      pcs[p][s] = <<p, s, n>> /\ s \notin todo[p] /\ HasAnswered(p, s)

LeaversAreClosed ==
  \A p \in Publishers, s \in Subscribers :
    HasRead(p, S!PeerLeft(id[s])) => pcs[p][s] = NoPc /\ s \notin todo[p]

(* The page's PeerConnections are with publishers it was in a room with.     *)
Attached ==
  \A s \in Subscribers :
    /\ rpc[s] # NoPc => id[rpc[s][1]] # 0
    /\ answering[s] => rpc[s] # NoPc

ClientInv ==
  /\ TypeOK /\ Cabled /\ Addressed /\ Stamped
  /\ OffersAreInvited /\ Mapped /\ Settled /\ LeaversAreClosed
  /\ Attached /\ DepartedPublisherIsDropped /\ PageNeverGivesUp

IInv == RelayInv /\ ClientInv

----------------------------------------------------------------------------
(* Steps of the relay.                                                      *)

(* What the clients can count on: ids stay, and outboxes only grow.          *)
Grown ==
  \A c \in Conns :
    /\ id[c] # 0 => id'[c] = id[c]
    /\ Len(outbox[c]) \in Nat /\ Len(outbox'[c]) \in Nat /\ Len(outbox[c]) <= Len(outbox'[c])
    /\ \A i \in 1 .. Len(outbox[c]) : i \in 1 .. Len(outbox'[c]) /\ outbox'[c][i] = outbox[c][i]

LEMMA NobodyIsBoth == \A c \in Conns : ~ (c \in Publishers /\ c \in Subscribers)
  BY SessionAssumption

LEMMA BodyTypes ==
  ASSUME NEW b \in Bodies
  PROVE  b.pc \in Pcs /\ b.pc[1] \in Publishers /\ b.pc[1] \in Conns
  BY DEF Bodies, Offer, Answer, Pcs, Conns

LEMMA SignalFacts ==
  ASSUME RelayInv, NEW c \in Conns, NEW i \in 1 .. Len(outbox[c]), outbox[c][i].type = "signal"
  PROVE  /\ outbox[c][i].from # 0 /\ outbox[c][i].body \in Bodies
         /\ \E d \in Conns : id[d] = outbox[c][i].from /\ Announced(d)
<1>1. outbox[c][i] \in S!Messages
  BY ElementOfSeq DEF RelayInv, RelayTypes
<1>2. IsTrue(outbox[c][i])
  BY DEF RelayInv, Truthful
<1>3. \E d \in Conns : id[d] = outbox[c][i].from /\ Announced(d)
  BY <1>2 DEF IsTrue, Who
<1>. QED  BY <1>1, <1>3, MessageFields DEF RelayInv, Numbered, Announced

(* Names and stamps hold good when ids stay. *)
LEMMA StampsStay ==
  ASSUME RelayInv, Stamped, Grown,
         \A c \in Conns : \A i \in 1 .. Len(outbox'[c]) :
           i \in 1 .. Len(outbox[c]) \/ outbox'[c][i].type # "signal"
  PROVE  Stamped'
<1>1. ASSUME NEW c \in Conns, NEW i \in 1 .. Len(outbox'[c]), outbox'[c][i].type = "signal"
      PROVE  /\ c \in Publishers => /\ outbox'[c][i].from # 0
                                    /\ \E s \in Subscribers : id'[s] = outbox'[c][i].from
             /\ c \in Subscribers => id'[outbox'[c][i].body.pc[1]] = outbox'[c][i].from
  <2>1. i \in 1 .. Len(outbox[c]) /\ outbox'[c][i] = outbox[c][i]
    BY <1>1 DEF Grown
  <2>. PICK m : m = outbox[c][i]
    OBVIOUS
  <2>2. m.from # 0 /\ m.body \in Bodies
    BY <1>1, <2>1, SignalFacts
  <2>3. m.body.pc[1] \in Conns
    BY <2>2, BodyTypes
  <2>4. /\ c \in Publishers => Names(m.from, Subscribers)
        /\ c \in Subscribers => id[m.body.pc[1]] = m.from
    BY <1>1, <2>1 DEF Stamped
  <2>5. c \in Publishers => \E s \in Subscribers : id'[s] = m.from
    BY <2>2, <2>4 DEF Names, Grown, Conns
  <2>6. c \in Subscribers => id'[m.body.pc[1]] = m.from
    BY <2>2, <2>3, <2>4 DEF Grown
  <2>. QED  BY <2>1, <2>2, <2>5, <2>6
<1>. QED  BY <1>1 DEF Stamped, Names

LEMMA Admission ==
  ASSUME IInv, NEW c \in Conns, RelayAdmits(c)
  PROVE  RelayInv' /\ Grown /\ Stamped'
<1>. DEFINE ids == {id[d] : d \in S!Members(Room)}
<1>1. /\ stage[c] = "out" /\ stage' = [stage EXCEPT ![c] = "admitted"]
      /\ NextId \in S!PeerIds \ {id[d] : d \in Conns}
      /\ home' = [home EXCEPT ![c] = Room]
      /\ id' = [id EXCEPT ![c] = NextId]
      /\ outbox' = [outbox EXCEPT ![c] = Append(@, S!Welcome(NextId, ids))]
  BY DEF RelayAdmits, S!Admit, S!Move, S!Send
<1>. HIDE DEF ids
<1>2. /\ RelayInv /\ stage \in [Conns -> S!Stages] /\ home \in [Conns -> {Room, NoRoom}]
      /\ id \in [Conns -> Nat] /\ outbox \in [Conns -> Seq(S!Messages)]
  BY DEF IInv, RelayInv, RelayTypes
<1>3. PICK k : k = NextId
  OBVIOUS
<1>4. k \in Nat /\ k # 0 /\ \A d \in Conns : id[d] # k
  BY <1>1, <1>3 DEF S!PeerIds
<1>5. id[c] = 0 /\ outbox[c] = <<>>
  BY <1>1 DEF IInv, RelayInv, Numbered, Truthful
<1>6. /\ stage' \in [Conns -> S!Stages] /\ home' \in [Conns -> {Room, NoRoom}] /\ id' \in [Conns -> Nat]
  BY <1>1, <1>2, <1>3, <1>4 DEF S!Stages
<1>7. id'[c] = k /\ stage'[c] = "admitted" /\ home'[c] = Room
      /\ \A d \in Conns : d # c => id'[d] = id[d] /\ stage'[d] = stage[d] /\ home'[d] = home[d]
  BY <1>1, <1>2, <1>3
<1>8. Numbered'
  BY ZenonT(40), <1>2, <1>4, <1>7 DEF RelayInv, Numbered
<1>9. PICK m : m = S!Welcome(k, ids)
  OBVIOUS
<1>10. /\ m \in S!Messages /\ m.type = "welcome" /\ m.peers = ids
  <2>1. ids \in SUBSET S!PeerIds
    BY <1>2 DEF ids, S!Members, S!PeerIds, RelayInv, Numbered
  <2>. QED  BY <1>1, <1>3, <1>9, <2>1, MessageFacts, MessageTypes
<1>11. \A n \in ids : \E d \in Conns : id'[d] = n
  <2>1. ASSUME NEW n \in ids PROVE \E d \in Conns : id'[d] = n
    <3>1. PICK d \in Conns : id[d] = n /\ stage[d] # "out"
      BY DEF ids, S!Members
    <3>. QED  BY <1>1, <1>7, <3>1
  <2>. QED  BY <2>1
<1>12. Sends(m, {c})
  BY <1>1, <1>2, <1>3, <1>9 DEF Sends
<1>13. IsInTime(m, {c})
  BY <1>5 DEF IsInTime
<1>14. RelayInv'
  <2>1. Advances(m, {c})
    BY <1>1, <1>5, <1>7, <1>10 DEF Advances, Announced
  <2>2. WillBeTrue(m)
    BY <1>10, <1>11 DEF WillBeTrue
  <2>3. {c} \in SUBSET Conns
    OBVIOUS
  <2>. QED  BY <1>2, <1>6, <1>8, <1>10, <1>12, <1>13, <2>1, <2>2, <2>3, RelayGrows
<1>15. \A d \in Conns :
         /\ Len(outbox[d]) \in Nat /\ Len(outbox'[d]) \in Nat /\ Len(outbox[d]) <= Len(outbox'[d])
         /\ \A i \in 1 .. Len(outbox[d]) : i \in 1 .. Len(outbox'[d]) /\ outbox'[d][i] = outbox[d][i]
         /\ \A i \in 1 .. Len(outbox'[d]) :
              i \in 1 .. Len(outbox[d]) \/ outbox'[d][i] = m
  <2>1. {c} \in SUBSET Conns
    OBVIOUS
  <2>. QED  BY <1>2, <1>10, <1>12, <2>1, OutboxGrows
<1>16. Grown
  BY <1>5, <1>7, <1>15 DEF Grown
<1>17. Stamped'
  BY <1>10, <1>15, <1>16, StampsStay DEF IInv, ClientInv
<1>. QED  BY <1>14, <1>16, <1>17

(* Connections that move on without a word. *)
LEMMA QuietMoves ==
  ASSUME IInv, NEW c \in Conns, S!Register(c) \/ S!Depart(c)
  PROVE  RelayInv' /\ Grown /\ Stamped'
<1>1. /\ RelayInv /\ stage \in [Conns -> S!Stages] /\ home \in [Conns -> {Room, NoRoom}]
      /\ id \in [Conns -> Nat] /\ outbox \in [Conns -> Seq(S!Messages)] /\ Stamped
  BY DEF IInv, RelayInv, RelayTypes, ClientInv
<1>2. UNCHANGED <<home, id, outbox>>
  BY DEF S!Register, S!Depart
<1>3. /\ stage' \in [Conns -> S!Stages]
      /\ \A d \in Conns : d # c => stage'[d] = stage[d]
      /\ \/ stage[c] = "admitted" /\ stage'[c] = "registered"
         \/ stage[c] = "joined" /\ stage'[c] = "departing"
  BY <1>1 DEF S!Register, S!Depart, S!Move, S!Stages
<1>4. PICK m : m = S!Welcome(1, {})
  OBVIOUS
<1>5. m \in S!Messages /\ m.type = "welcome" /\ m.peers = {}
  BY <1>4, MessageFacts, MessageTypes DEF S!PeerIds
<1>6. RelayInv'
  <2>1. Sends(m, {})
    BY <1>1, <1>2 DEF Sends
  <2>2. Advances(m, {})
    BY <1>2, <1>3 DEF Advances, Announced
  <2>3. WillBeTrue(m) /\ IsInTime(m, {})
    BY <1>5 DEF WillBeTrue, IsInTime
  <2>4. Numbered'
    BY <1>1, <1>2, <1>3 DEF RelayInv, Numbered
  <2>5. {} \in SUBSET Conns /\ home' \in [Conns -> {Room, NoRoom}] /\ id' \in [Conns -> Nat]
    BY <1>1, <1>2
  <2>. QED  BY <1>1, <1>3, <1>5, <2>1, <2>2, <2>3, <2>4, <2>5, RelayGrows
<1>7. Grown
  <2>1. \A d \in Conns : Len(outbox[d]) \in Nat
    BY <1>1
  <2>. QED  BY <1>2, <2>1 DEF Grown
<1>. QED  BY <1>1, <1>2, <1>6, <1>7, StampsStay

(* The announcements. *)
LEMMA Announcements ==
  ASSUME IInv, NEW c \in Conns, S!AnnounceJoined(c) \/ S!AnnounceLeft(c)
  PROVE  RelayInv' /\ Grown /\ Stamped'
<1>. DEFINE D == {d \in Conns : stage[d] \in {"registered", "joined"}} \ {c}
<1>1. /\ RelayInv /\ stage \in [Conns -> S!Stages] /\ home \in [Conns -> {Room, NoRoom}]
      /\ id \in [Conns -> Nat] /\ outbox \in [Conns -> Seq(S!Messages)] /\ Stamped
  BY DEF IInv, RelayInv, RelayTypes, ClientInv
<1>2. UNCHANGED <<home, id>> /\ stage[c] # "out" /\ id[c] # 0 /\ id[c] \in S!PeerIds
  BY <1>1 DEF S!AnnounceJoined, S!AnnounceLeft, S!Move, RelayInv, Numbered, S!PeerIds
<1>3. S!Members(home[c]) \ {c} = D
  BY <1>1, <1>2 DEF S!Members, RelayInv, Numbered
<1>4. PICK m \in S!Messages :
        /\ Sends(m, D)
        /\ \/ m = S!PeerJoined(id[c]) /\ m.type = "peer_joined"
              /\ stage[c] = "registered" /\ stage'[c] = "joined"
           \/ m = S!PeerLeft(id[c]) /\ m.type = "peer_left"
              /\ stage[c] = "departing" /\ stage'[c] = "gone"
        /\ Who(m) = id[c]
  <2>1. CASE S!AnnounceJoined(c)
    <3>1. PICK m : m = S!PeerJoined(id[c])
      OBVIOUS
    <3>2. m \in S!Messages /\ m.type = "peer_joined" /\ Who(m) = id[c]
      BY <1>2, <3>1, MessageFacts, MessageTypes DEF Who
    <3>3. Sends(m, D)
      BY <1>3, <2>1, <3>1 DEF S!AnnounceJoined, S!Announce, Sends
    <3>. QED  BY <1>1, <2>1, <3>1, <3>2, <3>3 DEF S!AnnounceJoined, S!Move
  <2>2. CASE S!AnnounceLeft(c)
    <3>1. PICK m : m = S!PeerLeft(id[c])
      OBVIOUS
    <3>2. m \in S!Messages /\ m.type = "peer_left" /\ Who(m) = id[c]
      BY <1>2, <3>1, MessageFacts, MessageTypes DEF Who
    <3>3. Sends(m, D)
      BY <1>3, <2>2, <3>1 DEF S!AnnounceLeft, S!Announce, Sends
    <3>. QED  BY <1>1, <2>2, <3>1, <3>2, <3>3 DEF S!AnnounceLeft, S!Move
  <2>. QED  BY <2>1, <2>2
<1>5. D \in SUBSET Conns /\ c \notin D
  OBVIOUS
<1>6. stage' \in [Conns -> S!Stages] /\ \A d \in Conns : d # c => stage'[d] = stage[d]
  BY <1>1 DEF S!AnnounceJoined, S!AnnounceLeft, S!Move, S!Stages
<1>7. Advances(m, D)
  <2>1. \A d \in D : stage[d] \in {"registered", "joined"}
    OBVIOUS
  <2>2. ASSUME NEW d \in Conns, d # c
        PROVE  stage'[d] = stage[d] /\ id'[d] = id[d]
               /\ (stage[d] \in {"out", "admitted"} => d \notin D)
    BY <1>2, <1>6, <2>2
  <2>3. id'[c] = id[c]
    BY <1>2
  <2>4. ASSUME NEW d \in Conns
        PROVE  /\ id'[d] = id[d]
               /\ Announced(d) => stage'[d] \in {"joined", "departing", "gone"}
               /\ stage[d] = "gone" => stage'[d] = "gone"
               /\ stage'[d] \in {"out", "admitted"} => stage[d] = stage'[d] /\ d \notin D
               /\ stage'[d] \in {"registered", "joined"} => stage[d] \in {"admitted", "registered", "joined"}
               /\ stage'[d] = "gone" /\ stage[d] # "gone" => m = S!PeerLeft(id[d]) /\ d = c
    BY <1>4, <2>2, <2>3 DEF Announced
  <2>. QED  BY <2>4 DEF Advances
<1>. HIDE DEF D
<1>8. WillBeTrue(m)
  BY <1>2, <1>4 DEF WillBeTrue
<1>9. IsInTime(m, D)
  <2>1. ASSUME NEW d \in D, NEW i \in 1 .. Len(outbox[d])
        PROVE  m.type # "welcome" /\ MayPrecede(outbox[d][i], m)
    <3>1. m.type # "welcome" /\ m.type # "signal"
      BY <1>4
    <3>2. m.type = "peer_joined" => stage[c] = "registered"
      BY <1>4
    <3>3. d \in Conns /\ IsTrue(outbox[d][i])
      BY <1>5 DEF RelayInv, Truthful, IInv
    <3>4. ASSUME m.type = "peer_joined", Who(outbox[d][i]) = Who(m)
          PROVE  outbox[d][i].type \notin {"peer_joined", "peer_left", "signal"}
      <4>1. \A e \in Conns : id[e] = id[c] => e = c
        BY <1>2 DEF IInv, RelayInv, Numbered
      <4>2. ~ Announced(c) /\ stage[c] # "gone"
        BY <3>2, <3>4 DEF Announced
      <4>. QED  BY <1>4, <3>3, <3>4, <4>1, <4>2 DEF IsTrue
    <3>. QED  BY <3>1, <3>4 DEF MayPrecede
  <2>. QED  BY <2>1 DEF IsInTime
<1>10. Numbered'
  <2>1. \A d \in Conns : stage'[d] = "out" <=> stage[d] = "out"
    BY <1>4, <1>6
  <2>. QED  BY <1>2, <2>1 DEF IInv, RelayInv, Numbered
<1>11. RelayInv'
  <2>1. home' \in [Conns -> {Room, NoRoom}] /\ id' \in [Conns -> Nat]
    BY <1>1, <1>2
  <2>. QED  BY <1>1, <1>4, <1>5, <1>6, <1>7, <1>8, <1>9, <1>10, <2>1, RelayGrows
<1>12. \A d \in Conns :
         /\ Len(outbox[d]) \in Nat /\ Len(outbox'[d]) \in Nat /\ Len(outbox[d]) <= Len(outbox'[d])
         /\ \A i \in 1 .. Len(outbox[d]) : i \in 1 .. Len(outbox'[d]) /\ outbox'[d][i] = outbox[d][i]
         /\ \A i \in 1 .. Len(outbox'[d]) :
              i \in 1 .. Len(outbox[d]) \/ outbox'[d][i] = m
  <2>1. m \in S!Messages /\ Sends(m, D) /\ D \in SUBSET Conns
    BY <1>4, <1>5
  <2>. QED  BY <1>1, <2>1, OutboxGrows
<1>13. Grown
  BY <1>2, <1>12 DEF Grown
<1>14. m.type # "signal"
  BY <1>4
<1>15. Stamped'
  BY <1>1, <1>12, <1>13, <1>14, StampsStay
<1>. QED  BY <1>11, <1>13, <1>15

LEMMA RelayRests ==
  ASSUME RelayInv, UNCHANGED relayVars
  PROVE  RelayInv'
<1>1. RelayTypes' /\ Numbered'
  BY DEF RelayInv, RelayTypes, Numbered, relayVars
<1>2. Truthful'
  BY DEF RelayInv, Truthful, IsTrue, Who, Announced, relayVars
<1>3. InOrder'
  BY DEF RelayInv, InOrder, MayPrecede, Who, relayVars
<1>4. LeaversAreAnnounced'
  BY DEF RelayInv, LeaversAreAnnounced, Hears, S!PeerJoined, S!PeerLeft, relayVars
<1>. QED  BY <1>1, <1>2, <1>3, <1>4 DEF RelayInv

LEMMA FrameFacts ==
  ASSUME NEW s \in Seq(Frames), NEW i \in 1 .. Len(s)
  PROVE  s[i].to \in Nat /\ s[i].body \in Bodies
<1>1. s[i] \in Frames
  BY ElementOfSeq
<1>. QED  BY <1>1 DEF Frames

(* A signal on its way. *)
LEMMA Forwarding ==
  ASSUME IInv, NEW c \in Conns, RelayForwards(c)
  PROVE  RelayInv' /\ Grown /\ Stamped'
<1>1. /\ RelayInv /\ stage \in [Conns -> S!Stages] /\ home \in [Conns -> {Room, NoRoom}]
      /\ id \in [Conns -> Nat] /\ outbox \in [Conns -> Seq(S!Messages)] /\ Stamped
      /\ sent[c] \in Seq(Frames) /\ Addressed /\ Numbered
  BY DEF IInv, RelayInv, RelayTypes, ClientInv, TypeOK
<1>2. CASE UNCHANGED relayVars
  <2>1. RelayInv'
    BY <1>1, <1>2, RelayRests
  <2>2. Grown
    <3>1. \A d \in Conns : Len(outbox[d]) \in Nat
      BY <1>1
    <3>. QED  BY <1>2, <3>1 DEF Grown, relayVars
  <2>. QED  BY <1>1, <1>2, <2>1, <2>2, StampsStay DEF relayVars
<1>3. ASSUME NEW d \in ConnWithId(Head(sent[c]).to), S!Forward(c, d, Head(sent[c]).body)
      PROVE  RelayInv' /\ Grown /\ Stamped'
  <2>. PICK f : f = Head(sent[c])
    OBVIOUS
  <2>1. sent[c] # <<>>
    BY DEF RelayForwards
  <2>2. Len(sent[c]) \in Nat /\ 1 \in 1 .. Len(sent[c]) /\ f = sent[c][1]
    BY <1>1, <2>1
  <2>3. f.to \in Nat /\ f.body \in Bodies
    BY <1>1, <2>2, FrameFacts
  <2>4. /\ d \in Conns /\ id[d] = f.to
        /\ stage[c] = "joined" /\ stage[d] \notin {"out", "admitted"}
        /\ outbox' = [outbox EXCEPT ![d] = Append(@, S!Signal(id[c], id[d], f.body))]
        /\ UNCHANGED <<stage, home, id>>
    BY <1>3 DEF S!Forward, S!Send, ConnWithId
  <2>5. id[c] # 0 /\ id[d] # 0
    BY <1>1, <2>4 DEF Numbered
  <2>6. PICK m \in S!Messages : m.type = "signal" /\ m.from = id[c] /\ m.body = f.body
                                /\ Sends(m, {d}) /\ Who(m) = id[c]
    <3>1. PICK m : m = S!Signal(id[c], id[d], f.body)
      OBVIOUS
    <3>2. m.type = "signal" /\ m.from = id[c] /\ m.body = f.body
      BY <3>1, MessageFacts
    <3>3. m \in S!Messages
      BY <1>1, <2>3, <2>4, <2>5, <3>1, MessageTypes DEF S!PeerIds
    <3>4. Sends(m, {d})
      BY <1>1, <2>4, <3>1 DEF Sends
    <3>. QED  BY <3>2, <3>3, <3>4 DEF Who
  <2>7. {d} \in SUBSET Conns
    BY <2>4
  <2>8. Advances(m, {d})
    BY <2>4 DEF Advances, Announced
  <2>9. WillBeTrue(m)
    BY <2>4, <2>6 DEF WillBeTrue
  <2>10. IsInTime(m, {d})
    <3>1. ASSUME NEW i \in 1 .. Len(outbox[d]) PROVE MayPrecede(outbox[d][i], m)
      <4>1. IsTrue(outbox[d][i])
        BY <1>1, <2>4 DEF RelayInv, Truthful
      <4>2. \A e \in Conns : id[e] = id[c] => e = c
        BY <1>1, <2>5 DEF Numbered
      <4>. QED  BY <2>4, <2>6, <4>1, <4>2 DEF IsTrue, MayPrecede
    <3>. QED  BY <2>6, <3>1 DEF IsInTime
  <2>11. Numbered' /\ stage' \in [Conns -> S!Stages] /\ home' \in [Conns -> {Room, NoRoom}]
         /\ id' \in [Conns -> Nat]
    BY <1>1, <2>4 DEF Numbered
  <2>12. RelayInv'
    BY <1>1, <2>6, <2>7, <2>8, <2>9, <2>10, <2>11, RelayGrows
  <2>13. \A e \in Conns :
           /\ Len(outbox[e]) \in Nat /\ Len(outbox'[e]) \in Nat /\ Len(outbox[e]) <= Len(outbox'[e])
           /\ \A i \in 1 .. Len(outbox[e]) : i \in 1 .. Len(outbox'[e]) /\ outbox'[e][i] = outbox[e][i]
           /\ \A i \in 1 .. Len(outbox'[e]) :
                i \in 1 .. Len(outbox[e]) \/ (e = d /\ outbox'[e][i] = m)
    <3>1. m \in S!Messages /\ Sends(m, {d}) /\ {d} \in SUBSET Conns
      BY <2>6, <2>7
    <3>2. \A e \in Conns :
           /\ Len(outbox[e]) \in Nat /\ Len(outbox'[e]) \in Nat /\ Len(outbox[e]) <= Len(outbox'[e])
           /\ \A i \in 1 .. Len(outbox[e]) : i \in 1 .. Len(outbox'[e]) /\ outbox'[e][i] = outbox[e][i]
           /\ \A i \in 1 .. Len(outbox'[e]) :
                i \in 1 .. Len(outbox[e]) \/ (e \in {d} /\ outbox'[e][i] = m)
      BY <1>1, <3>1, OutboxGrows
    <3>. QED  BY <3>2
  <2>14. Grown
    BY <2>4, <2>13 DEF Grown
  <2>15. /\ c \in Publishers => Names(f.to, Subscribers) /\ f.body.pc[1] = c
         /\ c \in Subscribers => Names(f.to, Publishers)
    BY <1>1, <2>2 DEF Addressed
  <2>16. /\ d \in Publishers => c \in Subscribers
         /\ d \in Subscribers => c \in Publishers /\ m.body.pc[1] = c
    <3>1. \A e \in Conns : id[e] = f.to => e = d
      BY <1>1, <2>4, <2>5 DEF Numbered
    <3>. QED  BY <2>6, <2>15, <3>1, SessionAssumption DEF Names, Conns
  <2>17. ASSUME NEW e \in Conns, NEW i \in 1 .. Len(outbox'[e]), outbox'[e][i].type = "signal"
         PROVE  /\ e \in Publishers => /\ outbox'[e][i].from # 0
                                       /\ \E s \in Subscribers : id[s] = outbox'[e][i].from
                /\ e \in Subscribers => id[outbox'[e][i].body.pc[1]] = outbox'[e][i].from
    <3>1. CASE i \in 1 .. Len(outbox[e])
      <4>1. outbox'[e][i] = outbox[e][i]
        BY <2>13, <3>1
      <4>2. /\ e \in Publishers => Names(outbox[e][i].from, Subscribers)
            /\ e \in Subscribers => id[outbox[e][i].body.pc[1]] = outbox[e][i].from
        BY <1>1, <2>17, <3>1, <4>1 DEF Stamped
      <4>. QED  BY <4>1, <4>2 DEF Names
    <3>2. CASE e = d /\ outbox'[e][i] = m
      BY SMTT(30), <2>5, <2>6, <2>16, <3>2
    <3>. QED  BY <2>13, <3>1, <3>2
  <2>18. Stamped'
    BY <2>4, <2>17 DEF Stamped, Names
  <2>. QED  BY <2>12, <2>14, <2>18
<1>. QED  BY <1>2, <1>3 DEF RelayForwards

----------------------------------------------------------------------------
(* What stays true of the clients while they do nothing.                    *)

LEMMA AboutSomeone ==
  ASSUME RelayInv, NEW c \in Conns, NEW i \in 1 .. Len(outbox[c])
  PROVE  /\ outbox[c][i] \in S!Messages
         /\ outbox[c][i].type \in {"peer_joined", "peer_left", "signal"} =>
              Who(outbox[c][i]) # 0 /\ \E d \in Conns : id[d] = Who(outbox[c][i])
         /\ outbox[c][i].type = "welcome" =>
              \A k \in outbox[c][i].peers : k # 0 /\ \E d \in Conns : id[d] = k
<1>1. outbox[c][i] \in S!Messages
  BY ElementOfSeq DEF RelayInv, RelayTypes
<1>2. IsTrue(outbox[c][i])
  BY DEF RelayInv, Truthful
<1>3. \A d \in Conns : Announced(d) \/ stage[d] = "gone" => id[d] # 0
  BY DEF RelayInv, Numbered, Announced
<1>4. outbox[c][i].type = "welcome" => \A k \in outbox[c][i].peers : k # 0
  BY <1>1, MessageFields DEF S!PeerIds
<1>. QED  BY <1>1, <1>2, <1>3, <1>4 DEF IsTrue

(* What has been read, of someone with an id and of someone without.        *)
LEMMA ReadStays ==
  ASSUME IInv, RelayInv', Grown, UNCHANGED seen, NEW c \in Conns, NEW d \in Conns
  PROVE  /\ id[d] # 0 =>
              /\ id'[d] = id[d]
              /\ Welcomed(c, d)' <=> Welcomed(c, d)
              /\ HasRead(c, S!PeerJoined(id[d]))' <=> HasRead(c, S!PeerJoined(id[d]))
              /\ HasRead(c, S!PeerLeft(id[d]))' <=> HasRead(c, S!PeerLeft(id[d]))
              /\ HasAnswered(c, d)' <=> HasAnswered(c, d)
         /\ id[d] = 0 =>
              /\ ~ Welcomed(c, d) /\ ~ HasRead(c, S!PeerJoined(id[d]))
              /\ ~ HasRead(c, S!PeerLeft(id[d]))' /\ ~ HasAnswered(c, d)
<1>1. seen[c] \in Nat /\ seen[c] <= Len(outbox[c]) /\ Len(outbox[c]) \in Nat
  BY DEF IInv, ClientInv, TypeOK, Cabled, Grown
<1>2. \A i \in 1 .. seen[c] : i \in 1 .. Len(outbox[c]) /\ outbox'[c][i] = outbox[c][i]
  BY <1>1 DEF Grown
<1>3. CASE id[d] # 0
  <2>1. id'[d] = id[d]
    BY <1>3 DEF Grown
  <2>. QED  BY <1>2, <1>3, <2>1 DEF Welcomed, HasRead, HasAnswered, S!PeerJoined, S!PeerLeft
<1>4. CASE id[d] = 0
  <2>1. ~ Welcomed(c, d) /\ ~ HasRead(c, S!PeerJoined(id[d])) /\ ~ HasAnswered(c, d)
    <3>1. ASSUME NEW i \in 1 .. seen[c]
          PROVE  /\ ~ (outbox[c][i].type = "welcome" /\ id[d] \in outbox[c][i].peers)
                 /\ outbox[c][i] # S!PeerJoined(id[d])
                 /\ ~ (outbox[c][i].type = "signal" /\ outbox[c][i].from = id[d])
      <4>1. i \in 1 .. Len(outbox[c])
        BY <1>2
      <4>. QED  BY <1>4, <4>1, AboutSomeone, MessageFacts DEF IInv, Who
    <3>. QED  BY <3>1 DEF Welcomed, HasRead, HasAnswered
  <2>2. ASSUME NEW i \in 1 .. seen'[c], outbox'[c][i] = S!PeerLeft(id'[d])
        PROVE  FALSE
    <3>1. i \in 1 .. Len(outbox[c]) /\ outbox[c][i] = S!PeerLeft(id'[d])
      BY <1>2, <2>2
    <3>2. outbox[c][i].type = "peer_left" /\ Who(outbox[c][i]) = id'[d]
      BY <3>1 DEF S!PeerLeft, Who
    <3>3. PICK e \in Conns : id[e] = id'[d] /\ id[e] # 0
      BY <3>1, <3>2, AboutSomeone DEF IInv
    <3>4. id'[e] = id'[d] /\ id'[e] # 0
      BY <3>3 DEF Grown
    <3>5. e = d
      BY <3>4 DEF RelayInv, Numbered
    <3>. QED  BY <1>4, <3>3, <3>5
  <2>. QED  BY <1>4, <2>1, <2>2 DEF HasRead, S!PeerLeft
<1>. QED  BY <1>3, <1>4

(* The publisher's part, when it does nothing. *)
LEMMA PublisherRests ==
  ASSUME IInv, RelayInv', Grown, UNCHANGED <<seen, publisherVars>>
  PROVE  OffersAreInvited' /\ Mapped' /\ Settled' /\ LeaversAreClosed'
<1>. USE DEF publisherVars
<1>1. \A c \in Publishers \cup Subscribers : c \in Conns
  BY DEF Conns
<1>2. Mapped'
  BY DEF IInv, ClientInv, Mapped
<1>3. OffersAreInvited'
  <2>1. ASSUME NEW p \in Publishers, NEW s \in Subscribers
        PROVE  /\ s \in todo'[p] => id'[s] # 0 /\ made'[p][s] <= 1
               /\ made'[p][s] <= 2
               /\ ~ Welcomed(p, s)' \/ ~ HasRead(p, S!PeerJoined(id[s]))' =>
                    made'[p][s] <= 1 /\ (s \in todo'[p] => made'[p][s] = 0)
               /\ ~ Welcomed(p, s)' /\ ~ HasRead(p, S!PeerJoined(id[s]))' => made'[p][s] = 0 /\ s \notin todo'[p]
    <3>1. /\ s \in todo[p] => id[s] # 0 /\ made[p][s] <= 1
          /\ made[p][s] <= 2
          /\ ~ Welcomed(p, s) \/ ~ HasRead(p, S!PeerJoined(id[s])) =>
               made[p][s] <= 1 /\ (s \in todo[p] => made[p][s] = 0)
          /\ ~ Welcomed(p, s) /\ ~ HasRead(p, S!PeerJoined(id[s])) => made[p][s] = 0 /\ s \notin todo[p]
      BY DEF IInv, ClientInv, OffersAreInvited
    <3>2. CASE id[s] # 0
      <4>1. /\ id'[s] = id[s] /\ (Welcomed(p, s)' <=> Welcomed(p, s))
            /\ HasRead(p, S!PeerJoined(id[s]))' <=> HasRead(p, S!PeerJoined(id[s]))
        BY <1>1, <3>2, ReadStays
      <4>. QED  BY <3>1, <4>1
    <3>3. CASE id[s] = 0
      <4>1. ~ Welcomed(p, s) /\ ~ HasRead(p, S!PeerJoined(id[s]))
        BY <1>1, <3>3, ReadStays
      <4>. QED  BY <3>1, <4>1
    <3>. QED  BY <3>2, <3>3
  <2>. QED  BY <2>1 DEF OffersAreInvited
<1>4. Settled'
  <2>1. ASSUME NEW p \in Publishers, NEW s \in Subscribers, HasAnswered(p, s)
        PROVE  HasAnswered(p, s)'
    BY <1>1, <2>1, ReadStays
  <2>. QED  BY <2>1 DEF IInv, ClientInv, Settled
<1>5. LeaversAreClosed'
  <2>1. ASSUME NEW p \in Publishers, NEW s \in Subscribers, HasRead(p, S!PeerLeft(id[s]))'
        PROVE  HasRead(p, S!PeerLeft(id[s]))
    BY <1>1, <2>1, ReadStays
  <2>. QED  BY <2>1 DEF IInv, ClientInv, LeaversAreClosed
<1>. QED  BY <1>2, <1>3, <1>4, <1>5

(* The page's part. *)
LEMMA PageRests ==
  ASSUME IInv, RelayInv', Grown, UNCHANGED <<seen, rpc, answering>>
  PROVE  Attached' /\ DepartedPublisherIsDropped'
<1>1. \A s \in Subscribers : rpc[s] # NoPc => rpc[s][1] \in Publishers /\ rpc[s][1] \in Conns
  BY DEF IInv, ClientInv, TypeOK, Pcs, Conns
<1>2. Attached'
  BY <1>1 DEF IInv, ClientInv, Attached, Grown
<1>3. DepartedPublisherIsDropped'
  <2>1. ASSUME NEW s \in Subscribers, NEW p \in Publishers, HasRead(s, S!PeerLeft(id[p]))', From(s) = p
        PROVE  FALSE
    <3>1. p \in Conns /\ s \in Conns
      BY DEF Conns
    <3>2. rpc[s] # NoPc /\ rpc[s][1] = p
      BY <2>1, <3>1, SessionAssumption DEF From
    <3>3. id[p] # 0
      BY <3>2 DEF IInv, ClientInv, Attached
    <3>4. HasRead(s, S!PeerLeft(id[p]))
      BY <2>1, <3>1, <3>3, ReadStays
    <3>. QED  BY <2>1, <3>4 DEF IInv, ClientInv, DepartedPublisherIsDropped, HasRead
  <2>2. ASSUME NEW s \in Subscribers, NEW p \in Publishers, HasRead(s, S!PeerLeft(id[p]))'
        PROVE  From(s)' # p
    BY <2>1, <2>2 DEF From
  <2>. QED  BY <2>2 DEF DepartedPublisherIsDropped, HasRead
<1>. QED  BY <1>2, <1>3

(* Frames are on their way, and read in turn. *)
LEMMA FramesRest ==
  ASSUME IInv, Grown,
         \A c \in Conns : \A i \in 1 .. Len(sent'[c]) : \E j \in 1 .. Len(sent[c]) : sent'[c][i] = sent[c][j]
  PROVE  Addressed'
<1>1. \A k, C : C \subseteq Conns /\ Names(k, C) => k # 0 /\ \E c \in C : id'[c] = k
  BY DEF Names, Grown
<1>2. ASSUME NEW c \in Conns, NEW i \in 1 .. Len(sent'[c])
      PROVE  /\ c \in Publishers => /\ sent'[c][i].to # 0 /\ \E s \in Subscribers : id'[s] = sent'[c][i].to
                                    /\ sent'[c][i].body.pc[1] = c
             /\ c \in Subscribers => sent'[c][i].to # 0 /\ \E s \in Publishers : id'[s] = sent'[c][i].to
  <2>1. PICK j \in 1 .. Len(sent[c]) : sent'[c][i] = sent[c][j]
    BY <1>2
  <2>2. /\ c \in Publishers => Names(sent[c][j].to, Subscribers) /\ sent[c][j].body.pc[1] = c
        /\ c \in Subscribers => Names(sent[c][j].to, Publishers)
    BY DEF IInv, ClientInv, Addressed
  <2>3. Publishers \subseteq Conns /\ Subscribers \subseteq Conns
    BY DEF Conns
  <2>. QED  BY <1>1, <2>1, <2>2, <2>3
<1>. QED  BY <1>2 DEF Addressed, Names

LEMMA SameOutbox ==
  ASSUME IInv, UNCHANGED relayVars
  PROVE  RelayInv' /\ Grown /\ Stamped'
<1>1. RelayInv'
  BY RelayRests DEF IInv
<1>2. \A c \in Conns : Len(outbox[c]) \in Nat
  BY DEF IInv, RelayInv, RelayTypes
<1>3. Grown
  BY <1>2 DEF Grown, relayVars
<1>4. Stamped'
  BY DEF IInv, ClientInv, Stamped, Names, relayVars
<1>. QED  BY <1>1, <1>3, <1>4

LEMMA RelaySteps ==
  ASSUME IInv, NEW c \in Conns, RelayStep(c) \/ NetworkCuts(c)
  PROVE  IInv'
<1>. USE DEF publisherVars, socketVars, pageVars
<1>1. RelayInv' /\ Grown /\ Stamped'
  <2>1. CASE RelayAdmits(c)
    BY <2>1, Admission
  <2>2. CASE RelayRegisters(c) \/ RelayNoticesEnd(c)
    BY <2>2, QuietMoves DEF RelayRegisters, RelayNoticesEnd
  <2>3. CASE RelayAnnounces(c) \/ RelayAnnouncesEnd(c)
    BY <2>3, Announcements DEF RelayAnnounces, RelayAnnouncesEnd
  <2>4. CASE RelayForwards(c)
    BY <2>4, Forwarding
  <2>5. CASE NetworkCuts(c)
    BY <2>5, SameOutbox DEF NetworkCuts
  <2>. QED  BY <2>1, <2>2, <2>3, <2>4, <2>5 DEF RelayStep
<1>2. /\ UNCHANGED <<seen, publisherVars, rpc, answering, health, armed, shown>>
      /\ troubles' = troubles \/ Upset
      /\ link' = link \/ (link[c] = "up" /\ link' = [link EXCEPT ![c] = "cut"])
      /\ \/ sent' = sent
         \/ sent[c] # <<>> /\ sent' = [sent EXCEPT ![c] = Tail(@)]
         \/ sent' = [sent EXCEPT ![c] = <<>>]
  BY DEF RelayStep, RelayAdmits, RelayRegisters, RelayAnnounces, RelayForwards, RelayNoticesEnd,
     RelayAnnouncesEnd, NetworkCuts
<1>3. /\ sent \in [Conns -> Seq(Frames)]
      /\ link \in [Conns -> {"unused", "up", "cut", "closing", "over"}]
      /\ troubles \in 0 .. MaxTroubles /\ MaxTroubles \in Nat
      /\ stage \in [Conns -> S!Stages]
  BY SessionAssumption DEF IInv, ClientInv, TypeOK, RelayInv, RelayTypes
<1>4. ASSUME sent[c] # <<>>
      PROVE  /\ Tail(sent[c]) \in Seq(Frames)
             /\ \A i \in 1 .. Len(Tail(sent[c])) : i + 1 \in 1 .. Len(sent[c]) /\ Tail(sent[c])[i] = sent[c][i + 1]
  <2>1. sent[c] \in Seq(Frames) /\ Len(sent[c]) \in Nat
    BY <1>3
  <2>2. /\ Tail(sent[c]) \in Seq(Frames) /\ Len(Tail(sent[c])) = Len(sent[c]) - 1
        /\ \A i \in 1 .. Len(Tail(sent[c])) : Tail(sent[c])[i] = sent[c][i + 1]
    BY <1>4, <2>1, HeadTailProperties
  <2>. QED  BY <2>1, <2>2
<1>5. Addressed'
  <2>1. ASSUME NEW d \in Conns, NEW i \in 1 .. Len(sent'[d])
        PROVE  \E j \in 1 .. Len(sent[d]) : sent'[d][i] = sent[d][j]
    <3>1. CASE sent' = sent
      BY <2>1, <3>1
    <3>2. CASE sent[c] # <<>> /\ sent' = [sent EXCEPT ![c] = Tail(@)]
      <4>1. CASE d = c
        <5>1. sent'[d] = Tail(sent[c])
          BY <1>3, <3>2, <4>1
        <5>. QED  BY <1>4, <2>1, <3>2, <4>1, <5>1
      <4>2. CASE d # c
        BY <1>3, <2>1, <3>2, <4>2
      <4>. QED  BY <4>1, <4>2
    <3>3. CASE sent' = [sent EXCEPT ![c] = <<>>]
      BY <1>3, <2>1, <3>3
    <3>. QED  BY <1>2, <3>1, <3>2, <3>3
  <2>. QED  BY <1>1, <2>1, FramesRest
<1>6. TypeOK'
  <2>1. sent' \in [Conns -> Seq(Frames)]
    <3>1. sent[c] # <<>> => Tail(sent[c]) \in Seq(Frames)
      BY <1>4
    <3>2. <<>> \in Seq(Frames)
      OBVIOUS
    <3>3. \A v \in Seq(Frames) : [sent EXCEPT ![c] = v] \in [Conns -> Seq(Frames)]
      BY <1>3
    <3>. QED  BY <1>2, <1>3, <3>1, <3>2, <3>3
  <2>2. link' \in [Conns -> {"unused", "up", "cut", "closing", "over"}]
    BY <1>2, <1>3
  <2>3. troubles' \in 0 .. MaxTroubles
    BY <1>2, <1>3 DEF Upset
  <2>. QED  BY <1>2, <2>1, <2>2, <2>3 DEF IInv, ClientInv, TypeOK
<1>7. Cabled'
  <2>1. ASSUME NEW d \in Conns
        PROVE  /\ link'[d] = "unused" => stage'[d] = "out"
               /\ link'[d] = "up" => stage'[d] \notin {"departing", "gone"}
    <3>1. /\ link[d] = "unused" => stage[d] = "out"
          /\ link[d] = "up" => stage[d] \notin {"departing", "gone"}
      BY DEF IInv, ClientInv, Cabled
    <3>2. d # c => stage'[d] = stage[d] /\ link'[d] = link[d]
      BY <1>2, <1>3 DEF RelayStep, RelayAdmits, RelayRegisters, RelayAnnounces, RelayForwards, RelayNoticesEnd,
         RelayAnnouncesEnd, NetworkCuts, S!Admit, S!Register, S!AnnounceJoined, S!Forward, S!Depart,
         S!AnnounceLeft, S!Move, relayVars
    <3>3. CASE d = c
      BY <1>2, <1>3, <3>1, <3>3 DEF RelayStep, RelayAdmits, RelayRegisters, RelayAnnounces, RelayForwards,
         RelayNoticesEnd, RelayAnnouncesEnd, NetworkCuts, S!Admit, S!Register, S!AnnounceJoined, S!Forward,
         S!Depart, S!AnnounceLeft, S!Move, relayVars
    <3>. QED  BY <3>1, <3>2, <3>3
  <2>2. \A d \in Conns : seen'[d] <= Len(outbox'[d])
    BY <1>1, <1>2 DEF IInv, ClientInv, TypeOK, Cabled, Grown
  <2>. QED  BY <2>1, <2>2 DEF Cabled
<1>8. PageNeverGivesUp'
  BY <1>2, <1>3 DEF IInv, ClientInv, PageNeverGivesUp, Conns
<1>. QED  BY <1>1, <1>2, <1>5, <1>6, <1>7, <1>8, PublisherRests, PageRests DEF IInv, ClientInv

----------------------------------------------------------------------------
(* Steps of the clients.                                                    *)

(* Sockets opened, closed and given up. *)
LEMMA SocketSteps ==
  ASSUME IInv, \/ \E p \in Publishers : PublisherConnects(p)
               \/ \E s \in Subscribers : \/ PageConnects(s) \/ PageOnClose(s)
                                         \/ PageStuck(s) \/ PageFails(s) \/ PathFails(s)
  PROVE  IInv'
<1>. USE DEF publisherVars, socketVars, pageVars
<1>1. /\ UNCHANGED <<relayVars, sent, seen, publisherVars, rpc, answering, shown>>
      /\ troubles' = troubles \/ Upset
  BY DEF PublisherConnects, PageConnects, PageOnClose, PageStuck, PageFails, PathFails, Trouble
<1>2. /\ link \in [Conns -> {"unused", "up", "cut", "closing", "over"}]
      /\ health \in [Subscribers -> {"fine", "stuck", "failed"}] /\ armed \in BOOLEAN
      /\ troubles \in 0 .. MaxTroubles /\ MaxTroubles \in Nat
      /\ \A c \in Publishers \cup Subscribers : c \in Conns
      /\ PageNeverGivesUp
  BY SessionAssumption DEF IInv, ClientInv, TypeOK, Conns
<1>3. /\ link' \in [Conns -> {"unused", "up", "cut", "closing", "over"}]
      /\ \A c \in Conns : \/ link'[c] = link[c] \/ link'[c] \in {"closing", "over"}
                          \/ (link[c] = "unused" /\ link'[c] = "up")
      /\ PageNeverGivesUp'
      /\ health' \in [Subscribers -> {"fine", "stuck", "failed"}] /\ armed' \in BOOLEAN
  <2>1. CASE \E p \in Publishers : PublisherConnects(p)
    <3>1. PICK p \in Publishers : PublisherConnects(p)
      BY <2>1
    <3>2. /\ link[p] = "unused" /\ link' = [link EXCEPT ![p] = "up"] /\ UNCHANGED <<armed, health>>
          /\ p \in Conns /\ p \notin Subscribers
      BY <1>2, <3>1, SessionAssumption DEF PublisherConnects, Open
    <3>3. PageNeverGivesUp'
      BY <1>2, <3>2 DEF PageNeverGivesUp
    <3>. QED  BY <1>2, <3>2, <3>3
  <2>2. CASE \E s \in Subscribers : PageConnects(s)
    <3>1. PICK s \in Subscribers : PageConnects(s)
      BY <2>2
    <3>2. /\ link[s] = "unused" /\ link' = [link EXCEPT ![s] = "up"] /\ armed' = FALSE /\ health' = health
          /\ s \in Conns
      BY <1>2, <3>1 DEF PageConnects, Open
    <3>3. PageNeverGivesUp'
      BY <1>2, <3>2 DEF PageNeverGivesUp
    <3>. QED  BY <1>2, <3>2, <3>3
  <2>3. CASE \E s \in Subscribers : PageOnClose(s)
    <3>1. PICK s \in Subscribers : PageOnClose(s)
      BY <2>3
    <3>2. /\ link' = [link EXCEPT ![s] = "over"] /\ armed' = TRUE /\ health' = health /\ s \in Conns
      BY <1>2, <3>1 DEF PageOnClose
    <3>. QED  BY <1>2, <3>2 DEF PageNeverGivesUp
  <2>4. CASE \E s \in Subscribers : PageStuck(s) \/ PageFails(s) \/ PathFails(s)
    <3>1. PICK s \in Subscribers : scheduleRecovery(s) /\ health' \in [Subscribers -> {"fine", "stuck", "failed"}]
      <4>1. PICK s \in Subscribers, h \in {"stuck", "failed"} : Trouble(s, h)
        BY <2>4 DEF PageStuck, PageFails, PathFails
      <4>. QED  BY <1>2, <4>1 DEF Trouble
    <3>2. CASE armed
      BY <1>2, <3>1, <3>2 DEF scheduleRecovery, PageNeverGivesUp
    <3>3. CASE ~ armed
      <4>1. /\ armed' = TRUE /\ s \in Conns
            /\ link' = [link EXCEPT ![s] = IF Live(s) THEN "closing" ELSE @]
        BY <1>2, <3>1, <3>3 DEF scheduleRecovery
      <4>. QED  BY <1>2, <3>1, <4>1 DEF PageNeverGivesUp
    <3>. QED  BY <3>2, <3>3
  <2>. QED  BY <2>1, <2>2, <2>3, <2>4
<1>4. RelayInv' /\ Grown /\ Stamped'
  BY <1>1, SameOutbox
<1>5. Addressed'
  <2>1. \A c \in Conns : \A i \in 1 .. Len(sent'[c]) : \E j \in 1 .. Len(sent[c]) : sent'[c][i] = sent[c][j]
    BY <1>1
  <2>. QED  BY <1>4, <2>1, FramesRest
<1>6. TypeOK'
  <2>1. troubles' \in 0 .. MaxTroubles
    BY <1>1, <1>2 DEF Upset
  <2>. QED  BY <1>1, <1>3, <2>1 DEF IInv, ClientInv, TypeOK
<1>7. Cabled'
  BY <1>1, <1>3 DEF IInv, ClientInv, Cabled, relayVars
<1>. QED  BY <1>1, <1>3, <1>4, <1>5, <1>6, <1>7, PublisherRests, PageRests DEF IInv, ClientInv

(* What is written to a socket. *)
LEMMA WriteFacts ==
  ASSUME IInv, UNCHANGED relayVars, NEW c \in Conns, NEW k \in Nat, NEW b \in Bodies, Write(c, k, b),
         c \in Publishers => Names(k, Subscribers) /\ b.pc[1] = c,
         c \in Subscribers => Names(k, Publishers)
  PROVE  sent' \in [Conns -> Seq(Frames)] /\ Addressed'
<1>1. sent \in [Conns -> Seq(Frames)] /\ Addressed /\ \A d \in Conns : Len(sent[d]) \in Nat
  BY DEF IInv, ClientInv, TypeOK
<1>2. CASE sent' = sent
  BY <1>1, <1>2 DEF Addressed, Names, relayVars
<1>3. CASE sent' = [sent EXCEPT ![c] = Append(@, [to |-> k, body |-> b])]
  <2>. PICK f : f = [to |-> k, body |-> b]
    OBVIOUS
  <2>1. f \in Frames /\ f.to = k /\ f.body = b
    BY DEF Frames
  <2>2. /\ Append(sent[c], f) \in Seq(Frames) /\ Len(Append(sent[c], f)) = Len(sent[c]) + 1
        /\ \A i \in 1 .. Len(sent[c]) : Append(sent[c], f)[i] = sent[c][i]
        /\ Append(sent[c], f)[Len(sent[c]) + 1] = f
    BY <1>1, <2>1, AppendProperties
  <2>3. /\ sent' \in [Conns -> Seq(Frames)] /\ sent'[c] = Append(sent[c], f)
        /\ \A d \in Conns : d # c => sent'[d] = sent[d]
    BY <1>1, <1>3, <2>2
  <2>4. ASSUME NEW d \in Conns, NEW i \in 1 .. Len(sent'[d])
        PROVE  /\ d \in Publishers => Names(sent'[d][i].to, Subscribers) /\ sent'[d][i].body.pc[1] = d
               /\ d \in Subscribers => Names(sent'[d][i].to, Publishers)
    <3>1. CASE i \in 1 .. Len(sent[d]) /\ sent'[d][i] = sent[d][i]
      BY <1>1, <3>1 DEF Addressed
    <3>2. CASE d = c /\ sent'[d][i] = f
      BY <2>1, <3>2
    <3>3. CASE d = c
      <4>1. i \in 1 .. Len(sent[c]) \/ i = Len(sent[c]) + 1
        BY <1>1, <2>2, <2>3, <3>3
      <4>. QED  BY <2>2, <2>3, <3>1, <3>2, <3>3, <4>1
    <3>4. CASE d # c
      BY <2>3, <3>1, <3>4
    <3>. QED  BY <3>3, <3>4
  <2>. QED  BY <2>3, <2>4 DEF Addressed, Names, relayVars
<1>. QED  BY <1>2, <1>3 DEF Write

LEMMA SameReads ==
  ASSUME UNCHANGED <<relayVars, seen>>, NEW c, NEW d
  PROVE  /\ Welcomed(c, d)' <=> Welcomed(c, d)
         /\ HasRead(c, S!PeerJoined(id[d]))' <=> HasRead(c, S!PeerJoined(id[d]))
         /\ HasRead(c, S!PeerLeft(id[d]))' <=> HasRead(c, S!PeerLeft(id[d]))
         /\ HasAnswered(c, d)' <=> HasAnswered(c, d)
  BY DEF relayVars, Welcomed, HasRead, HasAnswered, S!PeerJoined, S!PeerLeft

LEMMA PageAnswersSteps ==
  ASSUME IInv, NEW s \in Subscribers, PageAnswers(s)
  PROVE  IInv'
<1>. USE DEF publisherVars, socketVars, pageVars
<1>1. /\ answering[s] /\ answering' = [answering EXCEPT ![s] = FALSE]
      /\ Write(s, id[rpc[s][1]], Answer(rpc[s]))
      /\ UNCHANGED <<relayVars, link, seen, publisherVars, rpc, health, armed, shown, troubles>>
  BY DEF PageAnswers
<1>2. RelayInv' /\ Grown /\ Stamped'
  BY <1>1, SameOutbox
<1>3. /\ s \in Conns /\ s \notin Publishers /\ rpc[s] \in Pcs /\ rpc[s][1] \in Publishers
      /\ rpc[s][1] \in Conns /\ id[rpc[s][1]] # 0 /\ id[rpc[s][1]] \in Nat
  BY <1>1, SessionAssumption DEF IInv, ClientInv, TypeOK, Attached, Pcs, Conns, RelayInv, RelayTypes
<1>4. Answer(rpc[s]) \in Bodies
  BY <1>3 DEF Bodies
<1>5. Names(id[rpc[s][1]], Publishers)
  BY <1>3 DEF Names
<1>6. sent' \in [Conns -> Seq(Frames)] /\ Addressed'
  <2>. PICK k, b : k = id[rpc[s][1]] /\ b = Answer(rpc[s])
    OBVIOUS
  <2>. QED  BY <1>1, <1>3, <1>4, <1>5, WriteFacts
<1>7. TypeOK'
  BY <1>1, <1>6 DEF IInv, ClientInv, TypeOK
<1>8. Attached' /\ DepartedPublisherIsDropped'
  BY <1>1 DEF IInv, ClientInv, TypeOK, Attached, DepartedPublisherIsDropped, From, S!PeerLeft, relayVars
<1>9. Cabled' /\ PageNeverGivesUp'
  BY <1>1 DEF IInv, ClientInv, Cabled, PageNeverGivesUp, relayVars
<1>. QED  BY <1>1, <1>2, <1>6, <1>7, <1>8, <1>9, PublisherRests DEF IInv, ClientInv

LEMMA PcFacts ==
  ASSUME NEW p \in Publishers, NEW s \in Subscribers, NEW n \in 1 .. 3
  PROVE  /\ <<p, s, n>> \in Pcs /\ <<p, s, n>> # NoPc
         /\ <<p, s, n>>[1] = p
         /\ \A q \in Publishers, t \in Subscribers : \A k \in 1 .. 3 :
              <<p, s, n>> = <<q, t, k>> => p = q /\ s = t /\ n = k
  BY SessionAssumption DEF Pcs

LEMMA LosingSteps ==
  ASSUME IInv, NEW p \in Publishers, PublisherLosesRelay(p)
  PROVE  IInv'
<1>. USE DEF publisherVars, socketVars, pageVars
<1>1. /\ link[p] = "cut" /\ link' = [link EXCEPT ![p] = "over"]
      /\ todo' = [todo EXCEPT ![p] = {}]
      /\ pcs' = [pcs EXCEPT ![p] = [s \in Subscribers |-> NoPc]]
      /\ pc' = [x \in Pcs |-> IF x[1] = p /\ pc[x] \in {"offered", "stable"} THEN "lost" ELSE pc[x]]
      /\ UNCHANGED <<relayVars, sent, seen, made, answered, pageVars>>
  BY DEF PublisherLosesRelay
<1>2. RelayInv' /\ Grown /\ Stamped'
  BY <1>1, SameOutbox
<1>3. TypeOK /\ p \in Conns /\ p \notin Subscribers
  BY SessionAssumption DEF IInv, ClientInv, Conns
<1>4. /\ link' \in [Conns -> {"unused", "up", "cut", "closing", "over"}]
      /\ \A c \in Conns : link'[c] = link[c] \/ (c = p /\ link'[c] = "over")
      /\ todo' \in [Publishers -> SUBSET Subscribers]
      /\ pcs' \in [Publishers -> [Subscribers -> Pcs \cup {NoPc}]]
      /\ pc' \in [Pcs -> {"none", "offered", "stable", "closed", "lost"}]
  BY <1>1, <1>3 DEF TypeOK
<1>5. TypeOK'
  BY <1>1, <1>3, <1>4 DEF TypeOK
<1>6. Cabled' /\ PageNeverGivesUp'
  <2>1. Cabled'
    BY <1>1, <1>4 DEF IInv, ClientInv, Cabled, relayVars
  <2>2. \A s \in Subscribers : link'[s] = link[s]
    BY <1>3, <1>4 DEF Conns
  <2>. QED  BY <1>1, <2>1, <2>2 DEF IInv, ClientInv, PageNeverGivesUp
<1>7. Addressed'
  <2>1. \A c \in Conns : \A i \in 1 .. Len(sent'[c]) : \E j \in 1 .. Len(sent[c]) : sent'[c][i] = sent[c][j]
    BY <1>1
  <2>. QED  BY <1>2, <2>1, FramesRest
<1>8. \A q \in Publishers, t \in Subscribers :
        /\ \/ todo'[q] = {} /\ pcs'[q][t] = NoPc /\ q = p
           \/ todo'[q] = todo[q] /\ pcs'[q][t] = pcs[q][t] /\ q # p
        /\ made'[q][t] = made[q][t]
  BY <1>1, <1>3 DEF TypeOK
<1>9. Mapped'
  BY <1>8 DEF IInv, ClientInv, Mapped
<1>10. OffersAreInvited'
  <2>1. ASSUME NEW q \in Publishers, NEW t \in Subscribers
        PROVE  (t \in todo'[q] => t \in todo[q]) /\ made'[q][t] = made[q][t] /\ id'[t] = id[t]
               /\ (Welcomed(q, t)' <=> Welcomed(q, t))
               /\ (HasRead(q, S!PeerJoined(id[t]))' <=> HasRead(q, S!PeerJoined(id[t])))
    <3>1. UNCHANGED <<relayVars, seen>>
      BY <1>1
    <3>. QED  BY <1>8, <3>1, SameReads DEF relayVars
  <2>. QED  BY <2>1 DEF IInv, ClientInv, OffersAreInvited
<1>11. Settled'
  <2>1. ASSUME NEW q \in Publishers, NEW t \in Subscribers, NEW n \in 1 .. 3, pc'[<<q, t, n>>] = "stable"
        PROVE  pc[<<q, t, n>>] = "stable" /\ q # p
    BY <1>1, <2>1, PcFacts
  <2>2. UNCHANGED <<relayVars, seen>>
    BY <1>1
  <2>3. \A q \in Publishers, t \in Subscribers : HasAnswered(q, t)' <=> HasAnswered(q, t)
    BY <2>2, SameReads
  <2>4. ASSUME NEW q \in Publishers, NEW t \in Subscribers, NEW n \in 1 .. 3, pc'[<<q, t, n>>] = "stable"
        PROVE  pcs'[q][t] = <<q, t, n>> /\ t \notin todo'[q] /\ HasAnswered(q, t)'
    <3>1. pc[<<q, t, n>>] = "stable" /\ q # p
      BY <2>1, <2>4
    <3>2. pcs[q][t] = <<q, t, n>> /\ t \notin todo[q] /\ HasAnswered(q, t)
      BY <3>1 DEF IInv, ClientInv, Settled
    <3>. QED  BY <1>8, <2>3, <3>1, <3>2
  <2>. QED  BY <2>4 DEF Settled
<1>12. LeaversAreClosed'
  <2>1. ASSUME NEW q \in Publishers, NEW t \in Subscribers, HasRead(q, S!PeerLeft(id[t]))'
        PROVE  HasRead(q, S!PeerLeft(id[t]))
    <3>1. UNCHANGED <<relayVars, seen>>
      BY <1>1
    <3>. QED  BY <2>1, <3>1, SameReads
  <2>. QED  BY <1>8, <2>1 DEF IInv, ClientInv, LeaversAreClosed
<1>. QED  BY <1>1, <1>2, <1>5, <1>6, <1>7, <1>9, <1>10, <1>11, <1>12, PageRests DEF IInv, ClientInv

LEMMA OfferingSteps ==
  ASSUME IInv, NEW p \in Publishers, NEW s \in Subscribers, connect_to_subscriber(p, s)
  PROVE  IInv'
<1>. USE DEF publisherVars, socketVars, pageVars
<1>. DEFINE n == made[p][s] + 1
            x == <<p, s, n>>
<1>1. /\ s \in todo[p]
      /\ todo' = [todo EXCEPT ![p] = @ \ {s}]
      /\ made' = [made EXCEPT ![p][s] = @ + 1]
      /\ pc' = [pc EXCEPT ![x] = "offered"]
      /\ pcs' = [pcs EXCEPT ![p][s] = x]
      /\ Write(p, id[s], Offer(x))
      /\ UNCHANGED <<relayVars, link, seen, answered, pageVars>>
  BY DEF connect_to_subscriber
<1>2. RelayInv' /\ Grown /\ Stamped'
  BY <1>1, SameOutbox
<1>3. /\ TypeOK /\ p \in Conns /\ p \notin Subscribers /\ s \in Conns
      /\ made[p][s] \in Nat /\ id[s] \in Nat
  <2>1. TypeOK /\ p \in Conns /\ p \notin Subscribers /\ s \in Conns
    BY SessionAssumption DEF IInv, ClientInv, Conns
  <2>2. id \in [Conns -> Nat]
    BY DEF IInv, RelayInv, RelayTypes
  <2>3. made \in [Publishers -> [Subscribers -> Nat]]
    BY <2>1 DEF TypeOK
  <2>. QED  BY <2>1, <2>2, <2>3
<1>4. made[p][s] <= 1 /\ id[s] # 0 /\ n \in 1 .. 3
  BY <1>1, <1>3 DEF IInv, ClientInv, OffersAreInvited
<1>5. x \in Pcs /\ x # NoPc /\ x[1] = p
  <2>. HIDE DEF n
  <2>1. \A k \in 1 .. 3 : <<p, s, k>> \in Pcs /\ <<p, s, k>> # NoPc /\ <<p, s, k>>[1] = p
    BY PcFacts
  <2>. QED  BY <1>4, <2>1
<1>6. sent' \in [Conns -> Seq(Frames)] /\ Addressed'
  <2>. PICK k, b : k = id[s] /\ b = Offer(x)
    OBVIOUS
  <2>1. b \in Bodies /\ b.pc = x
    BY <1>5 DEF Bodies, Offer
  <2>2. Names(k, Subscribers)
    BY <1>4 DEF Names
  <2>. QED  BY <1>1, <1>3, <1>5, <2>1, <2>2, WriteFacts
<1>. HIDE DEF x
<1>7. /\ todo' \in [Publishers -> SUBSET Subscribers]
      /\ pcs' \in [Publishers -> [Subscribers -> Pcs \cup {NoPc}]]
      /\ pc' \in [Pcs -> {"none", "offered", "stable", "closed", "lost"}]
      /\ made' \in [Publishers -> [Subscribers -> Nat]]
  BY <1>1, <1>3, <1>5 DEF TypeOK
<1>8. TypeOK'
  BY <1>1, <1>3, <1>6, <1>7 DEF TypeOK
<1>9. Cabled' /\ PageNeverGivesUp'
  BY <1>1 DEF IInv, ClientInv, Cabled, PageNeverGivesUp, relayVars
<1>10. \A q \in Publishers, t \in Subscribers :
         \/ /\ q = p /\ t = s /\ t \notin todo'[q] /\ pcs'[q][t] = x /\ made'[q][t] = n
         \/ /\ q # p \/ t # s
            /\ t \in todo'[q] <=> t \in todo[q]
            /\ pcs'[q][t] = pcs[q][t] /\ made'[q][t] = made[q][t]
  BY <1>1, <1>3 DEF TypeOK
<1>11. Mapped'
  BY <1>4, <1>10 DEF IInv, ClientInv, Mapped, x
<1>12. \A q \in Publishers, t \in Subscribers :
         /\ id'[t] = id[t]
         /\ Welcomed(q, t)' <=> Welcomed(q, t)
         /\ HasRead(q, S!PeerJoined(id[t]))' <=> HasRead(q, S!PeerJoined(id[t]))
         /\ HasRead(q, S!PeerLeft(id[t]))' <=> HasRead(q, S!PeerLeft(id[t]))
         /\ HasAnswered(q, t)' <=> HasAnswered(q, t)
  <2>1. UNCHANGED <<relayVars, seen>>
    BY <1>1
  <2>. QED  BY <2>1, SameReads DEF relayVars
<1>13. OffersAreInvited'
  <2>1. ASSUME NEW q \in Publishers, NEW t \in Subscribers
        PROVE  /\ t \in todo'[q] => id'[t] # 0 /\ made'[q][t] <= 1
               /\ made'[q][t] <= 2
               /\ ~ Welcomed(q, t)' \/ ~ HasRead(q, S!PeerJoined(id[t]))' =>
                    made'[q][t] <= 1 /\ (t \in todo'[q] => made'[q][t] = 0)
               /\ ~ Welcomed(q, t)' /\ ~ HasRead(q, S!PeerJoined(id[t]))' => made'[q][t] = 0 /\ t \notin todo'[q]
    <3>1. /\ t \in todo[q] => id[t] # 0 /\ made[q][t] <= 1
          /\ made[q][t] <= 2
          /\ ~ Welcomed(q, t) \/ ~ HasRead(q, S!PeerJoined(id[t])) =>
               made[q][t] <= 1 /\ (t \in todo[q] => made[q][t] = 0)
          /\ ~ Welcomed(q, t) /\ ~ HasRead(q, S!PeerJoined(id[t])) => made[q][t] = 0 /\ t \notin todo[q]
      BY DEF IInv, ClientInv, OffersAreInvited
    <3>2. CASE q = p /\ t = s
      <4>1. t \in todo[q] /\ t \notin todo'[q] /\ made'[q][t] = n
        BY <1>1, <1>10, <3>2
      <4>2. n <= 2 /\ (made[p][s] = 0 => n <= 1)
        BY <1>3, <1>4
      <4>. QED  BY <1>12, <3>1, <3>2, <4>1, <4>2
    <3>3. CASE q # p \/ t # s
      BY <1>10, <1>12, <3>1, <3>3
    <3>. QED  BY <3>2, <3>3
  <2>. QED  BY <2>1 DEF OffersAreInvited
<1>14. Settled'
  <2>1. ASSUME NEW q \in Publishers, NEW t \in Subscribers, NEW k \in 1 .. 3, pc'[<<q, t, k>>] = "stable"
        PROVE  pc[<<q, t, k>>] = "stable" /\ (q # p \/ t # s)
    <3>1. <<q, t, k>> \in Pcs
      BY PcFacts
    <3>2. pc[<<q, t, k>>] = "stable"
      BY <1>1, <1>3, <1>5, <2>1, <3>1 DEF TypeOK
    <3>. QED  BY <1>1, <3>2 DEF IInv, ClientInv, Settled
  <2>2. ASSUME NEW q \in Publishers, NEW t \in Subscribers, NEW k \in 1 .. 3, pc'[<<q, t, k>>] = "stable"
        PROVE  pcs'[q][t] = <<q, t, k>> /\ t \notin todo'[q] /\ HasAnswered(q, t)'
    <3>1. pc[<<q, t, k>>] = "stable" /\ (q # p \/ t # s)
      BY <2>1, <2>2
    <3>2. pcs[q][t] = <<q, t, k>> /\ t \notin todo[q] /\ HasAnswered(q, t)
      BY <3>1 DEF IInv, ClientInv, Settled
    <3>3. pcs'[q][t] = pcs[q][t] /\ (t \in todo'[q] <=> t \in todo[q])
      BY <1>10, <3>1
    <3>4. HasAnswered(q, t)'
      BY <1>12, <3>2
    <3>. QED  BY <3>2, <3>3, <3>4
  <2>. QED  BY <2>2 DEF Settled
<1>15. LeaversAreClosed'
  <2>1. ASSUME NEW q \in Publishers, NEW t \in Subscribers, HasRead(q, S!PeerLeft(id[t]))'
        PROVE  pcs'[q][t] = NoPc /\ t \notin todo'[q]
    <3>1. pcs[q][t] = NoPc /\ t \notin todo[q]
      BY <1>12, <2>1 DEF IInv, ClientInv, LeaversAreClosed
    <3>. QED  BY <1>1, <1>10, <3>1
  <2>. QED  BY <2>1 DEF LeaversAreClosed
<1>. QED  BY <1>1, <1>2, <1>6, <1>8, <1>9, <1>11, <1>13, <1>14, <1>15, PageRests DEF IInv, ClientInv

(* Closing what the map holds for a subscriber, if anything. *)
LEMMA DiscardFacts ==
  ASSUME IInv, NEW p \in Publishers, NEW s \in Subscribers, Discard(p, s)
  PROVE  /\ pcs' \in [Publishers -> [Subscribers -> Pcs \cup {NoPc}]]
         /\ pc' \in [Pcs -> {"none", "offered", "stable", "closed", "lost"}]
         /\ Mapped'
         /\ pcs'[p][s] = NoPc
         /\ \A q \in Publishers, t \in Subscribers : pcs[q][t] = NoPc => pcs'[q][t] = NoPc
         /\ \A q \in Publishers, t \in Subscribers : \A k \in 1 .. 3 :
              pc'[<<q, t, k>>] = "stable" =>
                pc[<<q, t, k>>] = "stable" /\ pcs'[q][t] = <<q, t, k>>
<1>1. /\ pcs' = [pcs EXCEPT ![p][s] = NoPc]
      /\ pc' = IF pcs[p][s] = NoPc THEN pc ELSE [pc EXCEPT ![pcs[p][s]] = "closed"]
  BY DEF Discard
<1>2. TypeOK
  BY DEF IInv, ClientInv
<1>3. /\ pcs' \in [Publishers -> [Subscribers -> Pcs \cup {NoPc}]]
      /\ pcs'[p][s] = NoPc
      /\ \A q \in Publishers, t \in Subscribers : q # p \/ t # s => pcs'[q][t] = pcs[q][t]
  BY <1>1, <1>2 DEF TypeOK
<1>4. pc' \in [Pcs -> {"none", "offered", "stable", "closed", "lost"}]
  BY <1>1, <1>2 DEF TypeOK
<1>5. Mapped'
  BY <1>3 DEF IInv, ClientInv, Mapped
<1>6. ASSUME NEW q \in Publishers, NEW t \in Subscribers, NEW k \in 1 .. 3, pc'[<<q, t, k>>] = "stable"
      PROVE  pc[<<q, t, k>>] = "stable" /\ pcs'[q][t] = <<q, t, k>>
  <2>1. <<q, t, k>> \in Pcs /\ <<q, t, k>> # NoPc
    BY PcFacts
  <2>2. pc[<<q, t, k>>] = "stable"
    BY <1>1, <1>2, <1>6, <2>1 DEF TypeOK
  <2>3. pcs[q][t] = <<q, t, k>>
    BY <2>2 DEF IInv, ClientInv, Settled
  <2>4. q # p \/ t # s
    BY <1>1, <1>2, <1>6, <2>1, <2>3 DEF TypeOK
  <2>. QED  BY <1>3, <2>2, <2>3, <2>4
<1>. QED  BY <1>3, <1>4, <1>5, <1>6

LEMMA FailingSteps ==
  ASSUME IInv, NEW p \in Publishers, NEW s \in Subscribers, NEW n \in 1 .. 3, PublisherPcFails(p, s, n)
  PROVE  IInv'
<1>. USE DEF publisherVars, socketVars, pageVars
<1>1. Discard(p, s) /\ UNCHANGED <<relayVars, socketVars, todo, made, answered, pageVars>>
  BY DEF PublisherPcFails
<1>2. RelayInv' /\ Grown /\ Stamped'
  BY <1>1, SameOutbox
<1>3. /\ pcs' \in [Publishers -> [Subscribers -> Pcs \cup {NoPc}]]
      /\ pc' \in [Pcs -> {"none", "offered", "stable", "closed", "lost"}]
      /\ Mapped'
      /\ \A q \in Publishers, t \in Subscribers : pcs[q][t] = NoPc => pcs'[q][t] = NoPc
      /\ \A q \in Publishers, t \in Subscribers : \A k \in 1 .. 3 :
           pc'[<<q, t, k>>] = "stable" => pc[<<q, t, k>>] = "stable" /\ pcs'[q][t] = <<q, t, k>>
  BY <1>1, DiscardFacts
<1>4. TypeOK'
  BY <1>1, <1>3 DEF IInv, ClientInv, TypeOK
<1>5. Cabled' /\ PageNeverGivesUp' /\ Addressed'
  BY <1>1 DEF IInv, ClientInv, Cabled, PageNeverGivesUp, Addressed, Names, relayVars
<1>6. \A q \in Publishers, t \in Subscribers :
         /\ id'[t] = id[t]
         /\ Welcomed(q, t)' <=> Welcomed(q, t)
         /\ HasRead(q, S!PeerJoined(id[t]))' <=> HasRead(q, S!PeerJoined(id[t]))
         /\ HasRead(q, S!PeerLeft(id[t]))' <=> HasRead(q, S!PeerLeft(id[t]))
         /\ HasAnswered(q, t)' <=> HasAnswered(q, t)
  <2>1. UNCHANGED <<relayVars, seen>>
    BY <1>1
  <2>. QED  BY <2>1, SameReads DEF relayVars
<1>7. OffersAreInvited'
  BY <1>1, <1>6 DEF IInv, ClientInv, OffersAreInvited
<1>8. Settled'
  <2>1. ASSUME NEW q \in Publishers, NEW t \in Subscribers, NEW k \in 1 .. 3, pc'[<<q, t, k>>] = "stable"
        PROVE  pcs'[q][t] = <<q, t, k>> /\ t \notin todo'[q] /\ HasAnswered(q, t)'
    <3>1. pc[<<q, t, k>>] = "stable" /\ pcs'[q][t] = <<q, t, k>>
      BY <1>3, <2>1
    <3>2. t \notin todo[q] /\ HasAnswered(q, t)
      BY <3>1 DEF IInv, ClientInv, Settled
    <3>. QED  BY <1>1, <1>6, <3>1, <3>2
  <2>. QED  BY <2>1 DEF Settled
<1>9. LeaversAreClosed'
  BY <1>1, <1>3, <1>6 DEF IInv, ClientInv, LeaversAreClosed
<1>. QED  BY <1>1, <1>2, <1>3, <1>4, <1>5, <1>7, <1>8, <1>9, PageRests DEF IInv, ClientInv

----------------------------------------------------------------------------
(* Reading.                                                                 *)

(* What a client passes over is none of what the invariants speak of.       *)
LEMMA Overlooked ==
  ASSUME RelayInv, NEW c \in Conns, NEW j \in 1 .. Len(outbox[c]), ~ Matters(c, outbox[c][j])
  PROVE  /\ outbox[c][j].type # "signal"
         /\ c \in Publishers => \A s \in Subscribers :
              /\ ~ (outbox[c][j].type = "welcome" /\ id[s] \in outbox[c][j].peers)
              /\ outbox[c][j] # S!PeerJoined(id[s]) /\ outbox[c][j] # S!PeerLeft(id[s])
         /\ c \in Subscribers => \A p \in Publishers : outbox[c][j] # S!PeerLeft(id[p])
<1>. PICK m : m = outbox[c][j]
  OBVIOUS
<1>1. m.type \in {"peer_joined", "peer_left"} => m.peer # 0
  BY AboutSomeone DEF Who
<1>2. ASSUME NEW d \in Conns, m = S!PeerJoined(id[d]) \/ m = S!PeerLeft(id[d])
      PROVE  m.type \in {"peer_joined", "peer_left"} /\ About(m) = {d}
  <2>1. m.type \in {"peer_joined", "peer_left"} /\ m.peer = id[d]
    BY <1>2, MessageFacts
  <2>2. \A e \in Conns : id[e] = id[d] => e = d
    BY <1>1, <2>1 DEF RelayInv, Numbered
  <2>. QED  BY <2>1, <2>2 DEF About
<1>3. \A d \in Publishers \cup Subscribers : d \in Conns
  BY DEF Conns
<1>4. ASSUME c \in Publishers, NEW s \in Subscribers
      PROVE  /\ ~ (m.type = "welcome" /\ id[s] \in m.peers)
             /\ m # S!PeerJoined(id[s]) /\ m # S!PeerLeft(id[s])
  <2>1. ~ (m.type = "welcome" /\ id[s] \in m.peers)
    BY <1>4 DEF Matters
  <2>2. About(m) = {s} /\ m.type \in {"peer_joined", "peer_left"} => FALSE
    BY <1>4 DEF Matters
  <2>. QED  BY <1>2, <1>3, <2>1, <2>2
<1>5. ASSUME c \in Subscribers, NEW p \in Publishers, m = S!PeerLeft(id[p])
      PROVE  FALSE
  <2>1. m.type = "peer_left" /\ About(m) = {p}
    BY <1>2, <1>3, <1>5, MessageFacts
  <2>. QED  BY <1>5, <2>1 DEF Matters
<1>. QED  BY <1>4, <1>5 DEF Matters

(* What reading on to the i-th message does. *)
ReadsOn(c, i) ==
  /\ UNCHANGED relayVars
  /\ i \in 1 .. Len(outbox[c]) /\ seen[c] < i
  /\ Matters(c, outbox[c][i])
  /\ \A j \in 1 .. Len(outbox[c]) : seen[c] < j /\ j < i => ~ Matters(c, outbox[c][j])
  /\ seen' = [seen EXCEPT ![c] = i]

LEMMA ReadFacts ==
  ASSUME IInv, NEW c \in Conns, NEW i, ReadsOn(c, i)
  PROVE  /\ RelayInv' /\ Grown /\ Stamped'
         /\ seen' \in [Conns -> Nat] /\ \A d \in Conns : seen'[d] <= Len(outbox'[d])
         /\ id' = id
         /\ c \in Publishers => \A s \in Subscribers :
              /\ Welcomed(c, s)' <=> \/ Welcomed(c, s)
                                     \/ outbox[c][i].type = "welcome" /\ id[s] \in outbox[c][i].peers
              /\ HasRead(c, S!PeerJoined(id[s]))' <=> \/ HasRead(c, S!PeerJoined(id[s]))
                                                      \/ outbox[c][i] = S!PeerJoined(id[s])
              /\ HasRead(c, S!PeerLeft(id[s]))' <=> \/ HasRead(c, S!PeerLeft(id[s]))
                                                    \/ outbox[c][i] = S!PeerLeft(id[s])
              /\ HasAnswered(c, s)' <=> \/ HasAnswered(c, s)
                                        \/ outbox[c][i].type = "signal" /\ outbox[c][i].from = id[s]
         /\ c \in Subscribers => \A p \in Publishers :
              HasRead(c, S!PeerLeft(id[p]))' <=> \/ HasRead(c, S!PeerLeft(id[p]))
                                                 \/ outbox[c][i] = S!PeerLeft(id[p])
         /\ \A d \in Conns, e \in Conns : d # c =>
              /\ Welcomed(d, e)' <=> Welcomed(d, e)
              /\ HasRead(d, S!PeerJoined(id[e]))' <=> HasRead(d, S!PeerJoined(id[e]))
              /\ HasRead(d, S!PeerLeft(id[e]))' <=> HasRead(d, S!PeerLeft(id[e]))
              /\ HasAnswered(d, e)' <=> HasAnswered(d, e)
<1>1. RelayInv' /\ Grown /\ Stamped'
  BY SameOutbox DEF ReadsOn
<1>2. /\ seen \in [Conns -> Nat] /\ \A d \in Conns : seen[d] <= Len(outbox[d]) /\ Len(outbox[d]) \in Nat
      /\ outbox' = outbox /\ id' = id /\ RelayInv
  BY DEF IInv, ClientInv, TypeOK, Cabled, RelayInv, RelayTypes, ReadsOn, relayVars
<1>3. /\ seen' \in [Conns -> Nat] /\ seen'[c] = i /\ \A d \in Conns : d # c => seen'[d] = seen[d]
      /\ i \in 1 .. Len(outbox[c]) /\ seen[c] < i /\ seen[c] \in Nat
  BY <1>2 DEF ReadsOn
<1>4. \A d \in Conns : seen'[d] <= Len(outbox'[d])
  BY <1>2, <1>3
<1>5. \A j \in 1 .. seen'[c] : \/ j \in 1 .. seen[c]
                               \/ j = i
                               \/ j \in 1 .. Len(outbox[c]) /\ ~ Matters(c, outbox[c][j])
  BY <1>2, <1>3 DEF ReadsOn
<1>6. i \in 1 .. seen'[c] /\ \A j \in 1 .. seen[c] : j \in 1 .. seen'[c]
  BY <1>3
<1>7. ASSUME c \in Publishers, NEW s \in Subscribers
      PROVE  /\ Welcomed(c, s)' <=> \/ Welcomed(c, s)
                                    \/ outbox[c][i].type = "welcome" /\ id[s] \in outbox[c][i].peers
             /\ HasRead(c, S!PeerJoined(id[s]))' <=> \/ HasRead(c, S!PeerJoined(id[s]))
                                                     \/ outbox[c][i] = S!PeerJoined(id[s])
             /\ HasRead(c, S!PeerLeft(id[s]))' <=> \/ HasRead(c, S!PeerLeft(id[s]))
                                                   \/ outbox[c][i] = S!PeerLeft(id[s])
             /\ HasAnswered(c, s)' <=> \/ HasAnswered(c, s)
                                       \/ outbox[c][i].type = "signal" /\ outbox[c][i].from = id[s]
  <2>1. ASSUME NEW j \in 1 .. Len(outbox[c]), ~ Matters(c, outbox[c][j])
        PROVE  /\ outbox[c][j].type # "signal"
               /\ ~ (outbox[c][j].type = "welcome" /\ id[s] \in outbox[c][j].peers)
               /\ outbox[c][j] # S!PeerJoined(id[s]) /\ outbox[c][j] # S!PeerLeft(id[s])
    BY <1>2, <1>7, <2>1, Overlooked
  <2>2. Welcomed(c, s)' <=> \/ Welcomed(c, s)
                            \/ outbox[c][i].type = "welcome" /\ id[s] \in outbox[c][i].peers
    BY <1>2, <1>5, <1>6, <2>1 DEF Welcomed
  <2>3. HasRead(c, S!PeerJoined(id[s]))' <=> \/ HasRead(c, S!PeerJoined(id[s]))
                                             \/ outbox[c][i] = S!PeerJoined(id[s])
    BY <1>2, <1>5, <1>6, <2>1 DEF HasRead, S!PeerJoined
  <2>4. HasRead(c, S!PeerLeft(id[s]))' <=> \/ HasRead(c, S!PeerLeft(id[s]))
                                           \/ outbox[c][i] = S!PeerLeft(id[s])
    BY <1>2, <1>5, <1>6, <2>1 DEF HasRead, S!PeerLeft
  <2>5. HasAnswered(c, s)' <=> \/ HasAnswered(c, s)
                               \/ outbox[c][i].type = "signal" /\ outbox[c][i].from = id[s]
    BY <1>2, <1>5, <1>6, <2>1 DEF HasAnswered
  <2>. QED  BY <2>2, <2>3, <2>4, <2>5
<1>8. ASSUME c \in Subscribers, NEW p \in Publishers
      PROVE  HasRead(c, S!PeerLeft(id[p]))' <=> \/ HasRead(c, S!PeerLeft(id[p]))
                                                \/ outbox[c][i] = S!PeerLeft(id[p])
  <2>1. ASSUME NEW j \in 1 .. Len(outbox[c]), ~ Matters(c, outbox[c][j])
        PROVE  outbox[c][j] # S!PeerLeft(id[p])
    BY <1>2, <1>8, <2>1, Overlooked
  <2>. QED  BY <1>2, <1>5, <1>6, <2>1 DEF HasRead, S!PeerLeft
<1>9. ASSUME NEW d \in Conns, NEW e \in Conns, d # c
      PROVE  /\ Welcomed(d, e)' <=> Welcomed(d, e)
             /\ HasRead(d, S!PeerJoined(id[e]))' <=> HasRead(d, S!PeerJoined(id[e]))
             /\ HasRead(d, S!PeerLeft(id[e]))' <=> HasRead(d, S!PeerLeft(id[e]))
             /\ HasAnswered(d, e)' <=> HasAnswered(d, e)
  BY <1>2, <1>3, <1>9 DEF Welcomed, HasRead, HasAnswered, S!PeerJoined, S!PeerLeft
<1>. QED  BY <1>1, <1>2, <1>3, <1>4, <1>7, <1>8, <1>9

LEMMA Inbound ==
  ASSUME IInv, NEW p \in Publishers, handle_inbound(p)
  PROVE  \E i : /\ ReadsOn(p, i)
                /\ \/ OnWelcomeOrJoined(p, outbox[p][i]) \/ OnPeerLeft(p, outbox[p][i])
                   \/ OnAnswer(p, outbox[p][i])
                /\ todo[p] = {}
                /\ UNCHANGED <<relayVars, link, sent, made, pageVars>>
<1>1. /\ todo[p] = {}
      /\ UNCHANGED <<relayVars, link, sent, made, pageVars>>
      /\ \E i \in Unread(p) :
           /\ \A j \in Unread(p) : i <= j
           /\ seen' = [seen EXCEPT ![p] = i]
           /\ \/ OnWelcomeOrJoined(p, outbox[p][i]) \/ OnPeerLeft(p, outbox[p][i])
              \/ OnAnswer(p, outbox[p][i])
  BY DEF handle_inbound, Read
<1>2. p \in Conns /\ seen[p] \in Nat /\ Len(outbox[p]) \in Nat
  BY DEF IInv, ClientInv, TypeOK, RelayInv, RelayTypes, Conns
<1>3. PICK i \in Unread(p) :
           /\ \A j \in Unread(p) : i <= j
           /\ seen' = [seen EXCEPT ![p] = i]
           /\ \/ OnWelcomeOrJoined(p, outbox[p][i]) \/ OnPeerLeft(p, outbox[p][i])
              \/ OnAnswer(p, outbox[p][i])
  BY <1>1
<1>4. i \in Nat /\ seen[p] < i /\ i <= Len(outbox[p]) /\ Matters(p, outbox[p][i])
  BY <1>2 DEF Unread
<1>5. ASSUME NEW j \in 1 .. Len(outbox[p]), seen[p] < j, j < i, Matters(p, outbox[p][j])
      PROVE  FALSE
  <2>1. j \in Unread(p)
    BY <1>2, <1>5 DEF Unread
  <2>. QED  BY <1>2, <1>3, <1>4, <1>5, <2>1
<1>6. ReadsOn(p, i)
  <2>1. UNCHANGED relayVars /\ seen' = [seen EXCEPT ![p] = i]
    BY <1>1, <1>3
  <2>2. i \in 1 .. Len(outbox[p])
    BY <1>2, <1>4
  <2>. QED  BY <1>4, <1>5, <2>1, <2>2 DEF ReadsOn
<1>. QED  BY <1>1, <1>3, <1>6

LEMMA Incoming ==
  ASSUME IInv, NEW s \in Subscribers, onmessage(s)
  PROVE  \E i : /\ ReadsOn(s, i)
                /\ OnPublisherLeft(s, outbox[s][i]) \/ OnOffer(s, outbox[s][i])
                /\ UNCHANGED <<relayVars, link, sent, publisherVars, armed, troubles>>
<1>1. /\ UNCHANGED <<relayVars, link, sent, publisherVars, armed, troubles>>
      /\ \E i \in Unread(s) :
           /\ \A j \in Unread(s) : i <= j
           /\ seen' = [seen EXCEPT ![s] = i]
           /\ OnPublisherLeft(s, outbox[s][i]) \/ OnOffer(s, outbox[s][i])
  BY DEF onmessage, Read
<1>2. s \in Conns /\ seen[s] \in Nat /\ Len(outbox[s]) \in Nat
  BY DEF IInv, ClientInv, TypeOK, RelayInv, RelayTypes, Conns
<1>3. PICK i \in Unread(s) :
           /\ \A j \in Unread(s) : i <= j
           /\ seen' = [seen EXCEPT ![s] = i]
           /\ OnPublisherLeft(s, outbox[s][i]) \/ OnOffer(s, outbox[s][i])
  BY <1>1
<1>4. i \in Nat /\ seen[s] < i /\ i <= Len(outbox[s]) /\ Matters(s, outbox[s][i])
  BY <1>2 DEF Unread
<1>5. ASSUME NEW j \in 1 .. Len(outbox[s]), seen[s] < j, j < i, Matters(s, outbox[s][j])
      PROVE  FALSE
  <2>1. j \in Unread(s)
    BY <1>2, <1>5 DEF Unread
  <2>. QED  BY <1>2, <1>3, <1>4, <1>5, <2>1
<1>6. ReadsOn(s, i)
  <2>1. UNCHANGED relayVars /\ seen' = [seen EXCEPT ![s] = i]
    BY <1>1, <1>3
  <2>2. i \in 1 .. Len(outbox[s])
    BY <1>2, <1>4
  <2>. QED  BY <1>4, <1>5, <2>1, <2>2 DEF ReadsOn
<1>. QED  BY <1>1, <1>3, <1>6

(* The rest of a publisher's reading step.                                  *)
LEMMA InboundRest ==
  ASSUME IInv, NEW p \in Publishers, NEW i, ReadsOn(p, i), UNCHANGED <<link, sent, made, pageVars>>,
         todo' \in [Publishers -> SUBSET Subscribers],
         pcs' \in [Publishers -> [Subscribers -> Pcs \cup {NoPc}]],
         pc' \in [Pcs -> {"none", "offered", "stable", "closed", "lost"}],
         answered' \in [Pcs -> Pcs \cup {NoPc}],
         OffersAreInvited', Mapped', Settled', LeaversAreClosed'
  PROVE  IInv'
<1>. USE DEF pageVars
<1>1. p \in Conns /\ p \notin Subscribers /\ \A c \in Publishers \cup Subscribers : c \in Conns
  BY SessionAssumption DEF Conns
<1>2. /\ RelayInv' /\ Grown /\ Stamped'
      /\ seen' \in [Conns -> Nat] /\ \A c \in Conns : seen'[c] <= Len(outbox'[c])
      /\ \A d \in Conns, e \in Conns : d # p =>
           (HasRead(d, S!PeerLeft(id[e]))' <=> HasRead(d, S!PeerLeft(id[e])))
  BY <1>1, ReadFacts
<1>3. UNCHANGED relayVars
  BY DEF ReadsOn
<1>4. TypeOK'
  BY <1>2 DEF IInv, ClientInv, TypeOK
<1>5. Cabled'
  BY <1>2, <1>3 DEF IInv, ClientInv, Cabled, relayVars
<1>6. Addressed' /\ PageNeverGivesUp'
  BY <1>3 DEF IInv, ClientInv, Addressed, PageNeverGivesUp, Names, relayVars
<1>7. Attached'
  BY <1>3 DEF IInv, ClientInv, Attached, relayVars
<1>8. DepartedPublisherIsDropped'
  <2>1. ASSUME NEW s \in Subscribers, NEW q \in Publishers, HasRead(s, S!PeerLeft(id[q]))'
        PROVE  HasRead(s, S!PeerLeft(id[q]))
    BY <1>1, <1>2, <2>1
  <2>2. ASSUME NEW s \in Subscribers, NEW q \in Publishers, HasRead(s, S!PeerLeft(id[q]))'
        PROVE  From(s)' # q
    <3>1. From(s) # q
      BY <2>1, <2>2 DEF IInv, ClientInv, DepartedPublisherIsDropped, HasRead
    <3>. QED  BY <3>1 DEF From
  <2>. QED  BY <2>2 DEF DepartedPublisherIsDropped, HasRead
<1>. QED  BY <1>2, <1>4, <1>5, <1>6, <1>7, <1>8 DEF IInv, ClientInv

(* handle_inbound on Welcome and PeerJoined: a subscriber that is announced  *)
(* was not announced before, and nothing of it has been read.               *)
LEMMA Introductions ==
  ASSUME IInv, NEW p \in Publishers, NEW i, ReadsOn(p, i), OnWelcomeOrJoined(p, outbox[p][i]), todo[p] = {},
         UNCHANGED <<link, sent, made, pageVars>>
  PROVE  IInv'
<1>. PICK m : m = outbox[p][i]
  OBVIOUS
<1>1. /\ m.type \in {"welcome", "peer_joined"}
      /\ todo' = [todo EXCEPT ![p] = SubscribersIn(IF m.type = "welcome" THEN m.peers ELSE {m.peer})]
      /\ UNCHANGED <<pcs, pc, answered>>
  BY DEF OnWelcomeOrJoined
<1>2. /\ p \in Conns /\ \A c \in Publishers \cup Subscribers : c \in Conns
      /\ TypeOK /\ RelayInv
  BY DEF IInv, ClientInv, Conns
<1>3. /\ todo' \in [Publishers -> SUBSET Subscribers]
      /\ \A q \in Publishers : q # p => todo'[q] = todo[q]
      /\ \A t \in Subscribers :
           t \in todo'[p] <=> id[t] \in (IF m.type = "welcome" THEN m.peers ELSE {m.peer})
  BY <1>1, <1>2 DEF TypeOK, SubscribersIn
<1>4. /\ i \in 1 .. Len(outbox[p]) /\ seen[p] < i /\ seen[p] \in Nat /\ Matters(p, m)
      /\ seen[p] <= Len(outbox[p]) /\ Len(outbox[p]) \in Nat
  BY <1>2 DEF ReadsOn, IInv, ClientInv, TypeOK, Cabled, RelayInv, RelayTypes
<1>5. \A t \in Subscribers :
        /\ Welcomed(p, t)' <=> Welcomed(p, t) \/ (m.type = "welcome" /\ id[t] \in m.peers)
        /\ HasRead(p, S!PeerJoined(id[t]))' <=> HasRead(p, S!PeerJoined(id[t])) \/ m = S!PeerJoined(id[t])
        /\ HasRead(p, S!PeerLeft(id[t]))' <=> HasRead(p, S!PeerLeft(id[t])) \/ m = S!PeerLeft(id[t])
        /\ HasAnswered(p, t)' <=> HasAnswered(p, t) \/ (m.type = "signal" /\ m.from = id[t])
  BY <1>2, ReadFacts
<1>6. \A q \in Publishers, t \in Subscribers : q # p =>
        /\ Welcomed(q, t)' <=> Welcomed(q, t)
        /\ HasRead(q, S!PeerJoined(id[t]))' <=> HasRead(q, S!PeerJoined(id[t]))
        /\ HasRead(q, S!PeerLeft(id[t]))' <=> HasRead(q, S!PeerLeft(id[t]))
        /\ HasAnswered(q, t)' <=> HasAnswered(q, t)
  BY <1>2, ReadFacts
<1>7. id' = id
  BY DEF ReadsOn, relayVars
<1>8. /\ m.type \in {"peer_joined", "peer_left", "signal"} => Who(m) # 0
      /\ m.type = "welcome" => \A k \in m.peers : k # 0
  BY <1>2, <1>4, AboutSomeone
<1>9. ASSUME NEW t \in Subscribers, t \in todo'[p]
      PROVE  /\ id[t] # 0
             /\ ~ HasRead(p, S!PeerJoined(id[t])) /\ ~ HasRead(p, S!PeerLeft(id[t])) /\ ~ HasAnswered(p, t)
             /\ ~ HasRead(p, S!PeerLeft(id[t]))'
             /\ m.type = "welcome" => ~ Welcomed(p, t)
             /\ m.type = "welcome" => Welcomed(p, t)'
             /\ m.type = "peer_joined" => HasRead(p, S!PeerJoined(id[t]))' /\ (Welcomed(p, t)' <=> Welcomed(p, t))
  <2>1. CASE m.type = "welcome"
    <3>1. i = 1
      BY <1>2, <1>4, <2>1 DEF RelayInv, Truthful
    <3>2. \A j : ~ (j \in 1 .. seen[p])
      BY <1>4, <3>1
    <3>3. /\ ~ HasRead(p, S!PeerJoined(id[t])) /\ ~ HasRead(p, S!PeerLeft(id[t])) /\ ~ HasAnswered(p, t)
          /\ ~ Welcomed(p, t)
      BY <3>2 DEF HasRead, HasAnswered, Welcomed
    <3>4. m # S!PeerLeft(id[t]) /\ m # S!PeerJoined(id[t])
      BY <2>1, MessageFacts
    <3>. QED  BY <1>3, <1>5, <1>8, <1>9, <2>1, <3>3, <3>4
  <2>2. CASE m.type = "peer_joined"
    <3>1. m = S!PeerJoined(id[t]) /\ id[t] # 0 /\ Who(m) = id[t]
      <4>1. id[t] = m.peer
        BY <1>3, <1>9, <2>2
      <4>2. m \in S!Messages
        BY <1>2, <1>4, AboutSomeone
      <4>3. m = S!PeerJoined(m.peer)
        BY <2>2, <4>2, MessageFields
      <4>. QED  BY <1>8, <2>2, <4>1, <4>3 DEF Who
    <3>2. ASSUME NEW j \in 1 .. seen[p]
          PROVE  /\ outbox[p][j] # S!PeerJoined(id[t]) /\ outbox[p][j] # S!PeerLeft(id[t])
                 /\ ~ (outbox[p][j].type = "signal" /\ outbox[p][j].from = id[t])
      <4>1. j \in 1 .. Len(outbox[p]) /\ j < i
        BY <1>4
      <4>2. MayPrecede(outbox[p][j], m)
        BY <1>2, <1>4, <4>1 DEF RelayInv, InOrder
      <4>3. Who(outbox[p][j]) = id[t] => outbox[p][j].type \notin {"peer_joined", "peer_left", "signal"}
        BY <2>2, <3>1, <4>2 DEF MayPrecede
      <4>. QED  BY <4>3, MessageFacts DEF Who
    <3>3. ~ HasRead(p, S!PeerJoined(id[t])) /\ ~ HasRead(p, S!PeerLeft(id[t])) /\ ~ HasAnswered(p, t)
      BY <3>2 DEF HasRead, HasAnswered
    <3>4. m # S!PeerLeft(id[t])
      BY <2>2, MessageFacts
    <3>. QED  BY <1>5, <2>2, <3>1, <3>3, <3>4
  <2>. QED  BY <1>1, <2>1, <2>2
<1>10. ASSUME NEW t \in Subscribers, t \notin todo'[p]
       PROVE  /\ Welcomed(p, t)' <=> Welcomed(p, t)
              /\ HasRead(p, S!PeerJoined(id[t]))' <=> HasRead(p, S!PeerJoined(id[t]))
              /\ HasRead(p, S!PeerLeft(id[t]))' <=> HasRead(p, S!PeerLeft(id[t]))
              /\ HasAnswered(p, t)' <=> HasAnswered(p, t)
  <2>1. ~ (m.type = "welcome" /\ id[t] \in m.peers)
    BY <1>3, <1>10
  <2>2. m # S!PeerJoined(id[t])
    BY <1>3, <1>10, MessageFacts
  <2>3. m # S!PeerLeft(id[t]) /\ m.type # "signal"
    BY <1>1, MessageFacts
  <2>. QED  BY <1>5, <2>1, <2>2, <2>3
<1>11. OffersAreInvited'
  <2>1. ASSUME NEW q \in Publishers, NEW t \in Subscribers
        PROVE  /\ t \in todo'[q] => id'[t] # 0 /\ made'[q][t] <= 1
               /\ made'[q][t] <= 2
               /\ ~ Welcomed(q, t)' \/ ~ HasRead(q, S!PeerJoined(id[t]))' =>
                    made'[q][t] <= 1 /\ (t \in todo'[q] => made'[q][t] = 0)
               /\ ~ Welcomed(q, t)' /\ ~ HasRead(q, S!PeerJoined(id[t]))' => made'[q][t] = 0 /\ t \notin todo'[q]
    <3>1. /\ t \in todo[q] => id[t] # 0 /\ made[q][t] <= 1
          /\ made[q][t] <= 2
          /\ ~ Welcomed(q, t) \/ ~ HasRead(q, S!PeerJoined(id[t])) =>
               made[q][t] <= 1 /\ (t \in todo[q] => made[q][t] = 0)
          /\ ~ Welcomed(q, t) /\ ~ HasRead(q, S!PeerJoined(id[t])) => made[q][t] = 0 /\ t \notin todo[q]
          /\ made'[q][t] = made[q][t]
      BY DEF IInv, ClientInv, OffersAreInvited
    <3>2. CASE q # p
      BY <1>3, <1>6, <1>7, <3>1, <3>2
    <3>3. CASE q = p /\ t \in todo'[q]
      <4>1. made[q][t] \in Nat
        BY <1>2 DEF TypeOK
      <4>2. CASE m.type = "welcome"
        <5>1. made[q][t] = 0
          BY <1>9, <3>1, <3>3, <4>2
        <5>. QED  BY <1>7, <1>9, <3>1, <3>3, <4>2, <5>1
      <4>3. CASE m.type = "peer_joined"
        BY <1>7, <1>9, <3>1, <3>3, <4>1, <4>3
      <4>. QED  BY <1>1, <4>2, <4>3
    <3>4. CASE q = p /\ t \notin todo'[q]
      BY <1>10, <3>1, <3>4
    <3>. QED  BY <3>2, <3>3, <3>4
  <2>. QED  BY <2>1 DEF OffersAreInvited
<1>12. Settled'
  <2>1. ASSUME NEW q \in Publishers, NEW t \in Subscribers, NEW n \in 1 .. 3, pc'[<<q, t, n>>] = "stable"
        PROVE  pcs'[q][t] = <<q, t, n>> /\ t \notin todo'[q] /\ HasAnswered(q, t)'
    <3>1. pcs'[q][t] = <<q, t, n>> /\ t \notin todo[q] /\ HasAnswered(q, t)
      BY <1>1, <2>1 DEF IInv, ClientInv, Settled
    <3>. QED  BY <1>3, <1>5, <1>6, <1>9, <3>1
  <2>. QED  BY <2>1 DEF Settled
<1>13. LeaversAreClosed'
  <2>1. ASSUME NEW q \in Publishers, NEW t \in Subscribers, HasRead(q, S!PeerLeft(id[t]))'
        PROVE  HasRead(q, S!PeerLeft(id[t])) /\ (q = p => t \notin todo'[p])
    BY <1>6, <1>9, <1>10, <2>1
  <2>. QED  BY ZenonT(40), <1>1, <1>3, <2>1 DEF IInv, ClientInv, LeaversAreClosed
<1>14. Mapped'
  BY <1>1 DEF IInv, ClientInv, Mapped
<1>15. /\ pcs' \in [Publishers -> [Subscribers -> Pcs \cup {NoPc}]]
       /\ pc' \in [Pcs -> {"none", "offered", "stable", "closed", "lost"}]
       /\ answered' \in [Pcs -> Pcs \cup {NoPc}]
  BY <1>1, <1>2 DEF TypeOK
<1>. QED  BY <1>3, <1>11, <1>12, <1>13, <1>14, <1>15, InboundRest

(* handle_inbound on PeerLeft: what the map holds for that subscriber is    *)
(* closed.                                                                  *)
LEMMA Farewells ==
  ASSUME IInv, NEW p \in Publishers, NEW i, ReadsOn(p, i), OnPeerLeft(p, outbox[p][i]), todo[p] = {},
         UNCHANGED <<link, sent, made, pageVars>>
  PROVE  IInv'
<1>. PICK m : m = outbox[p][i]
  OBVIOUS
<1>1. /\ m.type = "peer_left" /\ UNCHANGED <<todo, answered>>
      /\ \E s \in About(m) : Discard(p, s)
  BY DEF OnPeerLeft
<1>2. /\ p \in Conns /\ p \notin Subscribers /\ \A c \in Publishers \cup Subscribers : c \in Conns
      /\ TypeOK /\ RelayInv
  BY SessionAssumption DEF IInv, ClientInv, Conns
<1>3. i \in 1 .. Len(outbox[p]) /\ Matters(p, m)
  BY DEF ReadsOn
<1>4. PICK s \in Subscribers : Discard(p, s) /\ id[s] = m.peer
  BY <1>1, <1>2, <1>3 DEF Matters, About
<1>5. id[s] # 0
  BY <1>1, <1>2, <1>3, <1>4, AboutSomeone DEF Who
<1>6. \A t \in Subscribers :
        /\ Welcomed(p, t)' <=> Welcomed(p, t) \/ (m.type = "welcome" /\ id[t] \in m.peers)
        /\ HasRead(p, S!PeerJoined(id[t]))' <=> HasRead(p, S!PeerJoined(id[t])) \/ m = S!PeerJoined(id[t])
        /\ HasRead(p, S!PeerLeft(id[t]))' <=> HasRead(p, S!PeerLeft(id[t])) \/ m = S!PeerLeft(id[t])
        /\ HasAnswered(p, t)' <=> HasAnswered(p, t) \/ (m.type = "signal" /\ m.from = id[t])
  BY <1>2, ReadFacts
<1>7. \A q \in Publishers, t \in Subscribers : q # p =>
        /\ Welcomed(q, t)' <=> Welcomed(q, t)
        /\ HasRead(q, S!PeerJoined(id[t]))' <=> HasRead(q, S!PeerJoined(id[t]))
        /\ HasRead(q, S!PeerLeft(id[t]))' <=> HasRead(q, S!PeerLeft(id[t]))
        /\ HasAnswered(q, t)' <=> HasAnswered(q, t)
  BY <1>2, ReadFacts
<1>8. /\ id' = id /\ todo' = todo /\ answered' = answered /\ made' = made
  BY <1>1 DEF ReadsOn, relayVars
<1>9. /\ pcs' \in [Publishers -> [Subscribers -> Pcs \cup {NoPc}]]
      /\ pc' \in [Pcs -> {"none", "offered", "stable", "closed", "lost"}]
      /\ Mapped' /\ pcs'[p][s] = NoPc
      /\ \A q \in Publishers, t \in Subscribers : pcs[q][t] = NoPc => pcs'[q][t] = NoPc
      /\ \A q \in Publishers, t \in Subscribers : \A k \in 1 .. 3 :
           pc'[<<q, t, k>>] = "stable" => pc[<<q, t, k>>] = "stable" /\ pcs'[q][t] = <<q, t, k>>
  BY <1>4, DiscardFacts
<1>10. OffersAreInvited'
  <2>1. \A q \in Publishers, t \in Subscribers :
          /\ Welcomed(q, t)' <=> Welcomed(q, t)
          /\ HasRead(q, S!PeerJoined(id[t]))' <=> HasRead(q, S!PeerJoined(id[t]))
    BY <1>1, <1>6, <1>7, MessageFacts
  <2>. QED  BY <1>8, <2>1 DEF IInv, ClientInv, OffersAreInvited
<1>11. Settled'
  <2>1. ASSUME NEW q \in Publishers, NEW t \in Subscribers, NEW n \in 1 .. 3, pc'[<<q, t, n>>] = "stable"
        PROVE  pcs'[q][t] = <<q, t, n>> /\ t \notin todo'[q] /\ HasAnswered(q, t)'
    <3>1. pc[<<q, t, n>>] = "stable" /\ pcs'[q][t] = <<q, t, n>>
      BY <1>9, <2>1
    <3>2. t \notin todo[q] /\ HasAnswered(q, t)
      BY <3>1 DEF IInv, ClientInv, Settled
    <3>3. HasAnswered(q, t)'
      BY <1>6, <1>7, <3>2
    <3>. QED  BY <1>8, <3>1, <3>2, <3>3
  <2>. QED  BY <2>1 DEF Settled
<1>12. LeaversAreClosed'
  <2>1. ASSUME NEW q \in Publishers, NEW t \in Subscribers, HasRead(q, S!PeerLeft(id[t]))'
        PROVE  pcs'[q][t] = NoPc /\ t \notin todo'[q]
    <3>1. CASE HasRead(q, S!PeerLeft(id[t]))
      <4>1. pcs[q][t] = NoPc /\ t \notin todo[q]
        BY <3>1 DEF IInv, ClientInv, LeaversAreClosed
      <4>. QED  BY <1>8, <1>9, <4>1
    <3>2. CASE q = p /\ m = S!PeerLeft(id[t])
      <4>1. id[t] = id[s]
        BY <1>4, <3>2, MessageFacts
      <4>2. t = s
        BY <1>2, <1>5, <4>1 DEF RelayInv, Numbered
      <4>. QED  BY <1>8, <1>9, <3>2, <4>2
    <3>. QED  BY <1>6, <1>7, <2>1, <3>1, <3>2
  <2>. QED  BY <2>1 DEF LeaversAreClosed
<1>13. todo' \in [Publishers -> SUBSET Subscribers] /\ answered' \in [Pcs -> Pcs \cup {NoPc}]
  BY <1>2, <1>8 DEF TypeOK
<1>. QED  BY <1>9, <1>10, <1>11, <1>12, <1>13, InboundRest

(* handle_inbound on an answer.                                             *)
LEMMA Answers ==
  ASSUME IInv, NEW p \in Publishers, NEW i, ReadsOn(p, i), OnAnswer(p, outbox[p][i]), todo[p] = {},
         UNCHANGED <<link, sent, made, pageVars>>
  PROVE  IInv'
<1>. PICK m : m = outbox[p][i]
  OBVIOUS
<1>1. /\ m.type = "signal" /\ UNCHANGED <<todo, pcs>>
      /\ \E s \in ConnWithId(m.from) :
           IF pcs[p][s] # NoPc /\ pc[pcs[p][s]] = "offered"
           THEN /\ pc' = [pc EXCEPT ![pcs[p][s]] = "stable"]
                /\ answered' = [answered EXCEPT ![pcs[p][s]] = m.body.pc]
           ELSE UNCHANGED <<pc, answered>>
  BY DEF OnAnswer
<1>2. /\ p \in Conns /\ p \notin Subscribers /\ \A c \in Publishers \cup Subscribers : c \in Conns
      /\ TypeOK /\ RelayInv /\ Mapped
  BY SessionAssumption DEF IInv, ClientInv, Conns
<1>3. i \in 1 .. Len(outbox[p]) /\ Matters(p, m)
  BY DEF ReadsOn
<1>4. m.from # 0 /\ m.body.pc \in Pcs
  BY <1>1, <1>2, <1>3, SignalFacts, BodyTypes
<1>5. Names(m.from, Subscribers)
  BY <1>1, <1>2, <1>3 DEF IInv, ClientInv, Stamped
<1>6. PICK s \in Conns :
        /\ id[s] = m.from
        /\ IF pcs[p][s] # NoPc /\ pc[pcs[p][s]] = "offered"
           THEN /\ pc' = [pc EXCEPT ![pcs[p][s]] = "stable"]
                /\ answered' = [answered EXCEPT ![pcs[p][s]] = m.body.pc]
           ELSE UNCHANGED <<pc, answered>>
  BY <1>1 DEF ConnWithId
<1>7. s \in Subscribers
  BY <1>2, <1>4, <1>5, <1>6 DEF Names, RelayInv, Numbered
<1>8. pcs[p][s] = NoPc \/ \E n \in 1 .. 3 : pcs[p][s] = <<p, s, n>> /\ <<p, s, n>> \in Pcs
  BY <1>2, <1>7, PcFacts DEF Mapped
<1>9. /\ pc' \in [Pcs -> {"none", "offered", "stable", "closed", "lost"}]
      /\ \A x \in Pcs : pc'[x] = "stable" => pc[x] = "stable" \/ x = pcs[p][s]
  BY <1>2, <1>6, <1>8 DEF TypeOK
<1>10. answered' \in [Pcs -> Pcs \cup {NoPc}]
  BY <1>2, <1>4, <1>6 DEF TypeOK
<1>11. \A t \in Subscribers :
        /\ Welcomed(p, t)' <=> Welcomed(p, t) \/ (m.type = "welcome" /\ id[t] \in m.peers)
        /\ HasRead(p, S!PeerJoined(id[t]))' <=> HasRead(p, S!PeerJoined(id[t])) \/ m = S!PeerJoined(id[t])
        /\ HasRead(p, S!PeerLeft(id[t]))' <=> HasRead(p, S!PeerLeft(id[t])) \/ m = S!PeerLeft(id[t])
        /\ HasAnswered(p, t)' <=> HasAnswered(p, t) \/ (m.type = "signal" /\ m.from = id[t])
  BY <1>2, ReadFacts
<1>12. \A q \in Publishers, t \in Subscribers : q # p =>
        /\ Welcomed(q, t)' <=> Welcomed(q, t)
        /\ HasRead(q, S!PeerJoined(id[t]))' <=> HasRead(q, S!PeerJoined(id[t]))
        /\ HasRead(q, S!PeerLeft(id[t]))' <=> HasRead(q, S!PeerLeft(id[t]))
        /\ HasAnswered(q, t)' <=> HasAnswered(q, t)
  BY <1>2, ReadFacts
<1>13. /\ id' = id /\ todo' = todo /\ pcs' = pcs /\ made' = made
  BY <1>1 DEF ReadsOn, relayVars
<1>14. \A q \in Publishers, t \in Subscribers :
         /\ Welcomed(q, t)' <=> Welcomed(q, t)
         /\ HasRead(q, S!PeerJoined(id[t]))' <=> HasRead(q, S!PeerJoined(id[t]))
         /\ HasRead(q, S!PeerLeft(id[t]))' <=> HasRead(q, S!PeerLeft(id[t]))
         /\ HasAnswered(q, t) => HasAnswered(q, t)'
  BY <1>1, <1>11, <1>12, MessageFacts
<1>15. OffersAreInvited'
  BY <1>13, <1>14 DEF IInv, ClientInv, OffersAreInvited
<1>16. Settled'
  <2>1. ASSUME NEW q \in Publishers, NEW t \in Subscribers, NEW n \in 1 .. 3, pc'[<<q, t, n>>] = "stable"
        PROVE  pcs'[q][t] = <<q, t, n>> /\ t \notin todo'[q] /\ HasAnswered(q, t)'
    <3>1. CASE pc[<<q, t, n>>] = "stable"
      <4>1. pcs[q][t] = <<q, t, n>> /\ t \notin todo[q] /\ HasAnswered(q, t)
        BY <3>1 DEF IInv, ClientInv, Settled
      <4>. QED  BY <1>13, <1>14, <4>1
    <3>2. CASE <<q, t, n>> = pcs[p][s]
      <4>1. q = p /\ t = s
        <5>1. <<q, t, n>> # NoPc
          BY PcFacts
        <5>2. PICK k \in 1 .. 3 : <<q, t, n>> = <<p, s, k>>
          BY <1>8, <3>2, <5>1
        <5>. QED  BY <1>7, <5>2, PcFacts
      <4>2. HasAnswered(p, s)'
        BY <1>1, <1>6, <1>7, <1>11
      <4>. QED  BY <1>13, <3>2, <4>1, <4>2
    <3>. QED  BY <1>9, <2>1, <3>1, <3>2, PcFacts
  <2>. QED  BY <2>1 DEF Settled
<1>17. LeaversAreClosed'
  BY <1>13, <1>14 DEF IInv, ClientInv, LeaversAreClosed
<1>18. Mapped'
  BY <1>13 DEF IInv, ClientInv, Mapped
<1>19. /\ todo' \in [Publishers -> SUBSET Subscribers]
       /\ pcs' \in [Publishers -> [Subscribers -> Pcs \cup {NoPc}]]
  BY <1>2, <1>13 DEF TypeOK
<1>. QED  BY <1>9, <1>10, <1>15, <1>16, <1>17, <1>18, <1>19, InboundRest

LEMMA InboundSteps ==
  ASSUME IInv, NEW p \in Publishers, handle_inbound(p)
  PROVE  IInv'
<1>1. PICK i : /\ ReadsOn(p, i)
               /\ \/ OnWelcomeOrJoined(p, outbox[p][i]) \/ OnPeerLeft(p, outbox[p][i])
                  \/ OnAnswer(p, outbox[p][i])
               /\ todo[p] = {}
               /\ UNCHANGED <<link, sent, made, pageVars>>
  BY Inbound
<1>2. CASE OnWelcomeOrJoined(p, outbox[p][i])
  BY <1>1, <1>2, Introductions
<1>3. CASE OnPeerLeft(p, outbox[p][i])
  BY <1>1, <1>3, Farewells
<1>4. CASE OnAnswer(p, outbox[p][i])
  BY <1>1, <1>4, Answers
<1>. QED  BY <1>1, <1>2, <1>3, <1>4

(* The page's PeerConnection after a message: its publisher's leaving closes *)
(* it, and no offer comes from a publisher that has left.                   *)
LEMMA PageReads ==
  ASSUME IInv, NEW s \in Subscribers, NEW i, ReadsOn(s, i),
         OnPublisherLeft(s, outbox[s][i]) \/ OnOffer(s, outbox[s][i])
  PROVE  /\ rpc' \in [Subscribers -> Pcs \cup {NoPc}] /\ answering' \in [Subscribers -> BOOLEAN]
         /\ health' \in [Subscribers -> {"fine", "stuck", "failed"}] /\ shown' \in Subscribers \cup {NoConn}
         /\ Attached'
         /\ DepartedPublisherIsDropped'
<1>. PICK m : m = outbox[s][i]
  OBVIOUS
<1>1. /\ s \in Conns /\ s \notin Publishers /\ \A c \in Publishers \cup Subscribers : c \in Conns
      /\ NoConn \notin Publishers /\ NoPc \notin Pcs
      /\ TypeOK /\ RelayInv /\ Attached
  BY SessionAssumption DEF IInv, ClientInv, Conns
<1>2. i \in 1 .. Len(outbox[s]) /\ seen[s] < i /\ seen[s] \in Nat
  BY <1>1 DEF ReadsOn, TypeOK
<1>3. id' = id /\ outbox' = outbox
  BY DEF ReadsOn, relayVars
<1>4. \A q \in Publishers :
        HasRead(s, S!PeerLeft(id[q]))' <=> HasRead(s, S!PeerLeft(id[q])) \/ m = S!PeerLeft(id[q])
  BY <1>1, ReadFacts
<1>5. \A t \in Subscribers, q \in Publishers : t # s =>
        (HasRead(t, S!PeerLeft(id[q]))' <=> HasRead(t, S!PeerLeft(id[q])))
  BY <1>1, ReadFacts
<1>6. \A t \in Subscribers, q \in Publishers : HasRead(t, S!PeerLeft(id[q])) => From(t) # q
  BY DEF IInv, ClientInv, DepartedPublisherIsDropped, HasRead
<1>7. \A t \in Subscribers :
        /\ rpc[t] # NoPc => rpc[t] \in Pcs /\ id[rpc[t][1]] # 0
        /\ answering[t] \in BOOLEAN /\ (answering[t] => rpc[t] # NoPc)
  BY <1>1 DEF TypeOK, Attached
<1>8. SUFFICES /\ rpc' \in [Subscribers -> Pcs \cup {NoPc}] /\ answering' \in [Subscribers -> BOOLEAN]
               /\ health' \in [Subscribers -> {"fine", "stuck", "failed"}] /\ shown' \in Subscribers \cup {NoConn}
               /\ \A t \in Subscribers : t # s => rpc'[t] = rpc[t] /\ answering'[t] = answering[t]
               /\ rpc'[s] # NoPc => id[rpc'[s][1]] # 0
               /\ answering'[s] => rpc'[s] # NoPc
               /\ \A q \in Publishers : HasRead(s, S!PeerLeft(id[q]))' => From(s)' # q
  <2>1. Attached'
    BY <1>3, <1>7, <1>8 DEF Attached
  <2>2. \A t \in Subscribers, q \in Publishers : HasRead(t, S!PeerLeft(id[q]))' => From(t)' # q
    BY <1>5, <1>6, <1>8 DEF From
  <2>3. DepartedPublisherIsDropped'
    BY <2>2 DEF DepartedPublisherIsDropped, HasRead
  <2>. QED  BY <1>8, <2>1, <2>3
<1>9. CASE OnPublisherLeft(s, m)
  <2>1. CASE From(s) \in About(m)
    <3>1. /\ m.type = "peer_left"
          /\ rpc' = [rpc EXCEPT ![s] = NoPc] /\ answering' = [answering EXCEPT ![s] = FALSE]
          /\ health' = [health EXCEPT ![s] = "fine"] /\ shown' = NoConn
      BY <1>9, <2>1 DEF OnPublisherLeft
    <3>2. rpc'[s] = NoPc /\ answering'[s] = FALSE
      BY <1>1, <3>1 DEF TypeOK
    <3>3. From(s)' = NoConn
      BY <3>2 DEF From
    <3>. QED  BY <1>1, <3>1, <3>2, <3>3 DEF TypeOK
  <2>2. CASE From(s) \notin About(m)
    <3>1. UNCHANGED <<rpc, answering, health, shown>>
      BY <1>9, <2>2 DEF OnPublisherLeft
    <3>2. ASSUME NEW q \in Publishers, m = S!PeerLeft(id[q]) PROVE From(s) # q
      <4>1. q \in About(m)
        BY <1>1, <3>2, MessageFacts DEF About
      <4>. QED  BY <2>2, <4>1
    <3>3. \A q \in Publishers : HasRead(s, S!PeerLeft(id[q]))' => From(s) # q
      BY <1>4, <1>6, <3>2
    <3>4. From(s)' = From(s)
      BY <3>1 DEF From
    <3>. QED  BY <1>1, <1>7, <3>1, <3>3, <3>4 DEF TypeOK
  <2>. QED  BY <2>1, <2>2
<1>10. CASE OnOffer(s, m)
  <2>1. /\ m.type = "signal"
        /\ rpc' = [rpc EXCEPT ![s] = m.body.pc] /\ answering' = [answering EXCEPT ![s] = TRUE]
        /\ health' = [health EXCEPT ![s] = "fine"] /\ shown' = s
    BY <1>10 DEF OnOffer
  <2>2. m.from # 0 /\ m.body.pc \in Pcs /\ m.body.pc[1] \in Publishers
    BY <1>1, <1>2, <2>1, SignalFacts, BodyTypes
  <2>3. id[m.body.pc[1]] = m.from
    BY <1>1, <1>2, <2>1 DEF IInv, ClientInv, Stamped
  <2>4. rpc'[s] = m.body.pc /\ rpc'[s] # NoPc
    BY <1>1, <2>1, <2>2 DEF TypeOK
  <2>5. ASSUME NEW q \in Publishers, HasRead(s, S!PeerLeft(id[q]))', From(s)' = q
        PROVE  FALSE
    <3>1. m.from = id[q]
      BY <2>3, <2>4, <2>5 DEF From
    <3>2. HasRead(s, S!PeerLeft(id[q]))
      BY <1>4, <2>1, <2>5, MessageFacts
    <3>3. PICK j \in 1 .. seen[s] : outbox[s][j] = S!PeerLeft(id[q])
      BY <3>2 DEF HasRead
    <3>4. Len(outbox[s]) \in Nat
      BY <1>1 DEF RelayInv, RelayTypes
    <3>5. j \in 1 .. Len(outbox[s]) /\ j < i
      BY <1>2, <3>4
    <3>6. MayPrecede(outbox[s][j], m)
      BY <1>1, <1>2, <3>5 DEF RelayInv, InOrder
    <3>7. Who(outbox[s][j]) = Who(m) /\ outbox[s][j].type = "peer_left"
      BY <2>1, <3>1, <3>3, MessageFacts DEF Who
    <3>. QED  BY <2>1, <3>6, <3>7 DEF MayPrecede
  <2>6. /\ rpc' \in [Subscribers -> Pcs \cup {NoPc}] /\ answering' \in [Subscribers -> BOOLEAN]
        /\ health' \in [Subscribers -> {"fine", "stuck", "failed"}] /\ shown' \in Subscribers \cup {NoConn}
        /\ \A t \in Subscribers : t # s => rpc'[t] = rpc[t] /\ answering'[t] = answering[t]
    BY <1>1, <2>1, <2>2 DEF TypeOK
  <2>. QED  BY <2>2, <2>3, <2>4, <2>5, <2>6
<1>. QED  BY <1>9, <1>10

LEMMA PageReadSteps ==
  ASSUME IInv, NEW s \in Subscribers, onmessage(s)
  PROVE  IInv'
<1>. USE DEF publisherVars
<1>1. PICK i : /\ ReadsOn(s, i)
               /\ OnPublisherLeft(s, outbox[s][i]) \/ OnOffer(s, outbox[s][i])
               /\ UNCHANGED <<relayVars, link, sent, publisherVars, armed, troubles>>
  BY Incoming
<1>2. s \in Conns /\ s \notin Publishers /\ \A c \in Publishers \cup Subscribers : c \in Conns
  BY SessionAssumption DEF Conns
<1>3. /\ rpc' \in [Subscribers -> Pcs \cup {NoPc}] /\ answering' \in [Subscribers -> BOOLEAN]
      /\ health' \in [Subscribers -> {"fine", "stuck", "failed"}] /\ shown' \in Subscribers \cup {NoConn}
      /\ Attached' /\ DepartedPublisherIsDropped'
  BY <1>1, PageReads
<1>4. /\ RelayInv' /\ Grown /\ Stamped'
      /\ seen' \in [Conns -> Nat] /\ \A d \in Conns : seen'[d] <= Len(outbox'[d])
  BY <1>1, <1>2, ReadFacts
<1>5. \A p \in Publishers, t \in Subscribers :
        /\ Welcomed(p, t)' <=> Welcomed(p, t)
        /\ HasRead(p, S!PeerJoined(id[t]))' <=> HasRead(p, S!PeerJoined(id[t]))
        /\ HasRead(p, S!PeerLeft(id[t]))' <=> HasRead(p, S!PeerLeft(id[t]))
        /\ HasAnswered(p, t)' <=> HasAnswered(p, t)
  BY <1>1, <1>2, ReadFacts
<1>6. UNCHANGED <<stage, id, outbox, link, sent, todo, pcs, made, pc, answered, armed, troubles>>
  BY <1>1 DEF relayVars
<1>7. TypeOK'
  BY <1>3, <1>4, <1>6 DEF IInv, ClientInv, TypeOK
<1>8. Cabled'
  BY <1>4, <1>6 DEF IInv, ClientInv, Cabled
<1>9. Addressed' /\ PageNeverGivesUp' /\ Mapped'
  BY <1>6 DEF IInv, ClientInv, Addressed, PageNeverGivesUp, Names, Mapped
<1>10. OffersAreInvited'
  BY <1>5, <1>6 DEF IInv, ClientInv, OffersAreInvited
<1>11. Settled'
  BY <1>5, <1>6 DEF IInv, ClientInv, Settled
<1>12. LeaversAreClosed'
  BY <1>5, <1>6 DEF IInv, ClientInv, LeaversAreClosed
<1>. QED  BY <1>3, <1>4, <1>7, <1>8, <1>9, <1>10, <1>11, <1>12 DEF IInv, ClientInv

----------------------------------------------------------------------------
(* The theorems.                                                            *)

LEMMA InitIsSafe == Init => IInv
<1>. SUFFICES ASSUME Init PROVE IInv
  OBVIOUS
<1>1. RelayInv
  BY InitRelay
<1>2. /\ stage = [c \in Conns |-> "out"] /\ id = [c \in Conns |-> 0] /\ outbox = [c \in Conns |-> <<>>]
      /\ sent = [c \in Conns |-> <<>>]
      /\ seen = [c \in Conns |-> 0]
      /\ todo = [p \in Publishers |-> {}]
      /\ pcs = [p \in Publishers |-> [s \in Subscribers |-> NoPc]]
      /\ made = [p \in Publishers |-> [s \in Subscribers |-> 0]]
      /\ pc = [x \in Pcs |-> "none"]
      /\ answered = [x \in Pcs |-> NoPc]
      /\ rpc = [s \in Subscribers |-> NoPc]
      /\ answering = [s \in Subscribers |-> FALSE]
      /\ health = [s \in Subscribers |-> "fine"]
      /\ armed = FALSE
      /\ shown = NoConn
      /\ troubles = 0
  BY DEF Init, S!Init
<1>3. PICK f \in Subscribers : link = [c \in Conns |-> IF c = f THEN "up" ELSE "unused"]
  BY SessionAssumption DEF Init
<1>4. \A c \in Publishers \cup Subscribers : c \in Conns
  BY DEF Conns
<1>5. TypeOK
  <2>1. <<>> \in Seq(Frames)
    OBVIOUS
  <2>2. MaxTroubles \in Nat
    BY SessionAssumption
  <2>3. link \in [Conns -> {"unused", "up", "cut", "closing", "over"}]
    BY <1>3
  <2>4. sent \in [Conns -> Seq(Frames)] /\ seen \in [Conns -> Nat]
    BY <1>2, <2>1
  <2>5. /\ todo \in [Publishers -> SUBSET Subscribers]
        /\ pcs \in [Publishers -> [Subscribers -> Pcs \cup {NoPc}]]
        /\ made \in [Publishers -> [Subscribers -> Nat]]
        /\ pc \in [Pcs -> {"none", "offered", "stable", "closed", "lost"}]
        /\ answered \in [Pcs -> Pcs \cup {NoPc}]
    BY <1>2
  <2>6. /\ rpc \in [Subscribers -> Pcs \cup {NoPc}]
        /\ answering \in [Subscribers -> BOOLEAN]
        /\ health \in [Subscribers -> {"fine", "stuck", "failed"}]
        /\ armed \in BOOLEAN
        /\ shown \in Subscribers \cup {NoConn}
    BY <1>2
  <2>7. troubles \in 0 .. MaxTroubles
    BY <1>2, <2>2
  <2>. QED  BY <2>3, <2>4, <2>5, <2>6, <2>7 DEF TypeOK
<1>6. Cabled /\ Addressed /\ Stamped
  BY <1>2, <1>3 DEF Cabled, Addressed, Stamped
<1>7. \A c \in Conns : \A i \in 1 .. seen[c] : FALSE
  BY <1>2
<1>8. OffersAreInvited
  BY <1>2 DEF OffersAreInvited
<1>9. Mapped /\ Settled
  BY <1>2, PcFacts DEF Mapped, Settled
<1>10. LeaversAreClosed
  BY <1>2, <1>4, <1>7 DEF LeaversAreClosed
<1>11. Attached /\ PageNeverGivesUp
  BY <1>2, <1>3, <1>4 DEF Attached, PageNeverGivesUp
<1>12. DepartedPublisherIsDropped
  BY <1>4, <1>7 DEF DepartedPublisherIsDropped
<1>. QED  BY <1>1, <1>5, <1>6, <1>8, <1>9, <1>10, <1>11, <1>12 DEF IInv, ClientInv

LEMMA Stuttering == IInv /\ UNCHANGED vars => IInv'
<1>. SUFFICES ASSUME IInv, UNCHANGED vars PROVE IInv'
  OBVIOUS
<1>. USE DEF vars
<1>1. UNCHANGED relayVars /\ UNCHANGED <<relayVars, seen>>
  BY DEF relayVars
<1>2. RelayInv' /\ Grown /\ Stamped'
  BY <1>1, SameOutbox
<1>3. TypeOK' /\ Cabled' /\ Addressed' /\ PageNeverGivesUp'
  BY DEF IInv, ClientInv, TypeOK, Cabled, Addressed, Names, PageNeverGivesUp
<1>. QED  BY <1>2, <1>3, PublisherRests, PageRests DEF IInv, ClientInv, publisherVars

LEMMA StepsAreSafe == IInv /\ [Next]_vars => IInv'
<1>. SUFFICES ASSUME IInv, [Next]_vars PROVE IInv'
  OBVIOUS
<1>1. CASE \E c \in Conns : RelayStep(c) \/ NetworkCuts(c)
  BY <1>1, RelaySteps
<1>2. ASSUME NEW p \in Publishers, PublisherStep(p) PROVE IInv'
  BY <1>2, SocketSteps, LosingSteps, InboundSteps, OfferingSteps DEF PublisherStep
<1>3. ASSUME NEW p \in Publishers, NEW s \in Subscribers, NEW n \in 1 .. 3, PublisherPcFails(p, s, n) PROVE IInv'
  BY <1>3, FailingSteps
<1>4. ASSUME NEW s \in Subscribers, PageStep(s) PROVE IInv'
  BY <1>4, SocketSteps, PageReadSteps, PageAnswersSteps DEF PageStep
<1>5. ASSUME NEW s \in Subscribers, PageStuck(s) \/ PageFails(s) \/ PathFails(s) PROVE IInv'
  BY <1>5, SocketSteps
<1>6. CASE UNCHANGED vars
  BY <1>6, Stuttering
<1>. QED  BY <1>1, <1>2, <1>3, <1>4, <1>5, <1>6 DEF Next

(* Everything above holds in every state the relay, the publisher and the   *)
(* page can be in.                                                          *)
THEOREM Invariance == Spec => []IInv
  BY InitIsSafe, StepsAreSafe, PTL DEF Spec

(* Every variable has its type, for any number of connections.              *)
THEOREM TypesAreRight == Spec => []TypeOK
<1>1. IInv => TypeOK
  BY DEF IInv, ClientInv
<1>. QED  BY <1>1, Invariance, PTL

(* An answer is never given to a PeerConnection the publisher has replaced,  *)
(* nor does one replace another that was answered (publisher.rs).           *)
THEOREM AnswersAreCurrent == Spec => []AnsweredIsCurrent
<1>1. IInv => AnsweredIsCurrent
  BY DEF IInv, ClientInv, Settled, AnsweredIsCurrent
<1>. QED  BY <1>1, Invariance, PTL

(* A publisher connection makes at most two PeerConnections for one session  *)
(* of the page, and two only when the Welcome and PeerJoined both name it.   *)
THEOREM OffersAreFew == Spec => []AtMostTwoOffers
<1>1. IInv => AtMostTwoOffers
  BY DEF IInv, ClientInv, OffersAreInvited, AtMostTwoOffers
<1>. QED  BY <1>1, Invariance, PTL

(* No offer that was still on its way takes a session back to a publisher    *)
(* whose leaving it has read (receiver.html, publisherId).                   *)
THEOREM DepartedPublishersStayGone == Spec => []DepartedPublisherIsDropped
<1>1. IInv => DepartedPublisherIsDropped
  BY DEF IInv, ClientInv
<1>. QED  BY <1>1, Invariance, PTL

(* The page always has a socket or a retry under way (scheduleRecovery,      *)
(* ws.onclose).                                                             *)
THEOREM ThePageGoesOn == Spec => []PageNeverGivesUp
<1>1. IInv => PageNeverGivesUp
  BY DEF IInv, ClientInv
<1>. QED  BY <1>1, Invariance, PTL

(* A publisher that was told by PeerJoined of a subscriber, is up and has    *)
(* read everything has closed its PeerConnection once that subscriber has    *)
(* gone: the leaving was announced to it too, and is never passed over.      *)
(* Subscribers that were only listed in its Welcome are not covered.         *)
THEOREM LeaversLeaveNothing == Spec => []AnnouncedLeaversAreClosed
<1>1. IInv => AnnouncedLeaversAreClosed
  <2>. SUFFICES ASSUME IInv, NEW p \in Publishers, NEW s \in Subscribers, CaughtUp(p), stage[s] = "gone",
                       NEW i \in 1 .. Len(outbox[p]), outbox[p][i] = S!PeerJoined(id[s])
                PROVE  pcs[p][s] = NoPc
    BY DEF AnnouncedLeaversAreClosed
  <2>1. p \in Conns /\ s \in Conns /\ p # s
    BY SessionAssumption DEF Conns
  <2>2. link[p] = "up" /\ \A j \in seen[p] + 1 .. Len(outbox[p]) : ~ Matters(p, outbox[p][j])
    BY DEF CaughtUp, Unread
  <2>3. /\ RelayInv /\ Cabled /\ seen[p] \in Nat /\ Len(outbox[p]) \in Nat
        /\ stage[p] \in S!Stages
    BY <2>1 DEF IInv, ClientInv, TypeOK, RelayInv, RelayTypes
  <2>4. stage[p] \in {"registered", "joined"}
    <3>1. stage[p] # "out"
      <4>1. stage[p] = "out" => outbox[p] = <<>>
        BY <2>1, <2>3 DEF RelayInv, Truthful
      <4>. QED  BY <4>1
    <3>2. stage[p] # "admitted"
      BY <2>1, <2>3, MessageFacts DEF RelayInv, Truthful
    <3>3. stage[p] \notin {"departing", "gone"}
      BY <2>1, <2>2, <2>3 DEF Cabled
    <3>. QED  BY <2>3, <3>1, <3>2, <3>3 DEF S!Stages
  <2>5. Hears(p, S!PeerLeft(id[s]))
    <3>1. Hears(p, S!PeerJoined(id[s]))
      BY DEF Hears
    <3>. QED  BY <2>1, <2>3, <2>4, <3>1 DEF RelayInv, LeaversAreAnnounced
  <2>6. PICK j \in 1 .. Len(outbox[p]) : outbox[p][j] = S!PeerLeft(id[s])
    BY <2>5 DEF Hears
  <2>7. j <= seen[p]
    <3>1. Matters(p, outbox[p][j])
      BY <2>1, <2>3, <2>6, Overlooked
    <3>. QED  BY <2>2, <2>3, <3>1
  <2>8. HasRead(p, S!PeerLeft(id[s]))
    BY <2>3, <2>6, <2>7 DEF HasRead
  <2>. QED  BY <2>8 DEF IInv, ClientInv, LeaversAreClosed
<1>. QED  BY <1>1, Invariance, PTL
=============================================================================
