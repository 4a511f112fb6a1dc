---------------------------- MODULE RelayProofs ----------------------------
(***************************************************************************)
(* Proofs about Relay, for any number of connections, codes and rooms.     *)
(*                                                                         *)
(*   TypeCorrect       every variable keeps its type                       *)
(*   RoomsNeverLeak    []NoLeakedRoom, from which task holds which room    *)
(*   LeftIsFinal       []SilentAfterLeft, from who can have left           *)
(*   WelcomeComesFirst []WelcomeFirst, from nothing being sent before it   *)
(*   JoinersMeet       []OneKnowsTheOther, from LeftIsFinal's invariant    *)
(*   RoutingIsSound    []SignalsStayInRoom                                 *)
(*   JoinsAreRetracted []JoinIsRetracted, from who may have announced      *)
(*                     itself to whom                                      *)
(*   RelayIsSignalling every behaviour of the relay is one of Signalling   *)
(*                     (ImplementsSignalling), from Base and from where    *)
(*                     the target of a forward is                          *)
(*                                                                         *)
(* Base is the inductive invariant they all rest on: which task holds a    *)
(* room, an id and a target at each point of handle_socket.                *)
(***************************************************************************)
EXTENDS Relay, TLAPS

----------------------------------------------------------------------------
(* Appending to a channel, to one or to everyone in an audience.            *)

LEMMA AppendFacts ==
  ASSUME NEW S, NEW s \in Seq(S), NEW m \in S
  PROVE  /\ Append(s, m) \in Seq(S)
         /\ Len(Append(s, m)) = Len(s) + 1
         /\ \A i \in 1 .. Len(s) : Append(s, m)[i] = s[i]
         /\ Append(s, m)[Len(s) + 1] = m
  OBVIOUS

LEMMA AppendKeeps ==
  ASSUME NEW S, NEW s \in Seq(S), NEW m \in S
  PROVE  /\ \E n \in 1 .. Len(Append(s, m)) : Append(s, m)[n] = m
         /\ \A x : (\E n \in 1 .. Len(s) : s[n] = x)
                  => \E n \in 1 .. Len(Append(s, m)) : Append(s, m)[n] = x
<1>1. Len(s) \in Nat
  OBVIOUS
<1>2. Len(s) + 1 \in 1 .. Len(Append(s, m))
  BY <1>1, AppendFacts
<1>3. 1 .. Len(s) \subseteq 1 .. Len(Append(s, m))
  BY <1>1, AppendFacts
<1>. QED  BY <1>2, <1>3, AppendFacts

LEMMA SendFacts ==
  ASSUME TypeOK, NEW c \in Conns, NEW m \in Messages, Send(c, m)
  PROVE  /\ outbox' \in [Conns -> Seq(Messages)]
         /\ outbox'[c] = Append(outbox[c], m)
         /\ \A d \in Conns : d # c => outbox'[d] = outbox[d]
  BY AppendFacts DEF Send, TypeOK

LEMMA BroadcastFacts ==
  ASSUME TypeOK, NEW r, NEW c, NEW m \in Messages, broadcast_except(r, c, m)
  PROVE  /\ outbox' \in [Conns -> Seq(Messages)]
         /\ \A d \in Conns : d \in peers[r] /\ d # c => outbox'[d] = Append(outbox[d], m)
         /\ \A d \in Conns : ~ (d \in peers[r] /\ d # c) => outbox'[d] = outbox[d]
  BY AppendFacts DEF broadcast_except, Audience, TypeOK

Frames == [by : Conns, body : Bodies]

Read(f) == \E n \in 1 .. Len(frames) : frames[n] = f

LEMMA FramesGrow ==
  ASSUME TypeOK, NEW f \in Frames, frames' = Append(frames, f)
  PROVE  Read(f)' /\ \A g : Read(g) => Read(g)'
<1>1. frames \in Seq(Frames)
  BY DEF TypeOK, Frames
<1>. QED  BY <1>1, AppendKeeps DEF Read

(* The messages of the relay are well formed. *)
LEMMA MessageTypes ==
  /\ \A id \in PeerIds : PeerJoined(id) \in Messages /\ PeerLeft(id) \in Messages
  /\ \A id \in PeerIds, ids \in SUBSET PeerIds : Welcome(id, ids) \in Messages
  /\ \A id \in Nat, to \in PeerIds, b \in Bodies : Signal(id, to, b) \in Messages
  /\ Error("version_mismatch") \in Messages
  /\ Error("room_not_found") \in Messages
  BY DEF Messages, PeerJoined, PeerLeft, Welcome, Signal, Error

----------------------------------------------------------------------------
(* Which tasks hold a room and an id: the support every proof rests on.     *)

(* Between the room lookup and the end of the task. *)
Holding == {"mint", "welcome", "insert", "announce", "serving", "forward",
            "remove", "left", "gc"}

(* Between mint_peer_id and the end of the task. *)
Named == Holding \ {"mint"}

(* Before the Welcome. *)
Early == {"hello", "resurrect", "mint", "welcome"}

(* Registered in the room, as Room.peers has it. *)
Present == {"announce", "serving", "forward", "remove"}

HeldRooms ==
  /\ \A c \in Conns : pc[c] \in Holding => room[c] \in Rooms
  /\ \A c \in Conns : room[c] # NoRoom => code[room[c]] = asked[c] /\ asked[c] \in Codes
  /\ \A c \in Conns : pc[c] \in {"hello", "resurrect"} => room[c] = NoRoom
  /\ \A c \in Conns : pc[c] = "resurrect" => asked[c] \in Codes
  /\ \A k \in Codes : registry[k] # NoRoom => code[registry[k]] = k

Membership ==
  \A r \in Rooms, c \in Conns : c \in peers[r] <=> room[c] = r /\ pc[c] \in Present

Ids ==
  /\ \A c \in Conns : pc[c] \in Named => peer_id[c] \in PeerIds
  /\ \A c \in Conns : peer_id[c] < next_peer_id
  /\ \A c \in Conns : pc[c] \in {"hello", "resurrect", "mint"} => peer_id[c] = 0
  /\ \A c, d \in Conns : peer_id[c] = peer_id[d] /\ peer_id[c] # 0 => c = d

Targets ==
  \A c \in Conns : pc[c] = "forward" =>
    /\ target[c] \in [to : Conns, body : Bodies]
    /\ room[target[c].to] = room[c]
    /\ peer_id[target[c].to] \in PeerIds
    /\ pc[target[c].to] \notin Early
    /\ Read([by |-> c, body |-> target[c].body])

Base == TypeOK /\ HeldRooms /\ Membership /\ Ids /\ Targets

LEMMA InitBase == Init => Base
  BY RelayAssumption
  DEF Init, Base, TypeOK, HeldRooms, Membership, Ids, Targets, Holding, Named,
      Present, Early, Labels, PeerIds, FirstPeerId

(* A task that has an id also has a room, whose members all have ids. *)
LEMMA NamedFacts ==
  ASSUME Base, NEW c \in Conns, pc[c] \in Named
  PROVE  /\ room[c] \in Rooms
         /\ peer_id[c] \in PeerIds
         /\ snapshot(room[c]) \in SUBSET PeerIds
<1>1. room[c] \in Rooms
  BY DEF Base, HeldRooms, Named
<1>2. peer_id[c] \in PeerIds
  BY DEF Base, Ids
<1>3. ASSUME NEW d \in peers[room[c]] PROVE peer_id[d] \in PeerIds
  <2>1. d \in Conns
    BY <1>1, <1>3 DEF Base, TypeOK
  <2>2. pc[d] \in Named
    BY <1>1, <1>3, <2>1 DEF Base, Membership, Present, Named, Holding
  <2>. QED  BY <2>1, <2>2 DEF Base, Ids
<1>. QED  BY <1>1, <1>2, <1>3 DEF snapshot

----------------------------------------------------------------------------
(* Type correctness.                                                        *)

(* Who a step is by: the HTTP handler, or the task of one connection. *)
StepOf(c) ==
  \/ NoHello(c)
  \/ \E v \in ClientVersions : HelloWrongVersion(c, v)
  \/ \E v \in ClientVersions, k \in Codes : HelloRoomFound(c, v, k)
  \/ \E v \in ClientVersions, k \in Codes : HelloNoRoom(c, v, k)
  \/ get_or_resurrect(c)
  \/ mint_peer_id(c)
  \/ SendWelcome(c)
  \/ Insert(c)
  \/ AnnounceJoined(c)
  \/ \E to \in 1 .. next_peer_id, b \in Bodies : ReceiveSignal(c, to, b)
  \/ \E claimed \in 0 .. next_peer_id : ForwardSignal(c, claimed)
  \/ SocketClosed(c)
  \/ RemovePeer(c)
  \/ AnnounceLeft(c)
  \/ gc_if_empty(c)

LEMMA NextCases ==
  ASSUME [Next]_vars
  PROVE  \/ \E k \in Codes, r \in Rooms : create_room(k, r)
         \/ \E c \in Conns : StepOf(c)
         \/ UNCHANGED vars
  BY DEF Next, ClientStep, TaskStep, StepOf

(* What a step does to the channels: at most one well-formed message, to *)
(* one connection or to the room the task is in.                          *)
LEMMA OutboxTyped ==
  ASSUME Base, NEW c \in Conns, StepOf(c)
  PROVE  outbox' \in [Conns -> Seq(Messages)]
<1>1. CASE \E v \in ClientVersions : HelloWrongVersion(c, v)
  BY <1>1, SendFacts, MessageTypes DEF HelloWrongVersion, Base
<1>2. CASE \E v \in ClientVersions, k \in Codes : HelloNoRoom(c, v, k)
  BY <1>2, SendFacts, MessageTypes DEF HelloNoRoom, Base, TypeOK
<1>3. CASE SendWelcome(c)
  <2>1. pc[c] \in Named
    BY <1>3 DEF SendWelcome, Named, Holding
  <2>2. Welcome(peer_id[c], snapshot(room[c])) \in Messages
    BY <2>1, NamedFacts, MessageTypes
  <2>. QED  BY <1>3, <2>2, SendFacts DEF SendWelcome, Base
<1>4. CASE AnnounceJoined(c)
  <2>1. pc[c] \in Named
    BY <1>4 DEF AnnounceJoined, Named, Holding
  <2>2. PeerJoined(peer_id[c]) \in Messages
    BY <2>1, NamedFacts, MessageTypes
  <2>. QED  BY <1>4, <2>2, BroadcastFacts DEF AnnounceJoined, Base
<1>5. CASE AnnounceLeft(c)
  <2>1. pc[c] \in Named
    BY <1>5 DEF AnnounceLeft, Named, Holding
  <2>2. PeerLeft(peer_id[c]) \in Messages
    BY <2>1, NamedFacts, MessageTypes
  <2>. QED  BY <1>5, <2>2, BroadcastFacts DEF AnnounceLeft, Base
<1>6. CASE \E claimed \in 0 .. next_peer_id : ForwardSignal(c, claimed)
  <2>1. PICK claimed : ForwardSignal(c, claimed)
    BY <1>6
  <2>2. /\ target[c].to \in Conns /\ target[c].body \in Bodies
        /\ peer_id[target[c].to] \in PeerIds
        /\ peer_id[c] \in Nat
    BY <2>1 DEF ForwardSignal, Base, Targets, TypeOK
  <2>3. Signal(peer_id[c], peer_id[target[c].to], target[c].body) \in Messages
    BY <2>2, MessageTypes
  <2>. QED  BY <2>1, <2>2, <2>3, SendFacts DEF ForwardSignal, StampedFrom, Base
<1>7. CASE UNCHANGED outbox
  BY <1>7 DEF Base, TypeOK
<1>. QED
  BY <1>1, <1>2, <1>3, <1>4, <1>5, <1>6, <1>7
  DEF StepOf, NoHello, HelloRoomFound, get_or_resurrect, mint_peer_id, Insert,
      ReceiveSignal, SocketClosed, RemovePeer, gc_if_empty

LEMMA TypeStep == Base /\ [Next]_vars => TypeOK'
<1>. SUFFICES ASSUME Base, [Next]_vars PROVE TypeOK'
  OBVIOUS
<1>1. ASSUME NEW k \in Codes, NEW r \in Rooms, create_room(k, r)
      PROVE  TypeOK'
  BY <1>1 DEF create_room, Base, TypeOK, taskVars
<1>2. ASSUME NEW c \in Conns, StepOf(c)
      PROVE  TypeOK'
  <2>1. outbox' \in [Conns -> Seq(Messages)]
    BY <1>2, OutboxTyped
  <2>. USE <2>1 DEF Base, TypeOK, registryVars, Goto, After, Labels
  <2>2. CASE NoHello(c)
    BY <2>2 DEF NoHello
  <2>3. CASE \E v \in ClientVersions : HelloWrongVersion(c, v)
    BY <2>3 DEF HelloWrongVersion
  <2>4. CASE \E v \in ClientVersions, k \in Codes : HelloRoomFound(c, v, k)
    BY <2>4 DEF HelloRoomFound
  <2>5. CASE \E v \in ClientVersions, k \in Codes : HelloNoRoom(c, v, k)
    <3>1. PICK v \in ClientVersions, k \in Codes : HelloNoRoom(c, v, k)
      BY <2>5
    <3>2. asked' \in [Conns -> Codes \cup {NoCode}]
      BY <3>1 DEF HelloNoRoom
    <3>3. pc' \in [Conns -> Labels]
      BY <3>1 DEF HelloNoRoom
    <3>. QED  BY <3>1, <3>2, <3>3 DEF HelloNoRoom
  <2>6. CASE get_or_resurrect(c)
    <3>1. asked[c] \in Codes
      BY <2>6 DEF get_or_resurrect, HeldRooms
    <3>2. room' \in [Conns -> Rooms \cup {NoRoom}]
      BY <2>6, <3>1 DEF get_or_resurrect, Unborn
    <3>3. registry' \in [Codes -> Rooms \cup {NoRoom}]
      BY <2>6, <3>1 DEF get_or_resurrect, Unborn
    <3>5. code' \in [Rooms -> Codes \cup {NoCode}]
      BY <2>6, <3>1 DEF get_or_resurrect, Unborn
    <3>4. pc' \in [Conns -> Labels]
      BY <2>6 DEF get_or_resurrect
    <3>. QED  BY <2>6, <3>2, <3>3, <3>4, <3>5 DEF get_or_resurrect
  <2>7. CASE mint_peer_id(c)
    BY <2>7 DEF mint_peer_id, PeerIds
  <2>8. CASE SendWelcome(c)
    BY <2>8 DEF SendWelcome
  <2>9. CASE Insert(c)
    BY <2>9 DEF Insert
  <2>10. CASE AnnounceJoined(c)
    BY <2>10 DEF AnnounceJoined
  <2>11. CASE \E to \in 1 .. next_peer_id, b \in Bodies : ReceiveSignal(c, to, b)
    <3>1. PICK to \in 1 .. next_peer_id, b \in Bodies : ReceiveSignal(c, to, b)
      BY <2>11
    <3>2. room[c] \in Rooms
      BY <3>1 DEF ReceiveSignal, CanReceive, HeldRooms, Holding
    <3>3. peer_tx(room[c], to) \subseteq Conns
      BY <3>2 DEF peer_tx
    <3>4. frames' \in Seq([by : Conns, body : Bodies])
      BY <3>1, AppendFacts DEF ReceiveSignal
    <3>5. target' \in [Conns -> [to : Conns, body : Bodies] \cup {NoTarget}]
      <4>1. CASE UNCHANGED target
        BY <4>1
      <4>2. ASSUME NEW d \in peer_tx(room[c], to),
                   target' = [target EXCEPT ![c] = [to |-> d, body |-> b]]
            PROVE  target' \in [Conns -> [to : Conns, body : Bodies] \cup {NoTarget}]
        <5>1. [to |-> d, body |-> b] \in [to : Conns, body : Bodies]
          BY <3>3, <4>2
        <5>. QED  BY <4>2, <5>1
      <4>. QED  BY <3>1, <4>1, <4>2 DEF ReceiveSignal
    <3>6. pc' \in [Conns -> Labels]
      BY <3>1 DEF ReceiveSignal
    <3>. QED  BY <3>1, <3>4, <3>5, <3>6 DEF ReceiveSignal
  <2>12. CASE \E claimed \in 0 .. next_peer_id : ForwardSignal(c, claimed)
    BY <2>12 DEF ForwardSignal
  <2>13. CASE SocketClosed(c)
    BY <2>13 DEF SocketClosed
  <2>14. CASE RemovePeer(c)
    BY <2>14 DEF RemovePeer
  <2>15. CASE AnnounceLeft(c)
    BY <2>15 DEF AnnounceLeft
  <2>16. CASE gc_if_empty(c)
    BY <2>16 DEF gc_if_empty
  <2>. QED
    BY <1>2, <2>2, <2>3, <2>4, <2>5, <2>6, <2>7, <2>8, <2>9, <2>10, <2>11, <2>12,
       <2>13, <2>14, <2>15, <2>16 DEF StepOf
<1>3. CASE UNCHANGED vars
  BY <1>3 DEF vars, Base, TypeOK
<1>. QED  BY <1>1, <1>2, <1>3, NextCases

----------------------------------------------------------------------------
(* The support is inductive.                                                *)

LEMMA HeldRoomsStep == Base /\ [Next]_vars => HeldRooms'
<1>. SUFFICES ASSUME Base, [Next]_vars PROVE HeldRooms'
  OBVIOUS
<1>. USE DEF Base, TypeOK, HeldRooms, Holding, registryVars, Goto, After
<1>1. ASSUME NEW k \in Codes, NEW r \in Rooms, create_room(k, r)
      PROVE  HeldRooms'
  BY <1>1, RelayAssumption DEF create_room, taskVars, Unborn
<1>2. ASSUME NEW c \in Conns, StepOf(c)
      PROVE  HeldRooms'
  <2>1. CASE NoHello(c)
    BY <2>1 DEF NoHello
  <2>2. CASE \E v \in ClientVersions : HelloWrongVersion(c, v)
    BY <2>2 DEF HelloWrongVersion
  <2>3. CASE \E v \in ClientVersions, k \in Codes : HelloRoomFound(c, v, k)
    BY <2>3 DEF HelloRoomFound
  <2>4. CASE \E v \in ClientVersions, k \in Codes : HelloNoRoom(c, v, k)
    BY <2>4 DEF HelloNoRoom
  <2>5. CASE get_or_resurrect(c)
    <3>1. asked[c] \in Codes /\ pc[c] = "resurrect"
      BY <2>5 DEF get_or_resurrect
    <3>2. CASE registry[asked[c]] # NoRoom
      <4>1. /\ code[registry[asked[c]]] = asked[c]
            /\ registry[asked[c]] \in Rooms
        BY <3>1, <3>2
      <4>. QED  BY <2>5, <3>1, <3>2, <4>1 DEF get_or_resurrect
    <3>3. CASE registry[asked[c]] = NoRoom
      <4>1. PICK r \in Unborn :
              /\ code' = [code EXCEPT ![r] = asked[c]]
              /\ registry' = [registry EXCEPT ![asked[c]] = r]
              /\ room' = [room EXCEPT ![c] = r]
        BY <2>5, <3>3 DEF get_or_resurrect
      <4>2. r \in Rooms /\ code[r] = NoCode
        BY DEF Unborn
      <4>3. \A d \in Conns : room[d] # r
        BY <4>2, RelayAssumption
      <4>4. \A k \in Codes : registry[k] # r
        BY <4>2, RelayAssumption
      <4>. QED  BY <2>5, <3>1, <4>1, <4>2, <4>3, <4>4, RelayAssumption DEF get_or_resurrect
    <3>. QED  BY <3>2, <3>3
  <2>6. CASE mint_peer_id(c)
    BY <2>6 DEF mint_peer_id
  <2>7. CASE SendWelcome(c)
    BY <2>7 DEF SendWelcome
  <2>8. CASE Insert(c)
    BY <2>8 DEF Insert
  <2>9. CASE AnnounceJoined(c)
    BY <2>9 DEF AnnounceJoined
  <2>10. CASE \E to \in 1 .. next_peer_id, b \in Bodies : ReceiveSignal(c, to, b)
    BY <2>10 DEF ReceiveSignal, CanReceive
  <2>11. CASE \E claimed \in 0 .. next_peer_id : ForwardSignal(c, claimed)
    BY <2>11 DEF ForwardSignal
  <2>12. CASE SocketClosed(c)
    BY <2>12 DEF SocketClosed
  <2>13. CASE RemovePeer(c)
    BY <2>13 DEF RemovePeer
  <2>14. CASE AnnounceLeft(c)
    BY <2>14 DEF AnnounceLeft
  <2>15. CASE gc_if_empty(c)
    BY <2>15 DEF gc_if_empty
  <2>. QED
    BY <1>2, <2>1, <2>2, <2>3, <2>4, <2>5, <2>6, <2>7, <2>8,
       <2>9, <2>10, <2>11, <2>12, <2>13, <2>14, <2>15 DEF StepOf
<1>3. CASE UNCHANGED vars
  BY <1>3 DEF vars
<1>. QED  BY <1>1, <1>2, <1>3, NextCases

LEMMA MembershipStep == Base /\ [Next]_vars => Membership'
<1>. SUFFICES ASSUME Base, [Next]_vars PROVE Membership'
  OBVIOUS
<1>. USE DEF Base, TypeOK, Membership, Present, registryVars, Goto, After
<1>1. ASSUME NEW k \in Codes, NEW r \in Rooms, create_room(k, r)
      PROVE  Membership'
  BY <1>1, RelayAssumption DEF create_room, taskVars
<1>2. ASSUME NEW c \in Conns, StepOf(c)
      PROVE  Membership'
  <2>1. CASE NoHello(c)
    BY <2>1 DEF NoHello
  <2>2. CASE \E v \in ClientVersions : HelloWrongVersion(c, v)
    BY <2>2 DEF HelloWrongVersion
  <2>3. CASE \E v \in ClientVersions, k \in Codes : HelloRoomFound(c, v, k)
    BY <2>3 DEF HelloRoomFound
  <2>4. CASE \E v \in ClientVersions, k \in Codes : HelloNoRoom(c, v, k)
    BY <2>4 DEF HelloNoRoom
  <2>5. CASE get_or_resurrect(c)
    BY <2>5 DEF get_or_resurrect
  <2>6. CASE mint_peer_id(c)
    BY <2>6 DEF mint_peer_id
  <2>7. CASE SendWelcome(c)
    BY <2>7 DEF SendWelcome
  <2>8. CASE Insert(c)
    BY <2>8 DEF Insert, HeldRooms, Holding
  <2>9. CASE AnnounceJoined(c)
    BY <2>9 DEF AnnounceJoined
  <2>10. CASE \E to \in 1 .. next_peer_id, b \in Bodies : ReceiveSignal(c, to, b)
    BY <2>10 DEF ReceiveSignal, CanReceive
  <2>11. CASE \E claimed \in 0 .. next_peer_id : ForwardSignal(c, claimed)
    BY <2>11 DEF ForwardSignal
  <2>12. CASE SocketClosed(c)
    BY <2>12 DEF SocketClosed
  <2>13. CASE RemovePeer(c)
    BY <2>13 DEF RemovePeer, HeldRooms, Holding
  <2>14. CASE AnnounceLeft(c)
    BY <2>14 DEF AnnounceLeft
  <2>15. CASE gc_if_empty(c)
    BY <2>15 DEF gc_if_empty
  <2>. QED
    BY <1>2, <2>1, <2>2, <2>3, <2>4, <2>5, <2>6, <2>7, <2>8,
       <2>9, <2>10, <2>11, <2>12, <2>13, <2>14, <2>15 DEF StepOf
<1>3. CASE UNCHANGED vars
  BY <1>3 DEF vars
<1>. QED  BY <1>1, <1>2, <1>3, NextCases

LEMMA IdsStep == Base /\ [Next]_vars => Ids'
<1>. SUFFICES ASSUME Base, [Next]_vars PROVE Ids'
  OBVIOUS
<1>. USE DEF Base, TypeOK, Ids, Named, Holding, PeerIds, registryVars, Goto, After
<1>1. ASSUME NEW k \in Codes, NEW r \in Rooms, create_room(k, r)
      PROVE  Ids'
  BY <1>1, RelayAssumption DEF create_room, taskVars
<1>2. ASSUME NEW c \in Conns, StepOf(c)
      PROVE  Ids'
  <2>1. CASE NoHello(c)
    BY <2>1 DEF NoHello
  <2>2. CASE \E v \in ClientVersions : HelloWrongVersion(c, v)
    BY <2>2 DEF HelloWrongVersion
  <2>3. CASE \E v \in ClientVersions, k \in Codes : HelloRoomFound(c, v, k)
    BY <2>3 DEF HelloRoomFound
  <2>4. CASE \E v \in ClientVersions, k \in Codes : HelloNoRoom(c, v, k)
    <3>1. PICK v \in ClientVersions, k \in Codes : HelloNoRoom(c, v, k)
      BY <2>4
    <3>2. pc' = [pc EXCEPT ![c] = "resurrect"] \/ pc' = [pc EXCEPT ![c] = "gone"]
      BY <3>1 DEF HelloNoRoom
    <3>3. /\ pc[c] = "hello"
          /\ UNCHANGED <<next_peer_id, peer_id>>
      BY <3>1 DEF HelloNoRoom
    <3>. QED  BY <3>2, <3>3
  <2>5. CASE get_or_resurrect(c)
    BY <2>5 DEF get_or_resurrect
  <2>6. CASE mint_peer_id(c)
    BY <2>6 DEF mint_peer_id
  <2>7. CASE SendWelcome(c)
    BY <2>7 DEF SendWelcome
  <2>8. CASE Insert(c)
    BY <2>8 DEF Insert
  <2>9. CASE AnnounceJoined(c)
    BY <2>9 DEF AnnounceJoined
  <2>10. CASE \E to \in 1 .. next_peer_id, b \in Bodies : ReceiveSignal(c, to, b)
    <3>1. PICK to \in 1 .. next_peer_id, b \in Bodies : ReceiveSignal(c, to, b)
      BY <2>10
    <3>2. pc' = pc \/ pc' = [pc EXCEPT ![c] = "forward"]
      BY <3>1 DEF ReceiveSignal
    <3>3. /\ pc[c] = "serving"
          /\ UNCHANGED <<next_peer_id, peer_id>>
      BY <3>1 DEF ReceiveSignal, CanReceive
    <3>. QED  BY <3>2, <3>3
  <2>11. CASE \E claimed \in 0 .. next_peer_id : ForwardSignal(c, claimed)
    BY <2>11 DEF ForwardSignal
  <2>12. CASE SocketClosed(c)
    BY <2>12 DEF SocketClosed
  <2>13. CASE RemovePeer(c)
    BY <2>13 DEF RemovePeer
  <2>14. CASE AnnounceLeft(c)
    BY <2>14 DEF AnnounceLeft
  <2>15. CASE gc_if_empty(c)
    BY <2>15 DEF gc_if_empty
  <2>. QED
    BY <1>2, <2>1, <2>2, <2>3, <2>4, <2>5, <2>6, <2>7, <2>8,
       <2>9, <2>10, <2>11, <2>12, <2>13, <2>14, <2>15 DEF StepOf
<1>3. CASE UNCHANGED vars
  BY <1>3 DEF vars
<1>. QED  BY <1>1, <1>2, <1>3, NextCases

LEMMA TargetsStep == Base /\ [Next]_vars => Targets'
<1>. SUFFICES ASSUME Base, [Next]_vars PROVE Targets'
  OBVIOUS
<1>. USE DEF Base, TypeOK, Targets, Read, Early, registryVars, Goto, After
<1>1. ASSUME NEW k \in Codes, NEW r \in Rooms, create_room(k, r)
      PROVE  Targets'
  BY <1>1, RelayAssumption DEF create_room, taskVars
<1>2. ASSUME NEW c \in Conns, StepOf(c)
      PROVE  Targets'
  <2>1. CASE NoHello(c)
    BY <2>1 DEF NoHello
  <2>2. CASE \E v \in ClientVersions : HelloWrongVersion(c, v)
    BY <2>2 DEF HelloWrongVersion
  <2>3. CASE \E v \in ClientVersions, k \in Codes : HelloRoomFound(c, v, k)
    BY <2>3 DEF HelloRoomFound, Ids, PeerIds
  <2>4. CASE \E v \in ClientVersions, k \in Codes : HelloNoRoom(c, v, k)
    BY <2>4 DEF HelloNoRoom
  <2>5. CASE get_or_resurrect(c)
    BY <2>5 DEF get_or_resurrect, Ids, PeerIds
  <2>6. CASE mint_peer_id(c)
    BY <2>6 DEF mint_peer_id
  <2>7. CASE SendWelcome(c)
    BY <2>7 DEF SendWelcome
  <2>8. CASE Insert(c)
    BY <2>8 DEF Insert
  <2>9. CASE AnnounceJoined(c)
    BY <2>9 DEF AnnounceJoined
  <2>10. CASE \E to \in 1 .. next_peer_id, b \in Bodies : ReceiveSignal(c, to, b)
    <3>1. PICK to \in 1 .. next_peer_id, b \in Bodies : ReceiveSignal(c, to, b)
      BY <2>10
    <3>2. room[c] \in Rooms
      BY <3>1 DEF ReceiveSignal, CanReceive, HeldRooms, Holding
    <3>3. \A d \in peer_tx(room[c], to) :
            d \in Conns /\ room[d] = room[c] /\ peer_id[d] = to /\ pc[d] \in Present
      BY <3>2 DEF peer_tx, Membership
    <3>4. /\ frames' = Append(frames, [by |-> c, body |-> b])
          /\ UNCHANGED <<room, peer_id>>
          /\ pc[c] = "serving"
      BY <3>1 DEF ReceiveSignal, CanReceive
    <3>5. \/ UNCHANGED <<pc, target>>
          \/ \E d \in peer_tx(room[c], to) :
               /\ target' = [target EXCEPT ![c] = [to |-> d, body |-> b]]
               /\ pc' = [pc EXCEPT ![c] = "forward"]
      BY <3>1 DEF ReceiveSignal
    <3>6. /\ \E n \in 1 .. Len(frames') : frames'[n] = [by |-> c, body |-> b]
          /\ \A g : (\E n \in 1 .. Len(frames) : frames[n] = g)
                   => \E n \in 1 .. Len(frames') : frames'[n] = g
      <4>1. [by |-> c, body |-> b] \in Frames
        BY DEF Frames
      <4>. QED  BY <3>4, <4>1, FramesGrow
    <3>7. CASE UNCHANGED <<pc, target>>
      BY SMTT(30), <3>4, <3>6, <3>7
    <3>8. ASSUME NEW d \in peer_tx(room[c], to),
                 target' = [target EXCEPT ![c] = [to |-> d, body |-> b]],
                 pc' = [pc EXCEPT ![c] = "forward"]
          PROVE  Targets'
      <4>1. /\ target'[c] = [to |-> d, body |-> b]
            /\ \A e \in Conns \ {c} : target'[e] = target[e] /\ pc'[e] = pc[e]
        BY <3>8
      <4>2. pc'[c] = "forward" /\ pc[d] \in Present /\ d \in Conns
        BY <3>3, <3>8
      <4>3. \A e \in Conns : pc[e] \notin Early => pc'[e] \notin Early
        BY <4>1, <4>2
      <4>4. room[d] = room[c] /\ peer_id[d] \in PeerIds /\ pc[d] \notin Early
        BY <3>3, <4>2 DEF PeerIds, Present
      <4>5. ASSUME NEW e \in Conns, pc'[e] = "forward"
            PROVE  /\ target'[e] \in [to : Conns, body : Bodies]
                   /\ room[target'[e].to] = room[e]
                   /\ peer_id[target'[e].to] \in PeerIds
                   /\ pc[target'[e].to] \notin Early
                   /\ \E n \in 1 .. Len(frames') :
                        frames'[n] = [by |-> e, body |-> target'[e].body]
        <5>1. CASE e = c
          <6>1. target'[c].to = d /\ target'[c].body = b
            BY <4>1
          <6>2. target'[c] \in [to : Conns, body : Bodies]
            BY <4>1, <4>2
          <6>. QED  BY <3>6, <4>4, <5>1, <6>1, <6>2
        <5>2. CASE e # c
          <6>1. target'[e] = target[e] /\ pc[e] = "forward"
            BY <4>1, <4>5, <5>2
          <6>2. /\ target[e] \in [to : Conns, body : Bodies]
                /\ room[target[e].to] = room[e]
                /\ peer_id[target[e].to] \in PeerIds
                /\ pc[target[e].to] \notin Early
                /\ \E n \in 1 .. Len(frames) :
                     frames[n] = [by |-> e, body |-> target[e].body]
            BY <6>1
          <6>3. \E n \in 1 .. Len(frames') :
                  frames'[n] = [by |-> e, body |-> target[e].body]
            BY <3>6, <6>2
          <6>. QED  BY <6>1, <6>2, <6>3
        <5>. QED  BY <5>1, <5>2
      <4>. QED  BY <3>4, <4>3, <4>5
    <3>. QED  BY <3>5, <3>7, <3>8
  <2>11. CASE \E claimed \in 0 .. next_peer_id : ForwardSignal(c, claimed)
    BY SMTT(30), <2>11 DEF ForwardSignal
  <2>12. CASE SocketClosed(c)
    BY <2>12 DEF SocketClosed
  <2>13. CASE RemovePeer(c)
    BY <2>13 DEF RemovePeer
  <2>14. CASE AnnounceLeft(c)
    BY <2>14 DEF AnnounceLeft
  <2>15. CASE gc_if_empty(c)
    BY <2>15 DEF gc_if_empty
  <2>. QED
    BY <1>2, <2>1, <2>2, <2>3, <2>4, <2>5, <2>6, <2>7, <2>8,
       <2>9, <2>10, <2>11, <2>12, <2>13, <2>14, <2>15 DEF StepOf
<1>3. CASE UNCHANGED vars
  BY <1>3 DEF vars
<1>. QED  BY <1>1, <1>2, <1>3, NextCases

THEOREM BaseInvariant == Spec => []Base
<1>1. Base /\ [Next]_vars => Base'
  BY TypeStep, HeldRoomsStep, MembershipStep, IdsStep, TargetsStep DEF Base
<1>. QED  BY InitBase, <1>1, PTL DEF Spec

(* Every variable of the relay keeps its type. *)
THEOREM TypeCorrect == Spec => []TypeOK
<1>1. Base => TypeOK
  BY DEF Base
<1>. QED  BY BaseInvariant, <1>1, PTL

----------------------------------------------------------------------------
(* No room leaks.                                                           *)

(* A step of a task that is not cleaning up, and does not start to. *)
Quiet(c) ==
  /\ UNCHANGED <<registry, peers>>
  /\ \A d \in Conns \ {c} : pc'[d] = pc[d] /\ room'[d] = room[d]
  /\ pc[c] \notin {"left", "gc"}
  /\ pc'[c] \in {"left", "gc", "gone"} => room'[c] = NoRoom

LEMMA QuietSteps ==
  ASSUME Base, NEW c \in Conns, StepOf(c)
  PROVE  \/ Quiet(c)
         \/ get_or_resurrect(c) \/ Insert(c)
         \/ RemovePeer(c) \/ AnnounceLeft(c) \/ gc_if_empty(c)
<1>. USE DEF Base, TypeOK, Quiet, registryVars, Goto, After
<1>1. CASE NoHello(c)
  BY <1>1 DEF NoHello, HeldRooms
<1>2. CASE \E v \in ClientVersions : HelloWrongVersion(c, v)
  BY <1>2 DEF HelloWrongVersion, HeldRooms
<1>3. CASE \E v \in ClientVersions, k \in Codes : HelloRoomFound(c, v, k)
  BY <1>3 DEF HelloRoomFound
<1>4. CASE \E v \in ClientVersions, k \in Codes : HelloNoRoom(c, v, k)
  BY <1>4 DEF HelloNoRoom, HeldRooms
<1>5. CASE mint_peer_id(c)
  BY <1>5 DEF mint_peer_id
<1>6. CASE SendWelcome(c)
  BY <1>6 DEF SendWelcome
<1>7. CASE AnnounceJoined(c)
  BY <1>7 DEF AnnounceJoined
<1>8. CASE \E to \in 1 .. next_peer_id, b \in Bodies : ReceiveSignal(c, to, b)
  BY <1>8 DEF ReceiveSignal, CanReceive
<1>9. CASE \E claimed \in 0 .. next_peer_id : ForwardSignal(c, claimed)
  BY <1>9 DEF ForwardSignal
<1>10. CASE SocketClosed(c)
  BY <1>10 DEF SocketClosed
<1>. QED
  BY <1>1, <1>2, <1>3, <1>4, <1>5, <1>6, <1>7, <1>8, <1>9, <1>10 DEF StepOf

LEMMA LeakStep == Base /\ NoLeakedRoom /\ [Next]_vars => NoLeakedRoom'
<1>. SUFFICES ASSUME Base, NoLeakedRoom, [Next]_vars,
                     NEW k \in Codes, NEW r,
                     registry'[k] = r, r # NoRoom, peers'[r] = {}, WasJoined(r)'
              PROVE  AwaitsGc(r)'
  BY DEF NoLeakedRoom
<1>. USE DEF WasJoined, AwaitsGc
<1>1. ASSUME NEW k0 \in Codes, NEW r0 \in Rooms, create_room(k0, r0)
      PROVE  AwaitsGc(r)'
  <2>1. \A c \in Conns : room[c] # r0
    BY <1>1, RelayAssumption DEF create_room, Unborn, Base, HeldRooms
  <2>2. UNCHANGED <<room, pc, peers>>
    BY <1>1 DEF create_room, taskVars
  <2>3. r # r0
    BY <2>1, <2>2
  <2>4. registry[k] = r
    BY <1>1, <2>3 DEF create_room, Base, TypeOK
  <2>. QED  BY <2>2, <2>4 DEF NoLeakedRoom
<1>2. ASSUME NEW c \in Conns, StepOf(c)
      PROVE  AwaitsGc(r)'
  <2>. USE DEF Base, TypeOK, Goto, After
  <2>1. CASE Quiet(c)
    <3>1. registry[k] = r /\ peers[r] = {} /\ WasJoined(r)
      BY <2>1 DEF Quiet
    <3>2. PICK d \in Conns : room[d] = r /\ pc[d] \in {"left", "gc"}
      BY <3>1 DEF NoLeakedRoom
    <3>. QED  BY <2>1, <3>2 DEF Quiet
  <2>2. CASE get_or_resurrect(c)
    <3>1. /\ pc' = [pc EXCEPT ![c] = "mint"] /\ pc[c] = "resurrect"
          /\ \A d \in Conns \ {c} : room'[d] = room[d]
          /\ peers' = peers
      BY <2>2 DEF get_or_resurrect
    <3>2. registry[k] = r
      <4>1. CASE registry' = registry
        BY <4>1
      <4>2. ASSUME NEW q \in Unborn, registry' = [registry EXCEPT ![asked[c]] = q]
            PROVE  registry[k] = r
        <5>0. q \in Rooms /\ code[q] = NoCode
          BY <4>2 DEF Unborn
        <5>1. \A d \in Conns : room[d] # q
          BY ZenonT(40), <5>0, RelayAssumption DEF HeldRooms
        <5>. QED  BY <3>1, <4>2, <5>1
      <4>. QED  BY <2>2, <4>1, <4>2 DEF get_or_resurrect
    <3>3. WasJoined(r)
      BY <3>1
    <3>4. PICK d \in Conns : room[d] = r /\ pc[d] \in {"left", "gc"}
      BY ZenonT(40), <3>1, <3>2, <3>3 DEF NoLeakedRoom
    <3>. QED  BY <3>1, <3>4
  <2>3. CASE Insert(c)
    <3>1. /\ pc' = [pc EXCEPT ![c] = "announce"] /\ pc[c] = "insert"
          /\ UNCHANGED <<registry, room>>
          /\ peers[r] = {}
      BY <2>3 DEF Insert
    <3>2. PICK d \in Conns : room[d] = r /\ pc[d] \in {"left", "gc"}
      BY ZenonT(40), <3>1 DEF NoLeakedRoom
    <3>. QED  BY <3>1, <3>2
  <2>4. CASE RemovePeer(c)
    <3>1. /\ pc' = [pc EXCEPT ![c] = "left"] /\ pc[c] = "remove"
          /\ UNCHANGED <<registry, room>>
          /\ peers' = [peers EXCEPT ![room[c]] = @ \ {c}]
      BY <2>4 DEF RemovePeer
    <3>2. CASE room[c] = r
      BY <3>1, <3>2
    <3>3. CASE room[c] # r
      <4>1. peers[r] = {} /\ WasJoined(r)
        BY <3>1, <3>3
      <4>2. PICK d \in Conns : room[d] = r /\ pc[d] \in {"left", "gc"}
        BY <3>1, <4>1 DEF NoLeakedRoom
      <4>. QED  BY <3>1, <4>2
    <3>. QED  BY <3>2, <3>3
  <2>5. CASE AnnounceLeft(c)
    <3>1. /\ pc' = [pc EXCEPT ![c] = "gc"] /\ pc[c] = "left"
          /\ UNCHANGED <<registry, room, peers>>
      BY <2>5 DEF AnnounceLeft, registryVars
    <3>2. PICK d \in Conns : room[d] = r /\ pc[d] \in {"left", "gc"}
      BY ZenonT(40), <3>1 DEF NoLeakedRoom
    <3>. QED  BY <3>1, <3>2
  <2>6. CASE gc_if_empty(c)
    <3>1. /\ pc' = [pc EXCEPT ![c] = "gone"] /\ pc[c] = "gc"
          /\ UNCHANGED <<room, peers, code>>
      BY <2>6 DEF gc_if_empty
    <3>2. registry[k] = r
      BY <2>6 DEF gc_if_empty
    <3>3. PICK d \in Conns : room[d] = r /\ pc[d] \in {"left", "gc"}
      BY ZenonT(40), <3>1, <3>2 DEF NoLeakedRoom
    <3>4. d # c
      (* The room is empty, so its last collector would have removed it. *)
      <4>1. SUFFICES ASSUME d = c PROVE FALSE
        OBVIOUS
      <4>2. code[room[c]] = k
        BY <3>2, <3>3, <4>1 DEF HeldRooms
      <4>3. Collectable(k)
        BY <3>1, <3>2 DEF Collectable
      <4>4. registry' = [registry EXCEPT ![k] = NoRoom]
        BY <2>6, <4>2, <4>3 DEF gc_if_empty
      <4>. QED  BY <4>4
    <3>. QED  BY <3>1, <3>3, <3>4
  <2>. QED
    BY <1>2, <2>1, <2>2, <2>3, <2>4, <2>5, <2>6, QuietSteps DEF Base
<1>3. CASE UNCHANGED vars
  BY <1>3 DEF vars, NoLeakedRoom
<1>. QED  BY <1>1, <1>2, <1>3, NextCases

(* A room everyone has left is out of the registry, or some task that was *)
(* in it has still to run gc_if_empty.                                    *)
THEOREM RoomsNeverLeak == Spec => []NoLeakedRoom
<1>1. Init => NoLeakedRoom
  BY DEF Init, NoLeakedRoom
<1>. QED  BY <1>1, LeakStep, BaseInvariant, PTL DEF Spec

----------------------------------------------------------------------------
(* What a task puts on a channel speaks for the task itself.                *)

SaidBy(c, d, m) ==
  /\ m.type = "welcome" => d = c /\ pc[c] = "welcome"
  /\ m.type # "welcome" => pc[d] \notin Early \/ (room[d] = NoRoom /\ pc'[d] = "gone")
  /\ m.type = "peer_joined" => m.peer = peer_id[c] /\ pc[c] = "announce"
  /\ m.type = "peer_left" => m.peer = peer_id[c] /\ pc[c] = "left" /\ pc'[c] = "gc"
  /\ m.type = "signal" =>
       /\ m.from = peer_id[c] /\ m.body = target[c].body
       /\ pc[c] = "forward" /\ room[d] = room[c]

OneMessage(c) ==
  \A d \in Conns :
    \/ outbox'[d] = outbox[d]
    \/ \E m \in Messages : outbox'[d] = Append(outbox[d], m) /\ SaidBy(c, d, m)

LEMMA StepSends ==
  ASSUME Base, NEW c \in Conns, StepOf(c)
  PROVE  OneMessage(c)
<1>. USE DEF OneMessage, SaidBy
<1>1. CASE \E v \in ClientVersions : HelloWrongVersion(c, v)
  <2>1. /\ Send(c, Error("version_mismatch"))
        /\ room[c] = NoRoom /\ pc'[c] = "gone"
    BY <1>1 DEF HelloWrongVersion, Base, HeldRooms, Goto, TypeOK
  <2>2. Error("version_mismatch").type = "error"
    BY DEF Error
  <2>. QED  BY <2>1, <2>2, SendFacts, MessageTypes DEF Base
<1>2. CASE \E v \in ClientVersions, k \in Codes : HelloNoRoom(c, v, k)
  <2>1. CASE outbox' = outbox
    BY <2>1
  <2>2. CASE outbox' # outbox
    <3>1. /\ Send(c, Error("room_not_found"))
          /\ room[c] = NoRoom /\ pc'[c] = "gone"
      BY <1>2, <2>2 DEF HelloNoRoom, Base, HeldRooms, Goto, TypeOK
    <3>2. Error("room_not_found").type = "error"
      BY DEF Error
    <3>. QED  BY <3>1, <3>2, SendFacts, MessageTypes DEF Base
  <2>. QED  BY <2>1, <2>2
<1>3. CASE SendWelcome(c)
  <2>1. pc[c] = "welcome"
    BY <1>3 DEF SendWelcome
  <2>2. Welcome(peer_id[c], snapshot(room[c])) \in Messages
    BY <2>1, NamedFacts, MessageTypes DEF Named, Holding
  <2>3. Welcome(peer_id[c], snapshot(room[c])).type = "welcome"
    BY DEF Welcome
  <2>. QED  BY <1>3, <2>1, <2>2, <2>3, SendFacts DEF SendWelcome, Base
<1>4. CASE AnnounceJoined(c)
  <2>1. pc[c] = "announce"
    BY <1>4 DEF AnnounceJoined
  <2>2. PeerJoined(peer_id[c]) \in Messages /\ room[c] \in Rooms
    BY <2>1, NamedFacts, MessageTypes DEF Named, Holding
  <2>3. /\ PeerJoined(peer_id[c]).type = "peer_joined"
        /\ PeerJoined(peer_id[c]).peer = peer_id[c]
    BY DEF PeerJoined
  <2>4. \A d \in Conns : d \in peers[room[c]] => pc[d] \notin Early
    BY <2>2 DEF Base, Membership, Present, Early
  <2>. QED  BY <1>4, <2>1, <2>2, <2>3, <2>4, BroadcastFacts DEF AnnounceJoined, Base
<1>5. CASE AnnounceLeft(c)
  <2>1. pc[c] = "left" /\ pc'[c] = "gc"
    BY <1>5 DEF AnnounceLeft, Goto, After, Base, TypeOK
  <2>2. PeerLeft(peer_id[c]) \in Messages /\ room[c] \in Rooms
    BY <2>1, NamedFacts, MessageTypes DEF Named, Holding
  <2>3. /\ PeerLeft(peer_id[c]).type = "peer_left"
        /\ PeerLeft(peer_id[c]).peer = peer_id[c]
    BY DEF PeerLeft
  <2>4. \A d \in Conns : d \in peers[room[c]] => pc[d] \notin Early
    BY <2>2 DEF Base, Membership, Present, Early
  <2>. QED  BY <1>5, <2>1, <2>2, <2>3, <2>4, BroadcastFacts DEF AnnounceLeft, Base
<1>6. CASE \E claimed \in 0 .. next_peer_id : ForwardSignal(c, claimed)
  <2>1. PICK claimed : ForwardSignal(c, claimed)
    BY <1>6
  <2>. DEFINE t == target[c].to
              m == Signal(peer_id[c], peer_id[t], target[c].body)
  <2>2. /\ t \in Conns /\ target[c].body \in Bodies /\ pc[t] \notin Early
        /\ room[t] = room[c]
        /\ peer_id[t] \in PeerIds
        /\ peer_id[c] \in Nat
        /\ pc[c] = "forward"
    BY <2>1 DEF ForwardSignal, Base, Targets, TypeOK
  <2>3. m \in Messages /\ m.type = "signal" /\ m.from = peer_id[c]
        /\ m.body = target[c].body
    BY <2>2, MessageTypes DEF Signal
  <2>4. Send(t, m)
    BY <2>1 DEF ForwardSignal, StampedFrom
  <2>. HIDE DEF m, t
  <2>. QED  BY <2>2, <2>3, <2>4, SendFacts DEF Base
<1>7. CASE UNCHANGED outbox
  BY <1>7
<1>. QED
  BY <1>1, <1>2, <1>3, <1>4, <1>5, <1>6, <1>7
  DEF StepOf, NoHello, HelloRoomFound, get_or_resurrect, mint_peer_id, Insert,
      ReceiveSignal, SocketClosed, RemovePeer, gc_if_empty

(* An id, a room and having left are for good. *)
Lasting ==
  \A d \in Conns :
    /\ peer_id[d] # 0 => peer_id'[d] = peer_id[d]
    /\ room[d] # NoRoom => room'[d] = room[d]
    /\ pc[d] \in {"gc", "gone"} => pc'[d] \in {"gc", "gone"}
    /\ \A f : Read(f) => Read(f)'

LEMMA StepKeeps ==
  ASSUME Base, NEW c \in Conns, StepOf(c)
  PROVE  Lasting
<1>. USE DEF Base, TypeOK, Lasting, Read, registryVars, Goto, After
<1>1. CASE NoHello(c)
  BY <1>1 DEF NoHello
<1>2. CASE \E v \in ClientVersions : HelloWrongVersion(c, v)
  BY <1>2 DEF HelloWrongVersion
<1>3. CASE \E v \in ClientVersions, k \in Codes : HelloRoomFound(c, v, k)
  BY <1>3 DEF HelloRoomFound, HeldRooms
<1>4. CASE \E v \in ClientVersions, k \in Codes : HelloNoRoom(c, v, k)
  BY <1>4 DEF HelloNoRoom
<1>5. CASE get_or_resurrect(c)
  BY <1>5 DEF get_or_resurrect, HeldRooms
<1>6. CASE mint_peer_id(c)
  BY <1>6 DEF mint_peer_id, Ids
<1>7. CASE SendWelcome(c)
  BY <1>7 DEF SendWelcome
<1>8. CASE Insert(c)
  BY <1>8 DEF Insert
<1>9. CASE AnnounceJoined(c)
  BY <1>9 DEF AnnounceJoined
<1>10. CASE \E to \in 1 .. next_peer_id, b \in Bodies : ReceiveSignal(c, to, b)
  <2>0. PICK b \in Bodies : \E to \in 1 .. next_peer_id : ReceiveSignal(c, to, b)
    BY <1>10
  <2>1. /\ UNCHANGED <<peer_id, room>> /\ frames' = Append(frames, [by |-> c, body |-> b])
        /\ pc[c] = "serving"
        /\ pc' = pc \/ pc' = [pc EXCEPT ![c] = "forward"]
    BY <2>0 DEF ReceiveSignal, CanReceive
  <2>2. \A f : Read(f) => Read(f)'
    <3>1. [by |-> c, body |-> b] \in Frames
      BY DEF Frames
    <3>. QED  BY <2>1, <3>1, FramesGrow
  <2>. QED  BY <2>1, <2>2
<1>11. CASE \E claimed \in 0 .. next_peer_id : ForwardSignal(c, claimed)
  BY <1>11 DEF ForwardSignal
<1>12. CASE SocketClosed(c)
  BY <1>12 DEF SocketClosed
<1>13. CASE RemovePeer(c)
  BY <1>13 DEF RemovePeer
<1>14. CASE AnnounceLeft(c)
  BY <1>14 DEF AnnounceLeft
<1>15. CASE gc_if_empty(c)
  BY <1>15 DEF gc_if_empty
<1>. QED
  BY <1>1, <1>2, <1>3, <1>4, <1>5, <1>6, <1>7, <1>8, <1>9, <1>10, <1>11, <1>12,
     <1>13, <1>14, <1>15 DEF StepOf

----------------------------------------------------------------------------
(* Welcome comes first.                                                     *)

(* Nothing is sent before the Welcome, and whoever is past it has got it. *)
Opened ==
  \A c \in Conns :
    /\ pc[c] \in Early => outbox[c] = <<>>
    /\ pc[c] \notin Early /\ room[c] # NoRoom => outbox[c] # <<>>

LEMMA OpenedStep == Base /\ Opened /\ [Next]_vars => Opened'
<1>. SUFFICES ASSUME Base, Opened, [Next]_vars PROVE Opened'
  OBVIOUS
<1>1. ASSUME NEW k \in Codes, NEW r \in Rooms, create_room(k, r)
      PROVE  Opened'
  BY <1>1 DEF create_room, taskVars, Opened
<1>2. ASSUME NEW c \in Conns, StepOf(c)
      PROVE  Opened'
  <2>1. OneMessage(c)
    BY <1>2, StepSends
  <2>2. ASSUME NEW d \in Conns, NEW m \in Messages
        PROVE  Append(outbox[d], m) # <<>>
    <3>1. outbox[d] \in Seq(Messages) /\ Len(outbox[d]) \in Nat
      BY DEF Base, TypeOK
    <3>2. Len(Append(outbox[d], m)) = Len(outbox[d]) + 1
      BY <3>1, AppendFacts
    <3>. QED  BY <3>1, <3>2
  <2>3. ASSUME NEW d \in Conns, d # c PROVE pc'[d] = pc[d] /\ room'[d] = room[d]
    BY <1>2, <2>3 DEF StepOf, NoHello, HelloWrongVersion, HelloRoomFound, HelloNoRoom,
       get_or_resurrect, mint_peer_id, SendWelcome, Insert, AnnounceJoined,
       ReceiveSignal, ForwardSignal, SocketClosed, RemovePeer, AnnounceLeft,
       gc_if_empty, Goto, Base, TypeOK
  <2>4. CASE SendWelcome(c)
    <3>1. outbox'[c] = Append(outbox[c], Welcome(peer_id[c], snapshot(room[c])))
      BY <2>4 DEF SendWelcome, Send, Base, TypeOK
    <3>2. outbox'[c] # <<>> /\ pc'[c] = "insert"
      <4>1. Welcome(peer_id[c], snapshot(room[c])) \in Messages
        BY <2>4, NamedFacts, MessageTypes DEF SendWelcome, Named, Holding
      <4>. QED  BY <2>2, <2>4, <3>1, <4>1 DEF SendWelcome, Goto, After, Base, TypeOK
    <3>3. \A d \in Conns \ {c} : outbox'[d] = outbox[d]
      BY <2>4 DEF SendWelcome, Send, Base, TypeOK
    <3>. QED  BY <2>3, <3>2, <3>3 DEF Opened, Early
  <2>5. CASE ~ SendWelcome(c)
    <3>1. \/ pc[c] \notin Early /\ pc'[c] \notin Early /\ room'[c] = room[c]
          \/ pc[c] \in Early /\ pc'[c] \in Early
          \/ pc[c] \in Early /\ pc'[c] = "gone" /\ room'[c] = NoRoom
      BY <1>2, <2>5 DEF StepOf, NoHello, HelloWrongVersion, HelloRoomFound, HelloNoRoom,
         get_or_resurrect, mint_peer_id, Insert, AnnounceJoined,
         ReceiveSignal, ForwardSignal, SocketClosed, RemovePeer, AnnounceLeft,
         gc_if_empty, CanReceive, Goto, After, Early, Base, TypeOK, HeldRooms
    <3>2. ASSUME NEW d \in Conns, pc'[d] \in Early
          PROVE  outbox'[d] = <<>>
      <4>1. pc[d] \in Early
        BY <2>3, <3>1, <3>2 DEF Early
      <4>2. \A m \in Messages : SaidBy(c, d, m) => FALSE
        BY <2>3, <2>5, <3>1, <3>2, <4>1, <1>2
           DEF SaidBy, Early, StepOf, NoHello, HelloWrongVersion, HelloRoomFound,
               HelloNoRoom, get_or_resurrect, mint_peer_id, Insert, AnnounceJoined,
               ReceiveSignal, ForwardSignal, SocketClosed, RemovePeer, AnnounceLeft,
               gc_if_empty, CanReceive
      <4>. QED  BY <2>1, <4>1, <4>2 DEF OneMessage, Opened
    <3>3. ASSUME NEW d \in Conns, pc'[d] \notin Early, room'[d] # NoRoom
          PROVE  outbox'[d] # <<>>
      <4>1. pc[d] \notin Early /\ room[d] # NoRoom
        BY <2>3, <3>1, <3>3 DEF Early
      <4>. QED  BY <2>1, <2>2, <4>1 DEF OneMessage, Opened
    <3>. QED  BY <3>2, <3>3 DEF Opened
  <2>. QED  BY <2>4, <2>5
<1>3. CASE UNCHANGED vars
  BY <1>3 DEF vars, Opened
<1>. QED  BY <1>1, <1>2, <1>3, NextCases

----------------------------------------------------------------------------
(* Leaving is final.                                                        *)

(* A PeerLeft on any channel is about a connection whose task is over. *)
LeftMeansGone ==
  \A c \in Conns : \A i \in 1 .. Len(outbox[c]) :
    outbox[c][i].type = "peer_left" =>
      \E d \in Conns : peer_id[d] = outbox[c][i].peer /\ pc[d] \in {"gc", "gone"}

(* The messages on a channel after a step: the old ones, then the new one. *)
LEMMA OldOrNew ==
  ASSUME Base, NEW c \in Conns, OneMessage(c), NEW d \in Conns,
         NEW i \in 1 .. Len(outbox'[d])
  PROVE  \/ i \in 1 .. Len(outbox[d]) /\ outbox'[d][i] = outbox[d][i]
         \/ /\ i = Len(outbox[d]) + 1
            /\ outbox'[d][i] \in Messages
            /\ SaidBy(c, d, outbox'[d][i])
<1>1. outbox[d] \in Seq(Messages) /\ Len(outbox[d]) \in Nat
  BY DEF Base, TypeOK
<1>2. CASE outbox'[d] = outbox[d]
  BY <1>2
<1>3. CASE \E m \in Messages : outbox'[d] = Append(outbox[d], m) /\ SaidBy(c, d, m)
  <2>1. PICK m \in Messages : outbox'[d] = Append(outbox[d], m) /\ SaidBy(c, d, m)
    BY <1>3
  <2>2. CASE i \in 1 .. Len(outbox[d])
    BY <1>1, <2>1, <2>2, AppendFacts
  <2>3. CASE i = Len(outbox[d]) + 1
    BY <1>1, <2>1, <2>3, AppendFacts
  <2>. QED  BY <1>1, <2>1, <2>2, <2>3, AppendFacts
<1>. QED  BY <1>2, <1>3 DEF OneMessage

LEMMA LeftMeansGoneStep == Base /\ LeftMeansGone /\ [Next]_vars => LeftMeansGone'
<1>. SUFFICES ASSUME Base, LeftMeansGone, [Next]_vars PROVE LeftMeansGone'
  OBVIOUS
<1>1. ASSUME NEW k \in Codes, NEW r \in Rooms, create_room(k, r)
      PROVE  LeftMeansGone'
  BY <1>1 DEF create_room, taskVars, LeftMeansGone
<1>2. ASSUME NEW c \in Conns, StepOf(c)
      PROVE  LeftMeansGone'
  <2>1. OneMessage(c) /\ Lasting
    BY <1>2, StepSends, StepKeeps
  <2>2. SUFFICES ASSUME NEW d \in Conns, NEW i \in 1 .. Len(outbox'[d]),
                        outbox'[d][i].type = "peer_left"
                 PROVE  \E e \in Conns :
                          peer_id'[e] = outbox'[d][i].peer /\ pc'[e] \in {"gc", "gone"}
    BY DEF LeftMeansGone
  <2>3. CASE i \in 1 .. Len(outbox[d]) /\ outbox'[d][i] = outbox[d][i]
    <3>1. PICK e \in Conns : peer_id[e] = outbox[d][i].peer /\ pc[e] \in {"gc", "gone"}
      BY <2>2, <2>3 DEF LeftMeansGone
    <3>2. outbox[d][i] \in Messages
      BY <2>3 DEF Base, TypeOK
    <3>3. peer_id[e] # 0
      BY <2>2, <2>3, <3>1, <3>2 DEF Messages, PeerIds
    <3>. QED  BY <2>1, <2>3, <3>1, <3>3 DEF Lasting
  <2>4. CASE SaidBy(c, d, outbox'[d][i])
    <3>1. outbox'[d][i].peer = peer_id[c] /\ pc[c] = "left" /\ pc'[c] = "gc"
      BY <2>2, <2>4 DEF SaidBy
    <3>2. peer_id'[c] = peer_id[c]
      BY <2>1, <3>1 DEF Lasting, Base, Ids, Named, Holding, PeerIds
    <3>. QED  BY <3>1, <3>2
  <2>. QED  BY <2>1, <2>3, <2>4, OldOrNew
<1>3. CASE UNCHANGED vars
  BY <1>3 DEF vars, LeftMeansGone
<1>. QED  BY <1>1, <1>2, <1>3, NextCases

LEMMA SilentStep ==
  Base /\ LeftMeansGone /\ SilentAfterLeft /\ [Next]_vars => SilentAfterLeft'
<1>. SUFFICES ASSUME Base, LeftMeansGone, SilentAfterLeft, [Next]_vars
              PROVE  SilentAfterLeft'
  OBVIOUS
<1>1. ASSUME NEW k \in Codes, NEW r \in Rooms, create_room(k, r)
      PROVE  SilentAfterLeft'
  BY <1>1 DEF create_room, taskVars, SilentAfterLeft
<1>2. ASSUME NEW c \in Conns, StepOf(c)
      PROVE  SilentAfterLeft'
  <2>1. OneMessage(c)
    BY <1>2, StepSends
  <2>2. SUFFICES ASSUME NEW d \in Conns,
                        NEW i \in 1 .. Len(outbox'[d]), NEW j \in 1 .. Len(outbox'[d]),
                        i < j, outbox'[d][i].type = "peer_left"
                 PROVE  /\ outbox'[d][j].type = "signal"
                             => outbox'[d][j].from # outbox'[d][i].peer
                        /\ outbox'[d][j].type \in {"peer_joined", "peer_left"}
                             => outbox'[d][j].peer # outbox'[d][i].peer
    BY DEF SilentAfterLeft
  <2>3. Len(outbox[d]) \in Nat
    BY DEF Base, TypeOK
  <2>4. CASE j \in 1 .. Len(outbox[d]) /\ outbox'[d][j] = outbox[d][j]
    <3>1. i \in 1 .. Len(outbox[d]) /\ outbox'[d][i] = outbox[d][i]
      BY <2>1, <2>2, <2>3, <2>4, OldOrNew
    <3>. QED  BY <2>2, <2>4, <3>1 DEF SilentAfterLeft
  <2>5. CASE j = Len(outbox[d]) + 1 /\ SaidBy(c, d, outbox'[d][j])
    <3>1. i \in 1 .. Len(outbox[d]) /\ outbox'[d][i] = outbox[d][i]
      BY <2>1, <2>2, <2>3, <2>5, OldOrNew
    <3>2. PICK e \in Conns : peer_id[e] = outbox[d][i].peer /\ pc[e] \in {"gc", "gone"}
      BY <2>2, <3>1 DEF LeftMeansGone
    <3>3. pc[c] \in Named /\ pc[c] \notin {"gc", "gone"} => peer_id[c] # peer_id[e]
      BY <3>2 DEF Base, Ids, PeerIds
    <3>. QED  BY <2>5, <3>1, <3>2, <3>3 DEF SaidBy, Named, Holding
  <2>. QED  BY <2>1, <2>4, <2>5, OldOrNew
<1>3. CASE UNCHANGED vars
  BY <1>3 DEF vars, SilentAfterLeft
<1>. QED  BY <1>1, <1>2, <1>3, NextCases

LEMMA LeftMeansGoneInvariant == Spec => []LeftMeansGone
<1>1. Init => LeftMeansGone
  BY DEF Init, LeftMeansGone
<1>. QED  BY <1>1, LeftMeansGoneStep, BaseInvariant, PTL DEF Spec

(* Once a client has been told that a peer left, nothing about or from that *)
(* peer reaches it any more.                                                *)
THEOREM LeftIsFinal == Spec => []SilentAfterLeft
<1>1. Init => SilentAfterLeft
  BY DEF Init, SilentAfterLeft
<1>. QED  BY <1>1, SilentStep, BaseInvariant, LeftMeansGoneInvariant, PTL DEF Spec

----------------------------------------------------------------------------
(* What the proofs of the remaining invariants share.                       *)

(* A channel only grows. *)
LEMMA OutboxGrows ==
  ASSUME Base, NEW c \in Conns, OneMessage(c), NEW d \in Conns,
         NEW i \in 1 .. Len(outbox[d])
  PROVE  i \in 1 .. Len(outbox'[d]) /\ outbox'[d][i] = outbox[d][i]
<1>1. outbox[d] \in Seq(Messages) /\ Len(outbox[d]) \in Nat
  BY DEF Base, TypeOK
<1>2. CASE outbox'[d] = outbox[d]
  BY <1>2
<1>3. CASE \E m \in Messages : outbox'[d] = Append(outbox[d], m)
  BY <1>1, <1>3, AppendFacts
<1>. QED  BY <1>2, <1>3 DEF OneMessage

(* A room is chosen once, before anything is sent. *)
LEMMA RoomChosen ==
  ASSUME Base, NEW c \in Conns, StepOf(c), NEW d \in Conns, room'[d] # room[d]
  PROVE  pc[d] \in {"hello", "resurrect"} /\ pc'[d] = "mint"
  BY DEF StepOf, NoHello, HelloWrongVersion, HelloRoomFound, HelloNoRoom,
     get_or_resurrect, mint_peer_id, SendWelcome, Insert, AnnounceJoined,
     ReceiveSignal, ForwardSignal, SocketClosed, RemovePeer, AnnounceLeft,
     gc_if_empty, Goto, Base, TypeOK

LEMMA OpenedInvariant == Spec => []Opened
<1>1. Init => Opened
  BY DEF Init, Opened, Early
<1>. QED  BY <1>1, OpenedStep, BaseInvariant, PTL DEF Spec

----------------------------------------------------------------------------
(* Welcome first.                                                           *)

LEMMA WelcomeStep ==
  Base /\ Opened /\ WelcomeFirst /\ [Next]_vars => WelcomeFirst'
<1>. SUFFICES ASSUME Base, Opened, WelcomeFirst, [Next]_vars PROVE WelcomeFirst'
  OBVIOUS
<1>1. ASSUME NEW k \in Codes, NEW r \in Rooms, create_room(k, r)
      PROVE  WelcomeFirst'
  BY <1>1 DEF create_room, taskVars, WelcomeFirst
<1>2. ASSUME NEW c \in Conns, StepOf(c)
      PROVE  WelcomeFirst'
  <2>1. OneMessage(c) /\ Lasting
    BY <1>2, StepSends, StepKeeps
  <2>2. SUFFICES ASSUME NEW d \in Conns, NEW i \in 1 .. Len(outbox'[d])
                 PROVE  outbox'[d][i].type = "welcome" <=> i = 1 /\ room'[d] # NoRoom
    BY DEF WelcomeFirst
  <2>3. Len(outbox[d]) \in Nat /\ outbox[d] \in Seq(Messages)
    BY DEF Base, TypeOK
  <2>4. CASE i \in 1 .. Len(outbox[d]) /\ outbox'[d][i] = outbox[d][i]
    <3>1. outbox[d] # <<>>
      BY <2>3, <2>4
    <3>2. room'[d] = room[d]
      BY <1>2, <3>1, RoomChosen DEF Opened, Early
    <3>. QED  BY <2>4, <3>2 DEF WelcomeFirst
  <2>5. CASE i = Len(outbox[d]) + 1 /\ SaidBy(c, d, outbox'[d][i])
    <3>1. CASE outbox'[d][i].type = "welcome"
      <4>1. d = c /\ pc[c] = "welcome"
        BY <2>5, <3>1 DEF SaidBy
      <4>2. outbox[d] = <<>> /\ room[d] \in Rooms
        BY <4>1 DEF Opened, Early, Base, HeldRooms, Holding
      <4>3. room'[d] # NoRoom
        BY <2>1, <4>2, RelayAssumption DEF Lasting
      <4>. QED  BY <2>5, <3>1, <4>2, <4>3
    <3>2. CASE outbox'[d][i].type # "welcome"
      <4>1. pc[d] \notin Early \/ (room[d] = NoRoom /\ pc'[d] = "gone")
        BY <2>5, <3>2 DEF SaidBy
      <4>2. room'[d] = room[d]
        BY <1>2, <4>1, RoomChosen DEF Early
      <4>3. room[d] # NoRoom => Len(outbox[d]) # 0
        BY <2>3, <4>1 DEF Opened
      <4>. QED  BY <2>3, <2>5, <3>2, <4>2, <4>3
    <3>. QED  BY <3>1, <3>2
  <2>. QED  BY <2>1, <2>4, <2>5, OldOrNew
<1>3. CASE UNCHANGED vars
  BY <1>3 DEF vars, WelcomeFirst
<1>. QED  BY <1>1, <1>2, <1>3, NextCases

(* Whatever other tasks broadcast or forward, a client that joins hears its *)
(* own id first, and only once.                                             *)
THEOREM WelcomeComesFirst == Spec => []WelcomeFirst
<1>1. Init => WelcomeFirst
  BY DEF Init, WelcomeFirst
<1>. QED  BY <1>1, WelcomeStep, BaseInvariant, OpenedInvariant, PTL DEF Spec

----------------------------------------------------------------------------
(* Of two clients in a room, one knows the other.                           *)

(* Nobody is told that a peer left while it is being served. *)
ServedNotRetracted ==
  \A c, d \in Conns : Serving(d) => ~ Got(c, PeerLeft(peer_id[d]))

LEMMA ServedNotRetractedHolds == Base /\ LeftMeansGone => ServedNotRetracted
<1>. SUFFICES ASSUME Base, LeftMeansGone, NEW c \in Conns, NEW d \in Conns,
                     Serving(d), Got(c, PeerLeft(peer_id[d]))
              PROVE  FALSE
  BY DEF ServedNotRetracted
<1>1. PICK i \in 1 .. Len(outbox[c]) : outbox[c][i] = PeerLeft(peer_id[d])
  BY DEF Got
<1>2. PICK e \in Conns : peer_id[e] = peer_id[d] /\ pc[e] \in {"gc", "gone"}
  BY <1>1 DEF LeftMeansGone, PeerLeft
<1>3. peer_id[d] # 0
  BY DEF Serving, Base, Ids, Named, Holding, PeerIds
<1>. QED  BY <1>2, <1>3 DEF Serving, Base, Ids

Told(c, d) == Got(c, PeerJoined(peer_id[d])) \/ ListedInWelcome(c, peer_id[d])

LEMMA ToldLasts ==
  ASSUME Base, NEW c \in Conns, OneMessage(c), Lasting,
         NEW a \in Conns, NEW b \in Conns, Told(a, b), peer_id[b] # 0
  PROVE  Told(a, b)'
<1>1. peer_id'[b] = peer_id[b]
  BY DEF Lasting
<1>2. \A i \in 1 .. Len(outbox[a]) :
        i \in 1 .. Len(outbox'[a]) /\ outbox'[a][i] = outbox[a][i]
  BY OutboxGrows
<1>. QED  BY <1>1, <1>2 DEF Told, Got, ListedInWelcome

LEMMA MeetStep ==
  ASSUME Base, OneKnowsTheOther, [Next]_vars, ServedNotRetracted'
  PROVE  OneKnowsTheOther'
<1>1. ASSUME NEW k \in Codes, NEW r \in Rooms, create_room(k, r)
      PROVE  OneKnowsTheOther'
  BY <1>1 DEF create_room, taskVars, OneKnowsTheOther, Serving, Knows, Got, ListedInWelcome
<1>2. ASSUME NEW c \in Conns, StepOf(c)
      PROVE  OneKnowsTheOther'
  <2>1. OneMessage(c) /\ Lasting
    BY <1>2, StepSends, StepKeeps
  <2>2. SUFFICES ASSUME NEW a \in Conns, NEW b \in Conns,
                        a # b, room'[a] = room'[b], Serving(a)', Serving(b)'
                 PROVE  Told(a, b)' \/ Told(b, a)'
    BY DEF OneKnowsTheOther, Knows, Told, ServedNotRetracted
  <2>3. room'[a] = room[a] /\ room'[b] = room[b]
    BY <1>2, <2>2, RoomChosen DEF Serving
  <2>4. CASE Serving(a) /\ Serving(b)
    <3>1. Told(a, b) \/ Told(b, a)
      BY <2>2, <2>3, <2>4 DEF OneKnowsTheOther, Knows, Told
    <3>2. peer_id[a] # 0 /\ peer_id[b] # 0
      BY <2>4 DEF Serving, Base, Ids, Named, Holding, PeerIds
    <3>. QED  BY <2>1, <3>1, <3>2, ToldLasts
  <2>5. ASSUME NEW x \in Conns, NEW y \in Conns, x # y, room[x] = room[y],
               ~ Serving(x), Serving(x)', Serving(y)'
        PROVE  Told(y, x)'
    (* x is the one whose task has just announced it. *)
    <3>1. x = c /\ AnnounceJoined(c)
      BY ZenonT(40), <1>2, <2>5 DEF StepOf, NoHello, HelloWrongVersion, HelloRoomFound, HelloNoRoom,
         get_or_resurrect, mint_peer_id, SendWelcome, Insert, AnnounceJoined,
         ReceiveSignal, ForwardSignal, SocketClosed, RemovePeer, AnnounceLeft,
         gc_if_empty, CanReceive, Goto, After, Serving, Base, TypeOK
    <3>2. pc[y] \in Present /\ pc[c] = "announce"
      BY <2>5, <3>1 DEF AnnounceJoined, Goto, Serving, Present, Base, TypeOK
    <3>3. room[c] \in Rooms /\ peer_id[c] \in PeerIds
      BY <3>2, NamedFacts DEF Named, Holding
    <3>4. y \in peers[room[c]]
      BY <2>5, <3>1, <3>2, <3>3 DEF Base, Membership
    <3>5. outbox'[y] = Append(outbox[y], PeerJoined(peer_id[c]))
      BY <2>5, <3>1, <3>3, <3>4, BroadcastFacts, MessageTypes DEF AnnounceJoined, Base
    <3>6. peer_id' = peer_id
      BY <3>1 DEF AnnounceJoined
    <3>7. \E n \in 1 .. Len(outbox'[y]) : outbox'[y][n] = PeerJoined(peer_id[c])
      <4>1. outbox[y] \in Seq(Messages) /\ PeerJoined(peer_id[c]) \in Messages
        BY <3>3, MessageTypes DEF Base, TypeOK
      <4>. QED  BY <3>5, <4>1
    <3>. QED  BY <3>1, <3>6, <3>7 DEF Told, Got
  <2>. QED  BY <2>2, <2>3, <2>4, <2>5
<1>3. CASE UNCHANGED vars
  BY <1>3 DEF vars, OneKnowsTheOther, Serving, Knows, Got, ListedInWelcome
<1>. QED  BY <1>1, <1>2, <1>3, NextCases

(* Whichever way two joins overlap, at least one of the two clients knows   *)
(* the other once both are served in one room.                              *)
THEOREM JoinersMeet == Spec => []OneKnowsTheOther
<1>1. Init => OneKnowsTheOther
  BY DEF Init, OneKnowsTheOther, Serving
<1>2. Spec => []ServedNotRetracted
  BY ServedNotRetractedHolds, BaseInvariant, LeftMeansGoneInvariant, PTL
<1>. QED  BY <1>1, <1>2, MeetStep, BaseInvariant, PTL DEF Spec

----------------------------------------------------------------------------
(* Signals stay in their room and name their sender.                        *)

Routed(c, m) ==
  \E d \in Conns :
    /\ peer_id[d] = m.from /\ m.from # 0
    /\ Read([by |-> d, body |-> m.body])
    /\ room[d] = room[c] /\ asked[d] = asked[c]

RoutedSignals ==
  \A c \in Conns : \A i \in 1 .. Len(outbox[c]) :
    outbox[c][i].type = "signal" => Routed(c, outbox[c][i])

LEMMA RoutingStep ==
  Base /\ Opened /\ RoutedSignals /\ [Next]_vars => RoutedSignals'
<1>. SUFFICES ASSUME Base, Opened, RoutedSignals, [Next]_vars
              PROVE  RoutedSignals'
  OBVIOUS
<1>1. ASSUME NEW k \in Codes, NEW r \in Rooms, create_room(k, r)
      PROVE  RoutedSignals'
  BY <1>1 DEF create_room, taskVars, RoutedSignals, Routed, Read
<1>2. ASSUME NEW c \in Conns, StepOf(c)
      PROVE  RoutedSignals'
  <2>1. OneMessage(c) /\ Lasting
    BY <1>2, StepSends, StepKeeps
  <2>2. SUFFICES ASSUME NEW d \in Conns, NEW i \in 1 .. Len(outbox'[d]),
                        NEW m, m = outbox'[d][i], m.type = "signal"
                 PROVE  Routed(d, m)'
    BY DEF RoutedSignals
  <2>3. \A e \in Conns : pc[e] \notin {"hello", "resurrect"} =>
          room'[e] = room[e] /\ asked'[e] = asked[e]
    BY <1>2 DEF StepOf, NoHello, HelloWrongVersion, HelloRoomFound, HelloNoRoom,
       get_or_resurrect, mint_peer_id, SendWelcome, Insert, AnnounceJoined,
       ReceiveSignal, ForwardSignal, SocketClosed, RemovePeer, AnnounceLeft,
       gc_if_empty, Goto, Base, TypeOK
  <2>4. ASSUME Routed(d, m), pc[d] \notin Early
        PROVE  Routed(d, m)'
    <3>1. PICK e \in Conns :
            /\ peer_id[e] = m.from /\ m.from # 0
            /\ Read([by |-> e, body |-> m.body])
            /\ room[e] = room[d] /\ asked[e] = asked[d]
      BY <2>4 DEF Routed
    <3>2. peer_id[e] # 0
      BY <3>1
    <3>3. peer_id'[e] = peer_id[e] /\ Read([by |-> e, body |-> m.body])'
      BY <2>1, <3>1, <3>2 DEF Lasting
    <3>4. pc[e] \notin {"hello", "resurrect"} /\ pc[d] \notin {"hello", "resurrect"}
      BY <2>4, <3>2 DEF Base, Ids, Early
    <3>. QED  BY <2>3, <3>1, <3>3, <3>4 DEF Routed
  <2>5. CASE i \in 1 .. Len(outbox[d]) /\ m = outbox[d][i]
    <3>1. Routed(d, m)
      BY <2>2, <2>5 DEF RoutedSignals
    <3>2. pc[d] \notin Early
      <4>1. Len(outbox[d]) \in Nat
        BY DEF Base, TypeOK
      <4>. QED  BY <2>5, <4>1 DEF Opened
    <3>. QED  BY <2>4, <3>1, <3>2
  <2>6. CASE SaidBy(c, d, m)
    <3>1. /\ m.from = peer_id[c] /\ pc[c] = "forward"
          /\ m.body = target[c].body
          /\ room[d] = room[c]
      BY <2>2, <2>6 DEF SaidBy
    <3>2. room[c] \in Rooms /\ peer_id[c] \in PeerIds
      BY <3>1, NamedFacts DEF Named, Holding
    <3>3. asked[d] = asked[c]
      BY <3>1, <3>2, RelayAssumption DEF Base, HeldRooms
    <3>4. Read([by |-> c, body |-> m.body])
      BY <3>1 DEF Base, Targets
    <3>5. Routed(d, m)
      BY <3>1, <3>2, <3>3, <3>4 DEF Routed, PeerIds
    <3>6. pc[d] \notin Early
      BY <2>2, <2>6, <3>1, <3>2, RelayAssumption DEF SaidBy
    <3>. QED  BY <2>4, <3>1, <3>2, <3>5, <3>6
  <2>. QED  BY <2>1, <2>2, <2>5, <2>6, OldOrNew
<1>3. CASE UNCHANGED vars
  BY ZenonT(40), <1>3 DEF vars, RoutedSignals, Routed, Read
<1>. QED  BY <1>1, <1>2, <1>3, NextCases

(* A client only ever gets signals of clients that joined its own room, and *)
(* `from' is the id the relay gave to the one that sent it.                 *)
THEOREM RoutingIsSound == Spec => []SignalsStayInRoom
<1>1. Init => RoutedSignals
  BY DEF Init, RoutedSignals
<1>2. RoutedSignals => SignalsStayInRoom
  BY DEF RoutedSignals, Routed, Read, SignalsStayInRoom
<1>. QED  BY <1>1, <1>2, RoutingStep, BaseInvariant, OpenedInvariant, PTL DEF Spec

----------------------------------------------------------------------------
(* What is announced is retracted.                                          *)

NotYetPresent == Early \cup {"insert"}

(* A PeerJoined on the channel of c is about a connection of its room that  *)
(* has announced itself; if that one is gone, c, if still present, has its  *)
(* PeerLeft.                                                                *)
JoinedBy(c, d) ==
  /\ room[d] = room[c]
  /\ pc[c] \notin NotYetPresent
  /\ pc[d] \notin NotYetPresent \cup {"announce"}
  /\ pc[c] \in Present /\ pc[d] \in {"gc", "gone"} => Got(c, PeerLeft(peer_id[d]))

JoinsHaveOwners ==
  \A c \in Conns : \A i \in 1 .. Len(outbox[c]) :
    outbox[c][i].type = "peer_joined" =>
      \E d \in Conns : peer_id[d] = outbox[c][i].peer /\ JoinedBy(c, d)

(* Where a step can take a task, as far as these proofs tell places apart.  *)
Places(c) ==
  /\ \A d \in Conns \ {c} : pc'[d] = pc[d]
  /\ pc[c] \notin NotYetPresent => pc'[c] \notin NotYetPresent
  /\ pc[c] \notin NotYetPresent \cup {"announce"} => pc'[c] \notin NotYetPresent \cup {"announce"}
  /\ pc'[c] \in Present /\ pc[c] \notin NotYetPresent => pc[c] \in Present
  /\ pc'[c] \in {"gc", "gone"} => pc[c] \in NotYetPresent \cup {"left", "gc", "gone"}
  /\ pc[c] = "left" => AnnounceLeft(c)
  /\ pc[c] = "announce" => AnnounceJoined(c)

LEMMA StepPlaces ==
  ASSUME Base, NEW c \in Conns, StepOf(c)
  PROVE  Places(c)
  BY DEF Places, NotYetPresent, Early, Present,
     StepOf, NoHello, HelloWrongVersion, HelloRoomFound, HelloNoRoom,
     get_or_resurrect, mint_peer_id, SendWelcome, Insert, AnnounceJoined,
     ReceiveSignal, ForwardSignal, SocketClosed, RemovePeer, AnnounceLeft,
     gc_if_empty, CanReceive, Goto, After, Base, TypeOK

(* Being told that somebody left: everyone present in its room is. *)
LEMMA LeaversTell ==
  ASSUME Base, NEW d \in Conns, AnnounceLeft(d), pc[d] = "left",
         NEW c \in Conns, room[c] = room[d], pc[c] \in Present
  PROVE  Got(c, PeerLeft(peer_id[d]))'
<1>1. room[d] \in Rooms /\ peer_id[d] \in PeerIds
  BY NamedFacts DEF Named, Holding
<1>2. PeerLeft(peer_id[d]) \in Messages /\ outbox[c] \in Seq(Messages)
  BY <1>1, MessageTypes DEF Base, TypeOK
<1>3. c \in peers[room[d]] /\ c # d
  BY <1>1 DEF Base, Membership, Present
<1>4. outbox'[c] = Append(outbox[c], PeerLeft(peer_id[d]))
  BY <1>2, <1>3, BroadcastFacts DEF AnnounceLeft, Base
<1>5. peer_id' = peer_id
  BY DEF AnnounceLeft
<1>. QED  BY <1>2, <1>4, <1>5, AppendKeeps DEF Got

LEMMA JoinedByLasts ==
  ASSUME Base, NEW e \in Conns, StepOf(e),
         NEW c \in Conns, NEW d \in Conns, JoinedBy(c, d), peer_id[d] # 0
  PROVE  JoinedBy(c, d)'
<1>1. OneMessage(e) /\ Lasting /\ Places(e)
  BY StepSends, StepKeeps, StepPlaces
<1>2. room'[c] = room[c] /\ room'[d] = room[d] /\ peer_id'[d] = peer_id[d]
  BY <1>1, RoomChosen DEF JoinedBy, NotYetPresent, Early, Lasting
<1>3. /\ pc'[c] \notin NotYetPresent
      /\ pc'[d] \notin NotYetPresent \cup {"announce"}
  BY <1>1 DEF JoinedBy, Places
<1>4. ASSUME pc'[c] \in Present, pc'[d] \in {"gc", "gone"}
      PROVE  Got(c, PeerLeft(peer_id[d]))'
  <2>1. pc[c] \in Present
    BY <1>1, <1>4 DEF JoinedBy, Places
  <2>2. CASE pc[d] \in {"gc", "gone"}
    <3>1. Got(c, PeerLeft(peer_id[d]))
      BY <2>1, <2>2 DEF JoinedBy
    <3>. QED  BY <1>1, <1>2, <3>1, OutboxGrows DEF Got
  <2>3. CASE pc[d] = "left"
    <3>1. d = e /\ AnnounceLeft(d)
      BY <1>1, <1>4, <2>3 DEF Places
    <3>. QED  BY <2>1, <2>3, <3>1, LeaversTell DEF JoinedBy
  <2>. QED  BY <1>1, <1>4, <2>2, <2>3 DEF Places, JoinedBy
<1>. QED  BY <1>2, <1>3, <1>4 DEF JoinedBy

LEMMA JoinsHaveOwnersStep ==
  Base /\ JoinsHaveOwners /\ [Next]_vars => JoinsHaveOwners'
<1>. SUFFICES ASSUME Base, JoinsHaveOwners, [Next]_vars PROVE JoinsHaveOwners'
  OBVIOUS
<1>1. ASSUME NEW k \in Codes, NEW r \in Rooms, create_room(k, r)
      PROVE  JoinsHaveOwners'
  BY <1>1 DEF create_room, taskVars, JoinsHaveOwners, JoinedBy, Got
<1>2. ASSUME NEW e \in Conns, StepOf(e)
      PROVE  JoinsHaveOwners'
  <2>1. OneMessage(e) /\ Lasting /\ Places(e)
    BY <1>2, StepSends, StepKeeps, StepPlaces
  <2>2. SUFFICES ASSUME NEW c \in Conns, NEW i \in 1 .. Len(outbox'[c]),
                        outbox'[c][i].type = "peer_joined"
                 PROVE  \E d \in Conns : peer_id'[d] = outbox'[c][i].peer /\ JoinedBy(c, d)'
    BY DEF JoinsHaveOwners
  <2>3. CASE i \in 1 .. Len(outbox[c]) /\ outbox'[c][i] = outbox[c][i]
    <3>1. PICK d \in Conns : peer_id[d] = outbox[c][i].peer /\ JoinedBy(c, d)
      BY <2>2, <2>3 DEF JoinsHaveOwners
    <3>2. outbox[c][i] \in Messages
      BY <2>3 DEF Base, TypeOK
    <3>3. peer_id[d] # 0
      BY <2>2, <2>3, <3>1, <3>2 DEF Messages, PeerIds
    <3>4. peer_id'[d] = peer_id[d]
      BY <2>1, <3>3 DEF Lasting
    <3>. QED  BY <1>2, <2>3, <3>1, <3>3, <3>4, JoinedByLasts
  <2>4. CASE i = Len(outbox[c]) + 1 /\ SaidBy(e, c, outbox'[c][i])
    <3>1. outbox'[c][i].peer = peer_id[e] /\ pc[e] = "announce" /\ AnnounceJoined(e)
      BY <2>1, <2>2, <2>4 DEF SaidBy, Places
    <3>2. room[e] \in Rooms /\ peer_id[e] \in PeerIds
      BY <3>1, NamedFacts DEF Named, Holding
    <3>3. PeerJoined(peer_id[e]) \in Messages /\ Len(outbox[c]) \in Nat
      BY <3>2, MessageTypes DEF Base, TypeOK
    <3>4. outbox'[c] # outbox[c]
      BY <2>4, <3>3
    <3>5. c \in peers[room[e]] /\ c # e
      BY <3>1, <3>3, <3>4, BroadcastFacts DEF AnnounceJoined, Base
    <3>6. room[c] = room[e] /\ pc[c] \in Present
      BY <3>2, <3>5 DEF Base, Membership
    <3>7. /\ UNCHANGED <<room, peer_id>>
          /\ pc' = [pc EXCEPT ![e] = "serving"]
      BY <3>1 DEF AnnounceJoined, Goto, After
    <3>8. pc'[e] = "serving" /\ pc'[c] = pc[c]
      BY <3>5, <3>7 DEF Base, TypeOK
    <3>9. JoinedBy(c, e)'
      BY <3>6, <3>7, <3>8 DEF JoinedBy, NotYetPresent, Early, Present
    <3>. QED  BY <3>1, <3>7, <3>9
  <2>. QED  BY <2>1, <2>3, <2>4, OldOrNew
<1>3. CASE UNCHANGED vars
  BY <1>3 DEF vars, JoinsHaveOwners, JoinedBy, Got
<1>. QED  BY <1>1, <1>2, <1>3, NextCases

LEMMA JoinsHaveOwnersInvariant == Spec => []JoinsHaveOwners
<1>1. Init => JoinsHaveOwners
  BY DEF Init, JoinsHaveOwners
<1>. QED  BY <1>1, JoinsHaveOwnersStep, BaseInvariant, PTL DEF Spec

LEMMA RetractionFollows == Base /\ JoinsHaveOwners => JoinIsRetracted
<1>. SUFFICES ASSUME Base, JoinsHaveOwners, NEW c \in Conns, NEW d \in Conns,
                     Serving(c), Got(c, PeerJoined(peer_id[d])), pc[d] \in {"gc", "gone"}
              PROVE  Got(c, PeerLeft(peer_id[d]))
  BY DEF JoinIsRetracted
<1>1. PICK i \in 1 .. Len(outbox[c]) : outbox[c][i] = PeerJoined(peer_id[d])
  BY DEF Got
<1>2. outbox[c][i] \in Messages
  BY DEF Base, TypeOK
<1>3. outbox[c][i].type = "peer_joined" /\ outbox[c][i].peer = peer_id[d]
  BY <1>1 DEF PeerJoined
<1>4. peer_id[d] # 0
  BY <1>2, <1>3 DEF Messages, PeerIds
<1>5. PICK e \in Conns : peer_id[e] = peer_id[d] /\ JoinedBy(c, e)
  BY <1>3 DEF JoinsHaveOwners
<1>6. e = d
  BY <1>4, <1>5 DEF Base, Ids
<1>. QED  BY <1>5, <1>6 DEF JoinedBy, Serving, Present

(* A client that is being served and was told of a peer by PeerJoined is    *)
(* told that it has left once that peer's task has cleaned up.  Peers that  *)
(* were only listed in its Welcome are not covered.                         *)
THEOREM JoinsAreRetracted == Spec => []JoinIsRetracted
  BY BaseInvariant, JoinsHaveOwnersInvariant, RetractionFollows, PTL

----------------------------------------------------------------------------
(* The relay is Signalling.                                                 *)

(* Whoever a frame is about to be forwarded to has been in the room. *)
TargetsWereThere ==
  \A c \in Conns : pc[c] = "forward" => pc[target[c].to] \notin NotYetPresent

LEMMA TargetsWereThereStep ==
  Base /\ TargetsWereThere /\ [Next]_vars => TargetsWereThere'
<1>. SUFFICES ASSUME Base, TargetsWereThere, [Next]_vars,
                     NEW d \in Conns, pc'[d] = "forward"
              PROVE  pc'[target'[d].to] \notin NotYetPresent
  BY DEF TargetsWereThere
<1>1. ASSUME NEW k \in Codes, NEW r \in Rooms, create_room(k, r)
      PROVE  pc'[target'[d].to] \notin NotYetPresent
  BY <1>1 DEF create_room, taskVars, TargetsWereThere
<1>2. ASSUME NEW c \in Conns, StepOf(c)
      PROVE  pc'[target'[d].to] \notin NotYetPresent
  <2>1. Places(c)
    BY <1>2, StepPlaces
  <2>2. \/ pc[d] = "forward" /\ target'[d] = target[d]
        \/ \E to \in 1 .. next_peer_id, b \in Bodies : ReceiveSignal(c, to, b) /\ d = c
    BY ZenonT(40), <1>2 DEF StepOf, NoHello, HelloWrongVersion, HelloRoomFound, HelloNoRoom,
       get_or_resurrect, mint_peer_id, SendWelcome, Insert, AnnounceJoined,
       ReceiveSignal, ForwardSignal, SocketClosed, RemovePeer, AnnounceLeft,
       gc_if_empty, CanReceive, Goto, After, Base, TypeOK
  <2>3. CASE pc[d] = "forward" /\ target'[d] = target[d]
    <3>1. target[d].to \in Conns /\ pc[target[d].to] \notin NotYetPresent
      BY <2>3 DEF TargetsWereThere, Base, Targets
    <3>. QED  BY <2>1, <2>3, <3>1 DEF Places
  <2>4. ASSUME NEW to \in 1 .. next_peer_id, NEW b \in Bodies, ReceiveSignal(c, to, b), d = c
        PROVE  pc'[target'[d].to] \notin NotYetPresent
    <3>1. pc[c] = "serving" /\ room[c] \in Rooms
      BY <2>4 DEF ReceiveSignal, CanReceive, Base, HeldRooms, Holding
    <3>2. PICK e \in peer_tx(room[c], to) : target' = [target EXCEPT ![c] = [to |-> e, body |-> b]]
      BY <2>4, <3>1 DEF ReceiveSignal
    <3>3. e \in Conns /\ pc[e] \in Present
      BY <3>1 DEF peer_tx, Base, TypeOK, Membership
    <3>4. target'[d].to = e
      BY <2>4, <3>2 DEF Base, TypeOK
    <3>5. pc[e] \notin NotYetPresent
      BY <3>3 DEF Present, NotYetPresent, Early
    <3>. QED  BY <2>1, <3>3, <3>4, <3>5 DEF Places
  <2>. QED  BY <2>2, <2>3, <2>4
<1>3. CASE UNCHANGED vars
  BY <1>3 DEF vars, TargetsWereThere
<1>. QED  BY <1>1, <1>2, <1>3, NextCases

LEMMA TargetsWereThereInvariant == Spec => []TargetsWereThere
<1>1. Init => TargetsWereThere
  BY DEF Init, TargetsWereThere
<1>. QED  BY <1>1, TargetsWereThereStep, BaseInvariant, PTL DEF Spec

(* What the refinement mapping gives the variables of Signalling. *)
AStage == [c \in Conns |-> StageOf[pc[c]]]
AHome == [c \in Conns |-> IF c \in Admitted THEN room[c] ELSE NoRoom]
AId == [c \in Conns |-> IF c \in Admitted THEN peer_id[c] ELSE 0]

LEMMA Stages ==
  /\ StageOf["hello"] = "out" /\ StageOf["resurrect"] = "out"
  /\ StageOf["mint"] = "out" /\ StageOf["welcome"] = "out"
  /\ StageOf["insert"] = "admitted" /\ StageOf["announce"] = "registered"
  /\ StageOf["serving"] = "joined" /\ StageOf["forward"] = "joined"
  /\ StageOf["remove"] = "joined" /\ StageOf["left"] = "departing"
  /\ StageOf["gc"] = "gone" /\ StageOf["gone"] = "gone"
  BY DEF StageOf

LEMMA Mapped ==
  ASSUME Base, NEW c \in Conns
  PROVE  /\ AStage[c] = StageOf[pc[c]]
         /\ pc[c] \in Early => AHome[c] = NoRoom /\ AId[c] = 0
         /\ pc[c] \notin Early => AHome[c] = room[c] /\ AId[c] = peer_id[c]
  BY DEF AStage, AHome, AId, Admitted, Early

LEMMA MembersAre ==
  ASSUME Base, NEW r \in Rooms
  PROVE  Promise!Members(r) = peers[r]
<1>1. ASSUME NEW c \in Conns
      PROVE  AHome[c] = r /\ AStage[c] \in {"registered", "joined"} <=> c \in peers[r]
  <2>1. pc[c] \in Labels
    BY DEF Base, TypeOK
  <2>2. StageOf[pc[c]] \in {"registered", "joined"} <=> pc[c] \in Present
    BY <2>1, Stages DEF Labels, Present
  <2>3. pc[c] \in Present => pc[c] \notin Early
    BY DEF Present, Early
  <2>. QED  BY <2>2, <2>3, Mapped DEF Base, Membership
<1>2. peers[r] \subseteq Conns
  BY DEF Base, TypeOK
<1>. QED  BY <1>1, <1>2 DEF Promise!Members, AHome, AStage

(* A step that only moves one task, within the admitted or among the others. *)
LEMMA MovedTask ==
  ASSUME Base, NEW c \in Conns, NEW l \in Labels, pc' = [pc EXCEPT ![c] = l],
         UNCHANGED <<room, peer_id>>,
         pc[c] \in Early <=> l \in Early
  PROVE  /\ AStage' = [AStage EXCEPT ![c] = StageOf[l]]
         /\ AHome' = AHome
         /\ AId' = AId
<1>1. \A d \in Conns : d \in Admitted' <=> d \in Admitted
  BY DEF Admitted, Early, Base, TypeOK
<1>2. AHome' = AHome /\ AId' = AId
  BY <1>1 DEF AHome, AId
<1>3. AStage' = [AStage EXCEPT ![c] = StageOf[l]]
  BY DEF AStage, Base, TypeOK
<1>. QED  BY <1>2, <1>3

(* A connection that is turned away keeps no room and no id. *)
LEMMA TurnedAway ==
  ASSUME Base, NEW c \in Conns, pc[c] = "hello", pc' = [pc EXCEPT ![c] = "gone"],
         UNCHANGED <<room, peer_id>>
  PROVE  /\ AStage' = [AStage EXCEPT ![c] = "gone"]
         /\ AStage[c] = "out"
         /\ AHome' = AHome
         /\ AId' = AId
<1>1. room[c] = NoRoom /\ peer_id[c] = 0
  BY DEF Base, HeldRooms, Ids
<1>2. \A d \in Conns : d # c => (d \in Admitted' <=> d \in Admitted)
  BY DEF Admitted, Base, TypeOK
<1>3. AHome' = AHome /\ AId' = AId
  BY <1>1, <1>2 DEF AHome, AId
<1>4. AStage' = [AStage EXCEPT ![c] = StageOf["gone"]] /\ AStage[c] = StageOf["hello"]
  BY DEF AStage, Base, TypeOK
<1>. QED  BY <1>3, <1>4, Stages

Unseen == UNCHANGED <<AStage, AHome, AId, outbox>>

LEMMA UnseenStutters == Unseen => UNCHANGED Promise!vars
  BY DEF Unseen, Promise!vars, AStage, AHome, AId

(* Signalling!Send and !Announce are the relay's Send and broadcast_except. *)
LEMMA AnnounceMaps ==
  ASSUME Base, NEW c \in Conns, pc[c] \in Named \ {"welcome"}, NEW m,
         broadcast_except(room[c], c, m)
  PROVE  Promise!Announce(c, m)
<1>1. room[c] \in Rooms
  BY DEF Base, HeldRooms, Named
<1>2. Promise!Members(room[c]) = peers[room[c]]
  BY <1>1, MembersAre
<1>3. AHome[c] = room[c]
  BY Mapped DEF Named, Holding, Early
<1>. QED  BY <1>2, <1>3 DEF Promise!Announce, broadcast_except, Audience, AHome

LEMMA RefusalMaps ==
  ASSUME Base, NEW c \in Conns,
         NoHello(c) \/ (\E v \in ClientVersions : HelloWrongVersion(c, v))
  PROVE  Promise!Refuse(c)
<1>1. pc[c] = "hello" /\ pc' = [pc EXCEPT ![c] = "gone"] /\ UNCHANGED <<room, peer_id>>
  BY DEF NoHello, HelloWrongVersion, Goto
<1>2. /\ AStage' = [AStage EXCEPT ![c] = "gone"] /\ AStage[c] = "out"
      /\ AHome' = AHome /\ AId' = AId
  BY <1>1, TurnedAway
<1>3. UNCHANGED outbox \/ Send(c, Error("version_mismatch"))
  BY DEF NoHello, HelloWrongVersion
<1>. QED
  BY <1>2, <1>3 DEF Promise!Refuse, Promise!Move, Promise!Send, Promise!Error, Send, Error,
     AStage, AHome, AId

LEMMA NoRoomMaps ==
  ASSUME Base, NEW c \in Conns, NEW v \in ClientVersions, NEW k \in Codes,
         HelloNoRoom(c, v, k)
  PROVE  Unseen \/ Promise!Refuse(c)
<1>1. pc[c] = "hello" /\ UNCHANGED <<room, peer_id>>
  BY DEF HelloNoRoom
<1>2. CASE Goto(c, "resurrect") /\ UNCHANGED outbox
  <2>1. pc' = [pc EXCEPT ![c] = "resurrect"]
    BY <1>2 DEF Goto
  <2>2. /\ AStage' = [AStage EXCEPT ![c] = StageOf["resurrect"]]
        /\ AHome' = AHome /\ AId' = AId
    BY <1>1, <2>1, MovedTask DEF Labels, Early
  <2>3. AStage[c] = StageOf["resurrect"]
    BY <1>1, Mapped, Stages
  <2>4. AStage' = AStage
    BY <2>2, <2>3 DEF AStage
  <2>. QED  BY <1>2, <2>2, <2>4 DEF Unseen
<1>3. CASE Goto(c, "gone") /\ Send(c, Error("room_not_found"))
  <2>1. pc' = [pc EXCEPT ![c] = "gone"]
    BY <1>3 DEF Goto
  <2>2. /\ AStage' = [AStage EXCEPT ![c] = "gone"] /\ AStage[c] = "out"
        /\ AHome' = AHome /\ AId' = AId
    BY <1>1, <2>1, TurnedAway
  <2>. QED
    BY <1>3, <2>2 DEF Promise!Refuse, Promise!Move, Promise!Send, Promise!Error, Send, Error,
       AStage, AHome, AId
<1>. QED  BY <1>2, <1>3 DEF HelloNoRoom

LEMMA WelcomeMaps ==
  ASSUME Base, NEW c \in Conns, SendWelcome(c)
  PROVE  Promise!Admit(c, room[c], AId'[c]) /\ room[c] \in Rooms
<1>1. /\ pc[c] = "welcome" /\ pc' = [pc EXCEPT ![c] = "insert"]
      /\ UNCHANGED <<room, peer_id, peers>>
  BY DEF SendWelcome, Goto, After, registryVars
<1>2. room[c] \in Rooms /\ peer_id[c] \in PeerIds
  BY <1>1, NamedFacts DEF Named, Holding
<1>3. \A d \in Conns : d \in Admitted' <=> d \in Admitted \/ d = c
  BY <1>1 DEF Admitted, Base, TypeOK
<1>4. /\ AHome' = [AHome EXCEPT ![c] = room[c]]
      /\ AId' = [AId EXCEPT ![c] = peer_id[c]]
  BY <1>1, <1>3 DEF AHome, AId
<1>5. AStage' = [AStage EXCEPT ![c] = "admitted"] /\ AStage[c] = "out"
  BY <1>1, Stages DEF AStage, Base, TypeOK
<1>6. AId'[c] = peer_id[c]
  BY <1>4 DEF AId
<1>7. peer_id[c] \notin {AId[d] : d \in Conns}
  <2>1. SUFFICES ASSUME NEW d \in Conns, AId[d] = peer_id[c] PROVE FALSE
    OBVIOUS
  <2>2. AId[d] # 0
    BY <1>2, <2>1 DEF PeerIds
  <2>3. peer_id[d] = peer_id[c] /\ pc[d] \notin Early
    BY <2>1, <2>2, Mapped
  <2>4. d = c
    BY <1>2, <2>3 DEF Base, Ids, PeerIds
  <2>. QED  BY <1>1, <2>3, <2>4 DEF Early
<1>8. {AId[d] : d \in Promise!Members(room[c])} = snapshot(room[c])
  <2>1. Promise!Members(room[c]) = peers[room[c]]
    BY <1>2, MembersAre
  <2>2. \A d \in peers[room[c]] : AId[d] = peer_id[d]
    <3>1. SUFFICES ASSUME NEW d \in peers[room[c]] PROVE AId[d] = peer_id[d]
      OBVIOUS
    <3>2. d \in Conns /\ pc[d] \in Present
      BY <1>2 DEF Base, TypeOK, Membership
    <3>. QED  BY <3>2, Mapped DEF Present, Early
  <2>. QED  BY <2>1, <2>2 DEF snapshot
<1>9. outbox' = [outbox EXCEPT ![c] = Append(@, Welcome(peer_id[c], snapshot(room[c])))]
  BY DEF SendWelcome, Send
<1>10. Promise!Move(c, "out", "admitted")
  BY <1>5 DEF Promise!Move, AStage
<1>11. AId'[c] \in Promise!PeerIds \ {AId[d] : d \in Conns}
  BY <1>2, <1>6, <1>7 DEF Promise!PeerIds, PeerIds
<1>12. Promise!Send(c, Promise!Welcome(AId'[c], {AId[d] : d \in Promise!Members(room[c])}))
  BY <1>6, <1>8, <1>9 DEF Promise!Send, Promise!Welcome, Welcome
<1>. QED
  BY <1>2, <1>4, <1>6, <1>10, <1>11, <1>12 DEF Promise!Admit, AHome, AId

(* The steps of a task that clients cannot see: lookups, minting, collecting *)
(* rooms, and picking the target of a frame.                                *)
LEMMA HiddenSteps ==
  ASSUME Base, NEW c \in Conns,
         \/ \E v \in ClientVersions, k \in Codes : HelloRoomFound(c, v, k)
         \/ get_or_resurrect(c)
         \/ mint_peer_id(c)
         \/ \E to \in 1 .. next_peer_id, b \in Bodies : ReceiveSignal(c, to, b)
         \/ SocketClosed(c)
         \/ gc_if_empty(c)
  PROVE  Unseen
<1>1. /\ outbox' = outbox
      /\ \A d \in Conns \ {c} : pc'[d] = pc[d] /\ room'[d] = room[d] /\ peer_id'[d] = peer_id[d]
      /\ \/ pc[c] \in {"hello", "resurrect", "mint"} /\ pc'[c] \in {"mint", "welcome"}
         \/ /\ pc[c] = "serving" /\ pc'[c] \in {"serving", "forward", "remove"}
            /\ room'[c] = room[c] /\ peer_id'[c] = peer_id[c]
         \/ /\ pc[c] = "gc" /\ pc'[c] = "gone"
            /\ room'[c] = room[c] /\ peer_id'[c] = peer_id[c]
  BY DEF HelloRoomFound, get_or_resurrect, mint_peer_id, ReceiveSignal, CanReceive,
     SocketClosed, gc_if_empty, Goto, After, Base, TypeOK
<1>2. \A d \in Conns : d \in Admitted' <=> d \in Admitted
  BY <1>1 DEF Admitted
<1>3. \A d \in Conns : d \in Admitted => room'[d] = room[d] /\ peer_id'[d] = peer_id[d]
  BY <1>1 DEF Admitted
<1>4. AHome' = AHome /\ AId' = AId
  BY <1>2, <1>3 DEF AHome, AId
<1>5. \A d \in Conns : StageOf[pc'[d]] = StageOf[pc[d]]
  BY <1>1, Stages
<1>6. AStage' = AStage
  BY <1>5 DEF AStage
<1>. QED  BY <1>1, <1>4, <1>6 DEF Unseen

LEMMA InsertMaps ==
  ASSUME Base, NEW c \in Conns, Insert(c)
  PROVE  Promise!Register(c)
<1>1. /\ pc[c] = "insert" /\ pc' = [pc EXCEPT ![c] = "announce"]
      /\ UNCHANGED <<room, peer_id, outbox>>
  BY DEF Insert, Goto, After
<1>2. /\ AStage' = [AStage EXCEPT ![c] = StageOf["announce"]]
      /\ AHome' = AHome /\ AId' = AId
  BY <1>1, MovedTask DEF Labels, Early
<1>3. AStage[c] = "admitted" /\ StageOf["announce"] = "registered"
  BY <1>1, Mapped, Stages
<1>. QED  BY <1>1, <1>2, <1>3 DEF Promise!Register, Promise!Move, AStage, AHome, AId

LEMMA JoinMaps ==
  ASSUME Base, NEW c \in Conns, AnnounceJoined(c)
  PROVE  Promise!AnnounceJoined(c)
<1>1. /\ pc[c] = "announce" /\ pc' = [pc EXCEPT ![c] = "serving"]
      /\ UNCHANGED <<room, peer_id>>
      /\ broadcast_except(room[c], c, PeerJoined(peer_id[c]))
  BY DEF AnnounceJoined, Goto, After
<1>2. /\ AStage' = [AStage EXCEPT ![c] = StageOf["serving"]]
      /\ AHome' = AHome /\ AId' = AId
  BY <1>1, MovedTask DEF Labels, Early
<1>3. AStage[c] = "registered" /\ StageOf["serving"] = "joined" /\ AId[c] = peer_id[c]
  BY <1>1, Mapped, Stages DEF Early
<1>4. Promise!PeerJoined(AId[c]) = PeerJoined(peer_id[c])
  BY <1>3 DEF Promise!PeerJoined, PeerJoined
<1>5. Promise!Announce(c, Promise!PeerJoined(AId[c]))
  BY <1>1, <1>4, AnnounceMaps DEF Named, Holding
<1>. QED  BY <1>2, <1>3, <1>5 DEF Promise!AnnounceJoined, Promise!Move, AStage, AHome, AId

LEMMA LeaveMaps ==
  ASSUME Base, NEW c \in Conns, AnnounceLeft(c)
  PROVE  Promise!AnnounceLeft(c)
<1>1. /\ pc[c] = "left" /\ pc' = [pc EXCEPT ![c] = "gc"]
      /\ UNCHANGED <<room, peer_id>>
      /\ broadcast_except(room[c], c, PeerLeft(peer_id[c]))
  BY DEF AnnounceLeft, Goto, After
<1>2. /\ AStage' = [AStage EXCEPT ![c] = StageOf["gc"]]
      /\ AHome' = AHome /\ AId' = AId
  BY <1>1, MovedTask DEF Labels, Early
<1>3. AStage[c] = "departing" /\ StageOf["gc"] = "gone" /\ AId[c] = peer_id[c]
  BY <1>1, Mapped, Stages DEF Early
<1>4. Promise!PeerLeft(AId[c]) = PeerLeft(peer_id[c])
  BY <1>3 DEF Promise!PeerLeft, PeerLeft
<1>5. Promise!Announce(c, Promise!PeerLeft(AId[c]))
  BY <1>1, <1>4, AnnounceMaps DEF Named, Holding
<1>. QED  BY <1>2, <1>3, <1>5 DEF Promise!AnnounceLeft, Promise!Move, AStage, AHome, AId

LEMMA DepartMaps ==
  ASSUME Base, NEW c \in Conns, RemovePeer(c)
  PROVE  Promise!Depart(c)
<1>1. /\ pc[c] = "remove" /\ pc' = [pc EXCEPT ![c] = "left"]
      /\ UNCHANGED <<room, peer_id, outbox>>
  BY DEF RemovePeer, Goto, After
<1>2. /\ AStage' = [AStage EXCEPT ![c] = StageOf["left"]]
      /\ AHome' = AHome /\ AId' = AId
  BY <1>1, MovedTask DEF Labels, Early
<1>3. AStage[c] = "joined" /\ StageOf["left"] = "departing"
  BY <1>1, Mapped, Stages
<1>. QED  BY <1>1, <1>2, <1>3 DEF Promise!Depart, Promise!Move, AStage, AHome, AId

LEMMA ForwardMaps ==
  ASSUME Base, TargetsWereThere, NEW c \in Conns, NEW claimed, ForwardSignal(c, claimed)
  PROVE  \E d \in Conns, b \in Bodies : Promise!Forward(c, d, b)
<1>. DEFINE d == target[c].to
            b == target[c].body
<1>1. /\ pc[c] = "forward" /\ pc' = [pc EXCEPT ![c] = "serving"]
      /\ UNCHANGED <<room, peer_id>>
      /\ outbox' = [outbox EXCEPT ![d] = Append(@, Signal(peer_id[c], peer_id[d], b))]
  BY DEF ForwardSignal, Goto, Send, StampedFrom
<1>2. d \in Conns /\ b \in Bodies /\ room[d] = room[c] /\ pc[d] \notin NotYetPresent
  BY <1>1 DEF TargetsWereThere, Base, Targets
<1>. HIDE DEF d, b
<1>3. /\ AStage' = [AStage EXCEPT ![c] = StageOf["serving"]]
      /\ AHome' = AHome /\ AId' = AId
  BY <1>1, MovedTask DEF Labels, Early
<1>4. AStage[c] = "joined" /\ StageOf["serving"] = "joined"
  BY <1>1, Mapped, Stages
<1>5. AStage' = AStage
  BY <1>3, <1>4 DEF AStage
<1>6. AHome[d] = AHome[c] /\ AId[c] = peer_id[c] /\ AId[d] = peer_id[d]
  BY <1>1, <1>2, Mapped DEF NotYetPresent, Early
<1>7. AStage[d] \notin {"out", "admitted"}
  <2>1. pc[d] \in Labels
    BY <1>2 DEF Base, TypeOK
  <2>. QED  BY <1>2, <2>1, Mapped, Stages DEF Labels, NotYetPresent, Early
<1>8. Promise!Signal(AId[c], AId[d], b) = Signal(peer_id[c], peer_id[d], b)
  BY <1>6 DEF Promise!Signal, Signal
<1>9. Promise!Forward(c, d, b)
  BY <1>1, <1>3, <1>4, <1>5, <1>6, <1>7, <1>8
  DEF Promise!Forward, Promise!Send, AStage, AHome, AId
<1>. QED  BY <1>2, <1>9

LEMMA SignallingStep ==
  Base /\ TargetsWereThere /\ [Next]_vars => [Promise!Next]_(Promise!vars)
<1>. SUFFICES ASSUME Base, TargetsWereThere, [Next]_vars
              PROVE  Promise!Next \/ Unseen
  BY UnseenStutters
<1>1. ASSUME NEW k \in Codes, NEW r \in Rooms, create_room(k, r)
      PROVE  Unseen
  BY <1>1 DEF create_room, taskVars, Unseen, AStage, AHome, AId, Admitted
<1>2. ASSUME NEW c \in Conns, StepOf(c)
      PROVE  Promise!Next \/ Unseen
  <2>1. \/ Promise!Refuse(c)
        \/ \E r \in Rooms : Promise!Admit(c, r, AId'[c])
        \/ Promise!Register(c)
        \/ Promise!AnnounceJoined(c)
        \/ \E d \in Conns, b \in Bodies : Promise!Forward(c, d, b)
        \/ Promise!Depart(c)
        \/ Promise!AnnounceLeft(c)
        \/ Unseen
    BY <1>2, RefusalMaps, NoRoomMaps, WelcomeMaps, HiddenSteps, InsertMaps, JoinMaps,
       LeaveMaps, DepartMaps, ForwardMaps DEF StepOf
  <2>. QED  BY <2>1 DEF Promise!Next, AId
<1>3. CASE UNCHANGED vars
  BY <1>3 DEF vars, Unseen, AStage, AHome, AId, Admitted
<1>. QED  BY <1>1, <1>2, <1>3, NextCases

(* Every behaviour of the relay, for any number of connections, codes and   *)
(* rooms, is one that Signalling allows its clients to see.                 *)
THEOREM RelayIsSignalling == Spec => ImplementsSignalling
<1>1. Init => Promise!Init
  <2>1. ASSUME Init
        PROVE  /\ AStage = [c \in Conns |-> "out"]
               /\ AHome = [c \in Conns |-> NoRoom]
               /\ AId = [c \in Conns |-> 0]
               /\ outbox = [c \in Conns |-> <<>>]
    BY <2>1, Stages DEF Init, AStage, AHome, AId, Admitted
  <2>. QED  BY <2>1 DEF Promise!Init, AStage, AHome, AId
<1>. QED
  BY <1>1, SignallingStep, BaseInvariant, TargetsWereThereInvariant, PTL
  DEF Spec, ImplementsSignalling, Promise!Spec
=============================================================================
