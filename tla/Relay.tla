------------------------------- MODULE Relay -------------------------------
(***************************************************************************)
(* The signalling relay: the room registry (crates/relay/src/room.rs) and  *)
(* the task that serves one WebSocket (handle_socket in                    *)
(* crates/relay/src/ws.rs).                                                *)
(*                                                                         *)
(* Every socket is served by a task of its own, and the tasks share the    *)
(* registry and the rooms under locks that are held for one operation at a *)
(* time.  An action here is the code between two such operations: what a   *)
(* task does on its own is folded into its next access to shared state.    *)
(* `outbox[c]' is everything ever put on the unbounded channel that feeds  *)
(* the socket of c; what the client reads of it is the business of Session. *)
(*                                                                         *)
(* Abstracted: the text of SDP and ICE payloads (both kinds are "signal"   *)
(* messages with some body, routed by the same forward_to), envelope       *)
(* sequence numbers, ICE server lists, and the order of a HashMap's        *)
(* values.  A broadcast holds the room's read lock throughout, so it is    *)
(* one step for whoever joins or leaves.                                   *)
(***************************************************************************)
EXTENDS Protocol, FiniteSets

CONSTANTS
  Publishers,      \* WebSocket connections whose client says role "publisher" ...
  Subscribers,     \* ... and "subscriber"; a client that reconnects is a new one
  Codes,           \* room codes
  Rooms,           \* identities of Room objects (what an Arc<Room> points to)
  ClientVersions,  \* protocol versions the clients of the repository announce
  MaxFrames,       \* bound: Sdp and IceCandidate frames the relay reads in all
  NoRoom, NoCode, NoTarget

Conns == Publishers \cup Subscribers

ASSUME RelayAssumption ==
  /\ Publishers \cap Subscribers = {}
  /\ NoRoom \notin Rooms
  /\ NoCode \notin Codes
  /\ ClientVersions \subseteq Nat
  /\ MaxFrames \in Nat

VARIABLES
  registry,    \* RoomRegistry.rooms: code -> Room object
  code,        \* Room.code of each Room object, NoCode before it is created
  peers,       \* Room.peers of each Room object
  next_peer_id,
  pc,          \* where the task of each connection is
  asked,       \* `room_code' of the Hello
  room,        \* the Arc<Room> the task holds
  peer_id,
  outbox,      \* history of the channel `tx'
  target,      \* forward_to between lookup and send: the sender half it cloned
               \* and what it is about to send
  frames       \* history: the Sdp and IceCandidate frames read, and whose

registryVars == <<registry, code, peers, next_peer_id>>
taskVars == <<pc, asked, room, peer_id, outbox, target, frames>>
vars == <<registry, code, peers, next_peer_id,
          pc, asked, room, peer_id, outbox, target, frames>>

----------------------------------------------------------------------------
FirstPeerId_Zero == 0
FirstPeerId == 1

----------------------------------------------------------------------------
(* Room and RoomRegistry.                                                   *)

(* Room objects not created yet. *)
Unborn == {r \in Rooms : code[r] = NoCode}

snapshot(r) == {peer_id[d] : d \in peers[r]}

(* peer_tx: the channel of the peer with this id in the room, if it is there. *)
peer_tx(r, id) == {d \in peers[r] : peer_id[d] = id}

Audience(r, c) == peers[r] \ {c}

broadcast_except(r, c, m) ==
  outbox' = [d \in Conns |-> IF d \in Audience(r, c) THEN Append(outbox[d], m)
                                                     ELSE outbox[d]]

Send(c, m) == outbox' = [outbox EXCEPT ![c] = Append(@, m)]

Goto(c, label) == pc' = [pc EXCEPT ![c] = label]

(* The order in which handle_socket goes through its accesses to shared *)
(* state, from the room lookup to its end.                              *)
After_AnnounceBeforeInsert ==
  [mint |-> "welcome", welcome |-> "announce", announce |-> "insert", insert |-> "serving",
   serving |-> "remove", remove |-> "left", left |-> "gc", gc |-> "gone"]
After_GcBeforeRemove ==
  [mint |-> "welcome", welcome |-> "insert", insert |-> "announce", announce |-> "serving",
   serving |-> "gc", gc |-> "remove", remove |-> "left", left |-> "gone"]
After_NoPeerLeft ==
  [mint |-> "welcome", welcome |-> "insert", insert |-> "announce", announce |-> "serving",
   serving |-> "remove", remove |-> "gc", left |-> "gc", gc |-> "gone"]
After_InsertBeforeWelcome ==
  [mint |-> "insert", insert |-> "announce", announce |-> "welcome", welcome |-> "serving",
   serving |-> "remove", remove |-> "left", left |-> "gc", gc |-> "gone"]
After_NoGc ==
  [mint |-> "welcome", welcome |-> "insert", insert |-> "announce", announce |-> "serving",
   serving |-> "remove", remove |-> "left", left |-> "gone", gc |-> "gone"]
After ==
  [mint |-> "welcome", welcome |-> "insert", insert |-> "announce", announce |-> "serving",
   serving |-> "remove", remove |-> "left", left |-> "gc", gc |-> "gone"]

(* gc_if_empty removes whatever room the registry now has under the code. *)
Collectable(k) == registry[k] # NoRoom /\ peers[registry[k]] = {}

----------------------------------------------------------------------------
(* GET /api/new-room.                                                       *)

create_room(k, r) ==
  /\ registry[k] = NoRoom
  /\ r \in Unborn
  /\ code' = [code EXCEPT ![r] = k]
  /\ registry' = [registry EXCEPT ![k] = r]
  /\ UNCHANGED <<peers, next_peer_id, taskVars>>

----------------------------------------------------------------------------
(* handle_socket: the Hello phase.                                          *)

(* The first frame is not a Hello (or the socket closes): no reply at all. *)
NoHello(c) ==
  /\ pc[c] = "hello"
  /\ Goto(c, "gone")
  /\ UNCHANGED <<registryVars, asked, room, peer_id, outbox, target, frames>>

HelloWrongVersion(c, v) ==
  /\ pc[c] = "hello"
  /\ v # PROTOCOL_VERSION
  /\ Send(c, Error("version_mismatch"))
  /\ Goto(c, "gone")
  /\ UNCHANGED <<registryVars, asked, room, peer_id, target, frames>>

(* state.rooms.get(&room_code), under the registry's read lock. *)
HelloRoomFound(c, v, k) ==
  /\ pc[c] = "hello"
  /\ v = PROTOCOL_VERSION
  /\ registry[k] # NoRoom
  /\ asked' = [asked EXCEPT ![c] = k]
  /\ room' = [room EXCEPT ![c] = registry[k]]
  /\ Goto(c, "mint")
  /\ UNCHANGED <<registryVars, peer_id, outbox, target, frames>>

(* The same lookup fails: a publisher goes on to resurrect the room, *)
(* anyone else is refused.                                             *)
HelloNoRoom(c, v, k) ==
  /\ pc[c] = "hello"
  /\ v = PROTOCOL_VERSION
  /\ registry[k] = NoRoom
  /\ asked' = [asked EXCEPT ![c] = k]
  /\ \/ /\ c \in Publishers
        /\ Goto(c, "resurrect")
        /\ UNCHANGED outbox
     \/ /\ c \notin Publishers
        /\ Send(c, Error("room_not_found"))
        /\ Goto(c, "gone")
  /\ UNCHANGED <<registryVars, room, peer_id, target, frames>>

(* get_or_resurrect, which looks again under the write lock. *)
get_or_resurrect(c) ==
  /\ pc[c] = "resurrect"
  /\ \/ /\ registry[asked[c]] # NoRoom
        /\ room' = [room EXCEPT ![c] = registry[asked[c]]]
        /\ UNCHANGED <<registry, code>>
     \/ /\ registry[asked[c]] = NoRoom
        /\ \E r \in Unborn :
             /\ code' = [code EXCEPT ![r] = asked[c]]
             /\ registry' = [registry EXCEPT ![asked[c]] = r]
             /\ room' = [room EXCEPT ![c] = r]
  /\ Goto(c, "mint")
  /\ UNCHANGED <<peers, next_peer_id, asked, peer_id, outbox, target, frames>>

----------------------------------------------------------------------------
(* handle_socket: Welcome and registration.                                 *)

mint_peer_id(c) ==
  /\ pc[c] = "mint"
  /\ peer_id' = [peer_id EXCEPT ![c] = next_peer_id]
  /\ next_peer_id' = next_peer_id + 1
  /\ Goto(c, After.mint)
  /\ UNCHANGED <<registry, code, peers, asked, room, outbox, target, frames>>

(* The snapshot is taken before the peer is in the room. *)
SendWelcome(c) ==
  /\ pc[c] = "welcome"
  /\ Send(c, Welcome(peer_id[c], snapshot(room[c])))
  /\ Goto(c, After.welcome)
  /\ UNCHANGED <<registryVars, asked, room, peer_id, target, frames>>

Insert(c) ==
  /\ pc[c] = "insert"
  /\ peers' = [peers EXCEPT ![room[c]] = @ \cup {c}]
  /\ Goto(c, After.insert)
  /\ UNCHANGED <<registry, code, next_peer_id, asked, room, peer_id, outbox,
                 target, frames>>

AnnounceJoined(c) ==
  /\ pc[c] = "announce"
  /\ broadcast_except(room[c], c, PeerJoined(peer_id[c]))
  /\ Goto(c, After.announce)
  /\ UNCHANGED <<registryVars, asked, room, peer_id, target, frames>>

----------------------------------------------------------------------------
(* handle_socket: the inbound loop.  A frame without `to', a Pong, a second *)
(* Hello, anything malformed or unsupported leaves the state alone.  `from' *)
(* is whatever the client wrote in the frame.                               *)

CanReceive_WhileCleaningUp(c) == pc[c] \in {"serving", "gc"}
CanReceive(c) == pc[c] = "serving"

ReceiveSignal(c, to, b) ==
  /\ CanReceive(c)
  /\ Len(frames) < MaxFrames
  /\ frames' = Append(frames, [by |-> c, body |-> b])
  /\ \/ /\ peer_tx(room[c], to) = {}
        /\ UNCHANGED <<pc, target>>
     \/ \E d \in peer_tx(room[c], to) :
          /\ target' = [target EXCEPT ![c] = [to |-> d, body |-> b]]
          /\ Goto(c, "forward")
  /\ UNCHANGED <<registryVars, asked, room, peer_id, outbox>>

(* The clone of the target's channel outlives the room's lock, so the *)
(* target may have left meanwhile.                                     *)
StampedFrom_Claimed(c, claimed) == claimed
StampedFrom(c, claimed) == peer_id[c]

ForwardSignal(c, claimed) ==
  /\ pc[c] = "forward"
  /\ LET d == target[c].to
     IN  Send(d, Signal(StampedFrom(c, claimed), peer_id[d], target[c].body))
  /\ target' = [target EXCEPT ![c] = NoTarget]
  /\ Goto(c, "serving")
  /\ UNCHANGED <<registryVars, asked, room, peer_id, frames>>

----------------------------------------------------------------------------
(* handle_socket: the socket closed or failed; cleanup.                     *)

(* A Close frame or a read error ends the loop. *)
SocketClosed(c) ==
  /\ pc[c] = "serving"
  /\ Goto(c, After.serving)
  /\ UNCHANGED <<registryVars, asked, room, peer_id, outbox, target, frames>>

RemovePeer(c) ==
  /\ pc[c] = "remove"
  /\ peers' = [peers EXCEPT ![room[c]] = @ \ {c}]
  /\ Goto(c, After.remove)
  /\ UNCHANGED <<registry, code, next_peer_id, asked, room, peer_id, outbox,
                 target, frames>>

AnnounceLeft(c) ==
  /\ pc[c] = "left"
  /\ broadcast_except(room[c], c, PeerLeft(peer_id[c]))
  /\ Goto(c, After.left)
  /\ UNCHANGED <<registryVars, asked, room, peer_id, target, frames>>

gc_if_empty(c) ==
  /\ pc[c] = "gc"
  /\ LET k == code[room[c]]
     IN  registry' = IF Collectable(k) THEN [registry EXCEPT ![k] = NoRoom] ELSE registry
  /\ Goto(c, After.gc)
  /\ UNCHANGED <<code, peers, next_peer_id, asked, room, peer_id, outbox, target,
                 frames>>

----------------------------------------------------------------------------

Init ==
  /\ registry = [k \in Codes |-> NoRoom]
  /\ code = [r \in Rooms |-> NoCode]
  /\ peers = [r \in Rooms |-> {}]
  /\ next_peer_id = FirstPeerId
  /\ pc = [c \in Conns |-> "hello"]
  /\ asked = [c \in Conns |-> NoCode]
  /\ room = [c \in Conns |-> NoRoom]
  /\ peer_id = [c \in Conns |-> 0]
  /\ outbox = [c \in Conns |-> <<>>]
  /\ target = [c \in Conns |-> NoTarget]
  /\ frames = <<>>

(* What a client does: the first frame, further frames, closing. *)
ClientStep(c) ==
  \/ NoHello(c)
  \/ \E v \in ClientVersions : HelloWrongVersion(c, v)
  \/ \E v \in ClientVersions, k \in Codes :
       HelloRoomFound(c, v, k) \/ HelloNoRoom(c, v, k)
  \/ \E to \in 1 .. next_peer_id, b \in Bodies : ReceiveSignal(c, to, b)
  \/ SocketClosed(c)

(* What the task does without waiting for its client. *)
TaskStep(c) ==
  \/ get_or_resurrect(c)
  \/ mint_peer_id(c)
  \/ SendWelcome(c)
  \/ Insert(c)
  \/ AnnounceJoined(c)
  \/ \E claimed \in 0 .. next_peer_id : ForwardSignal(c, claimed)
  \/ RemovePeer(c)
  \/ AnnounceLeft(c)
  \/ gc_if_empty(c)

Next ==
  \/ \E k \in Codes, r \in Rooms : create_room(k, r)
  \/ \E c \in Conns : ClientStep(c) \/ TaskStep(c)

Spec == Init /\ [][Next]_vars

(* tokio polls every ready task, and no lock is held across an await. *)
FairSpec == Spec /\ \A c \in Conns : WF_vars(TaskStep(c))

----------------------------------------------------------------------------
(* Properties.                                                              *)

Labels == {"hello", "resurrect", "mint", "welcome", "insert", "announce", "serving",
           "forward", "remove", "left", "gc", "gone"}

(* Every variable has its type. *)
TypeOK ==
  /\ registry \in [Codes -> Rooms \cup {NoRoom}]
  /\ code \in [Rooms -> Codes \cup {NoCode}]
  /\ peers \in [Rooms -> SUBSET Conns]
  /\ next_peer_id \in PeerIds
  /\ pc \in [Conns -> Labels]
  /\ asked \in [Conns -> Codes \cup {NoCode}]
  /\ room \in [Conns -> Rooms \cup {NoRoom}]
  /\ peer_id \in [Conns -> Nat]
  /\ outbox \in [Conns -> Seq(Messages)]
  /\ target \in [Conns -> [to : Conns, body : Bodies] \cup {NoTarget}]
  /\ frames \in Seq([by : Conns, body : Bodies])

Got(c, m) == \E i \in 1 .. Len(outbox[c]) : outbox[c][i] = m

ListedInWelcome(c, id) ==
  \E i \in 1 .. Len(outbox[c]) :
    outbox[c][i].type = "welcome" /\ id \in outbox[c][i].peers

(* What the client behind c has been told: d is in the room and has not left. *)
Knows(c, d) ==
  /\ Got(c, PeerJoined(peer_id[d])) \/ ListedInWelcome(c, peer_id[d])
  /\ ~ Got(c, PeerLeft(peer_id[d]))

Serving(c) == pc[c] \in {"serving", "forward"}

(* The Welcome that gives a client its own id precedes everything else the  *)
(* relay sends it, whatever other tasks broadcast or forward meanwhile      *)
(* (ws.rs sends it before the peer is put in the room).                     *)
WelcomeFirst ==
  \A c \in Conns : \A i \in 1 .. Len(outbox[c]) :
    outbox[c][i].type = "welcome" <=> i = 1 /\ room[c] # NoRoom

(* Of two clients being served in one room, at least one knows the other,   *)
(* even when their joins overlapped: whoever announced itself last did so   *)
(* while the other was registered.                                          *)
OneKnowsTheOther ==
  \A c, d \in Conns :
    /\ c # d /\ room[c] = room[d]
    /\ Serving(c) /\ Serving(d)
    => Knows(c, d) \/ Knows(d, c)

(* A client that stays in the room and was told by PeerJoined of a peer is  *)
(* told when it has gone.  (Of one that it was only told of by its Welcome  *)
(* it may never be: that peer can leave before the client is registered.)   *)
JoinIsRetracted ==
  \A c, d \in Conns :
    /\ Serving(c)
    /\ Got(c, PeerJoined(peer_id[d]))
    /\ pc[d] \in {"gc", "gone"}
    => Got(c, PeerLeft(peer_id[d]))

(* After PeerLeft a client hears nothing more about or from that peer: no   *)
(* signal of it, that its task looked a target up for, arrives late.        *)
SilentAfterLeft ==
  \A c \in Conns : \A i, j \in 1 .. Len(outbox[c]) :
    i < j /\ outbox[c][i].type = "peer_left" =>
      LET id == outbox[c][i].peer
          m == outbox[c][j]
      IN  /\ m.type = "signal" => m.from # id
          /\ m.type \in {"peer_joined", "peer_left"} => m.peer # id

(* A forwarded signal carries what the connection it names did send, and    *)
(* that one joined the recipient's own room under the same code: rooms do   *)
(* not leak into one another, `from' cannot be chosen by the sender, and no *)
(* body is delivered as somebody else's.                                    *)
SignalsStayInRoom ==
  \A c \in Conns : \A i \in 1 .. Len(outbox[c]) :
    outbox[c][i].type = "signal" =>
      \E d \in Conns :
        /\ peer_id[d] = outbox[c][i].from
        /\ \E n \in 1 .. Len(frames) :
             frames[n] = [by |-> d, body |-> outbox[c][i].body]
        /\ room[d] = room[c] /\ asked[d] = asked[c]

(* No room leaks: when everyone who was registered in a room has left and   *)
(* the registry still lists it, some task has yet to run gc_if_empty on it. *)
WasJoined(r) ==
  \E c \in Conns : room[c] = r /\ pc[c] \in {"left", "gc", "gone"}

AwaitsGc(r) == \E c \in Conns : room[c] = r /\ pc[c] \in {"left", "gc"}

NoLeakedRoom ==
  \A k \in Codes :
    registry[k] # NoRoom /\ peers[registry[k]] = {} /\ WasJoined(registry[k])
      => AwaitsGc(registry[k])

(* A room everyone has left is eventually gone from the registry, unless *)
(* someone joins it again first.                                         *)
EmptyRoomsAreCollected ==
  \A k \in Codes, r \in Rooms :
    (registry[k] = r /\ peers[r] = {} /\ WasJoined(r))
      ~> (registry[k] # r \/ peers[r] # {})

----------------------------------------------------------------------------
(* What the relay promises its clients: Signalling, where a connection is   *)
(* admitted when its Welcome is sent and joined once it is announced.       *)

StageOf == [hello |-> "out", resurrect |-> "out", mint |-> "out", welcome |-> "out",
            insert |-> "admitted", announce |-> "registered",
            serving |-> "joined", forward |-> "joined", remove |-> "joined",
            left |-> "departing", gc |-> "gone", gone |-> "gone"]

Admitted == {c \in Conns : pc[c] \notin {"hello", "resurrect", "mint", "welcome"}}

Promise == INSTANCE Signalling
             WITH stage <- [c \in Conns |-> StageOf[pc[c]]],
                  home <- [c \in Conns |-> IF c \in Admitted THEN room[c] ELSE NoRoom],
                  id <- [c \in Conns |-> IF c \in Admitted THEN peer_id[c] ELSE 0]

(* Registry, locks, lookups and rooms made and collected do not show: every *)
(* behaviour of the relay is one that Signalling allows.                    *)
ImplementsSignalling == Promise!Spec

----------------------------------------------------------------------------
(* What the comments and tests of the repository claim, and the relay does  *)
(* not give when joins and leaves overlap.                                  *)

(* protocol/src/lib.rs:67 "Server notifies all peers when someone joins":   *)
(* every client being served knows every other one in its room.             *)
EveryoneIsNotifiedOfJoins ==
  \A c, d \in Conns :
    c # d /\ room[c] = room[d] /\ Serving(c) /\ Serving(d) => Knows(c, d)

(* ws.rs:123-126 "resurrect it with the same code so the in-flight session  *)
(* survives": clients served under the same code are in the same room.      *)
SameCodeSameRoom ==
  \A c, d \in Conns :
    Serving(c) /\ Serving(d) /\ asked[c] = asked[d] => room[c] = room[d]

=============================================================================
