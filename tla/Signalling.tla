----------------------------- MODULE Signalling -----------------------------
(***************************************************************************)
(* What the relay promises its clients, without saying how: no registry,   *)
(* no locks, no room lookup.  Relay implements it, Session is built on it. *)
(*                                                                         *)
(* A connection is admitted to a room with a Welcome that lists who is     *)
(* registered then, is registered, announced, and from then on may signal  *)
(* the others; it departs, and that is announced.  The promise is in what  *)
(* may come between those steps, and what may not.                         *)
(***************************************************************************)
EXTENDS Protocol

CONSTANTS Conns, Rooms, NoRoom

VARIABLES
  stage,    \* how far each connection has got
  home,     \* the room it was admitted to
  id,       \* the peer id its Welcome gave it
  outbox    \* everything ever sent to it

vars == <<stage, home, id, outbox>>

Stages == {"out", "admitted", "registered", "joined", "departing", "gone"}

(* Registered in the room: listed to newcomers, reached by announcements. *)
Members(r) == {c \in Conns : home[c] = r /\ stage[c] \in {"registered", "joined"}}

Send(c, m) == outbox' = [outbox EXCEPT ![c] = Append(@, m)]

Announce(c, m) ==
  outbox' = [d \in Conns |-> IF d \in Members(home[c]) \ {c} THEN Append(outbox[d], m)
                                                             ELSE outbox[d]]

Move(c, from, to) ==
  /\ stage[c] = from
  /\ stage' = [stage EXCEPT ![c] = to]

(* Turned away, with or without being told why. *)
Refuse(c) ==
  /\ Move(c, "out", "gone")
  /\ \/ UNCHANGED outbox
     \/ \E reason \in {"version_mismatch", "room_not_found"} : Send(c, Error(reason))
  /\ UNCHANGED <<home, id>>

(* i is any id nobody had before. *)
Admit(c, r, i) ==
  /\ Move(c, "out", "admitted")
  /\ i \in PeerIds \ {id[d] : d \in Conns}
  /\ home' = [home EXCEPT ![c] = r]
  /\ id' = [id EXCEPT ![c] = i]
  /\ Send(c, Welcome(i, {id[d] : d \in Members(r)}))

Register(c) ==
  /\ Move(c, "admitted", "registered")
  /\ UNCHANGED <<home, id, outbox>>

AnnounceJoined(c) ==
  /\ Move(c, "registered", "joined")
  /\ Announce(c, PeerJoined(id[c]))
  /\ UNCHANGED <<home, id>>

(* A signal reaches its target even if that one has departed meanwhile. *)
Forward(c, d, b) ==
  /\ stage[c] = "joined"
  /\ stage[d] \notin {"out", "admitted"} /\ home[d] = home[c]
  /\ Send(d, Signal(id[c], id[d], b))
  /\ UNCHANGED <<stage, home, id>>

Depart(c) ==
  /\ Move(c, "joined", "departing")
  /\ UNCHANGED <<home, id, outbox>>

AnnounceLeft(c) ==
  /\ Move(c, "departing", "gone")
  /\ Announce(c, PeerLeft(id[c]))
  /\ UNCHANGED <<home, id>>

Init ==
  /\ stage = [c \in Conns |-> "out"]
  /\ home = [c \in Conns |-> NoRoom]
  /\ id = [c \in Conns |-> 0]
  /\ outbox = [c \in Conns |-> <<>>]

Next ==
  \E c \in Conns :
    \/ Refuse(c)
    \/ \E r \in Rooms : Admit(c, r, id'[c])
    \/ Register(c)
    \/ AnnounceJoined(c)
    \/ \E d \in Conns, b \in Bodies : Forward(c, d, b)
    \/ Depart(c)
    \/ AnnounceLeft(c)

Spec == Init /\ [][Next]_vars
=============================================================================
