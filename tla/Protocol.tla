------------------------------ MODULE Protocol ------------------------------
(***************************************************************************)
(* The wire protocol (crates/protocol/src/lib.rs), as far as the relay and *)
(* its clients tell messages apart: what the relay puts on a client's      *)
(* socket.  Sdp and IceCandidate are both "signal": the relay stamps       *)
(* `from' and leaves the body alone.                                       *)
(***************************************************************************)
EXTENDS Naturals, Sequences

CONSTANT Bodies    \* what an Sdp or IceCandidate frame carries

PROTOCOL_VERSION == 2

PeerIds == Nat \ {0}

Welcome(id, ids)  == [type |-> "welcome", peer |-> id, peers |-> ids]
PeerJoined(id)    == [type |-> "peer_joined", peer |-> id]
PeerLeft(id)      == [type |-> "peer_left", peer |-> id]
Signal(id, to, b) == [type |-> "signal", from |-> id, to |-> to, body |-> b]
Error(reason)     == [type |-> "error", reason |-> reason]

Messages ==
       [type : {"welcome"}, peer : PeerIds, peers : SUBSET PeerIds]
  \cup [type : {"peer_joined", "peer_left"}, peer : PeerIds]
  \cup [type : {"signal"}, from : Nat, to : PeerIds, body : Bodies]
  \cup [type : {"error"}, reason : {"version_mismatch", "room_not_found"}]
=============================================================================
