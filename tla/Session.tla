------------------------------ MODULE Session ------------------------------
(***************************************************************************)
(* One publisher and one receiver page meeting through the relay: the      *)
(* reconnect loop and the per-subscriber PeerConnections of the sender     *)
(* (publisher_worker in crates/sender/src/lib.rs, publisher.rs) and the    *)
(* script of crates/relay/assets/receiver.html, on top of what Signalling  *)
(* promises about the relay.                                               *)
(*                                                                         *)
(* A PeerConnection of the publisher is named <<p, s, n>>: the n-th one    *)
(* that connection p made for subscriber s.  The receiver makes one per    *)
(* offer it accepts and so names its own after the offer.                  *)
(*                                                                         *)
(* The page makes a WebSocket session after another; a session is a member *)
(* of Subscribers, a connection of the publisher one of Publishers, used   *)
(* never twice.                                                            *)
(*                                                                         *)
(* Abstracted: the ICE candidates (whether a pair that agreed on an offer  *)
(* gets a path is left open), media, backoff times.  Outside the model:    *)
(* webrtc-rs failing to build an offer; a room collected while both sides  *)
(* are away, which the publisher resurrects and for which the receiver     *)
(* simply asks again every 1.5 s.                                          *)
(***************************************************************************)
EXTENDS Naturals, FiniteSets, Sequences

CONSTANTS
  Publishers,    \* the WebSockets publisher_worker opens
  Subscribers,   \* the WebSockets the page opens
  MaxSockets,    \* bound: how many of them are opened in all
  MaxTroubles,   \* bound: WebSockets cut and PeerConnections upset by the network
  Room, NoRoom, NoConn, NoPc

Conns == Publishers \cup Subscribers

(* At most two per subscriber: see AtMostTwoOffers. *)
Pcs == Publishers \X Subscribers \X (1 .. 3)

Offer(x)  == [kind |-> "offer", pc |-> x]
Answer(x) == [kind |-> "answer", pc |-> x]
Bodies == {Offer(x) : x \in Pcs} \cup {Answer(x) : x \in Pcs}

ASSUME SessionAssumption ==
  /\ Publishers \cap Subscribers = {} /\ Subscribers # {}
  /\ NoConn \notin Conns
  /\ NoPc \notin Pcs
  /\ MaxSockets \in Nat /\ MaxTroubles \in Nat

VARIABLES
  (* The relay, as Signalling has it. *)
  stage, home, id, outbox,
  (* The sockets. *)
  link,       \* "unused", "up", "closing" (close() called), "cut" or "over"
  sent,       \* frames written by the client that its relay task has not read
  seen,       \* how much of the outbox the client has read
  (* The publisher. *)
  todo,       \* subscribers handle_inbound has yet to connect to
  pcs,        \* State.pcs: per connection, subscriber -> PeerConnection
  made,       \* how many PeerConnections connect_to_subscriber made for each
  pc,         \* "none", "offered", "stable", "closed" or "lost" (State dropped)
  answered,   \* the answer a stable one was given
  (* The page. *)
  rpc,        \* `pc' of each session
  answering,  \* its offer handler is between resetSession and the answer
  health,     \* "fine", "stuck" (disconnected for 4 s) or "failed"
  armed,      \* recoveryScheduled
  shown,      \* the session whose stream is in the video element
  troubles    \* what the network has done so far

relayVars == <<stage, home, id, outbox>>
socketVars == <<link, sent, seen>>
publisherVars == <<todo, pcs, made, pc, answered>>
pageVars == <<rpc, answering, health, armed, shown, troubles>>
vars == <<stage, home, id, outbox, link, sent, seen, todo, pcs, made, pc,
          answered, rpc, answering, health, armed, shown, troubles>>

S == INSTANCE Signalling WITH Rooms <- {Room}

Upset == troubles < MaxTroubles /\ troubles' = troubles + 1

----------------------------------------------------------------------------
(* The relay's side of a socket.                                            *)

ConnWithId(i) == {c \in Conns : id[c] = i}

NextId == 1 + Cardinality({c \in Conns : id[c] # 0})

(* get_or_resurrect gives the publisher a room whatever happened, the page *)
(* gets in when there is one.  (Also when that one is empty; a page alone   *)
(* there waits for the publisher as one outside does here.)                 *)
RoomOpen(c) == c \in Publishers \/ S!Members(Room) # {}

RelayAdmits(c) ==
  /\ link[c] \in {"up", "cut", "closing"}
  /\ RoomOpen(c)
  /\ S!Admit(c, Room, NextId)
  /\ UNCHANGED <<socketVars, publisherVars, pageVars>>

RelayRegisters(c) ==
  /\ S!Register(c)
  /\ UNCHANGED <<socketVars, publisherVars, pageVars>>

RelayAnnounces(c) ==
  /\ S!AnnounceJoined(c)
  /\ UNCHANGED <<socketVars, publisherVars, pageVars>>

(* Mutant: signals of a peer are forwarded before it is announced. *)
RelayForwards_Unannounced(c) ==
  /\ stage[c] \in {"registered", "joined"}
  /\ sent[c] # <<>>
  /\ \E d \in ConnWithId(Head(sent[c]).to) :
       S!Send(d, S!Signal(id[c], id[d], Head(sent[c]).body))
  /\ sent' = [sent EXCEPT ![c] = Tail(@)]
  /\ UNCHANGED <<stage, home, id, link, seen, publisherVars, pageVars>>

(* forward_to drops what is addressed to someone not in the room (any more). *)
RelayForwards(c) ==
  /\ stage[c] = "joined"
  /\ sent[c] # <<>>
  /\ LET m == Head(sent[c])
     IN  \/ \E d \in ConnWithId(m.to) : S!Forward(c, d, m.body)
         \/ /\ ConnWithId(m.to) \cap S!Members(Room) = {}
            /\ UNCHANGED relayVars
  /\ sent' = [sent EXCEPT ![c] = Tail(@)]
  /\ UNCHANGED <<link, seen, publisherVars, pageVars>>

(* The relay reads the Close frame, after everything sent before it, or *)
(* finds the socket broken.                                             *)
RelayNoticesEnd(c) ==
  /\ link[c] \in {"closing", "cut", "over"}
  /\ link[c] = "closing" => sent[c] = <<>>
  /\ S!Depart(c)
  /\ sent' = [sent EXCEPT ![c] = <<>>]
  /\ UNCHANGED <<link, seen, publisherVars, pageVars>>

RelayAnnouncesEnd(c) ==
  /\ S!AnnounceLeft(c)
  /\ UNCHANGED <<socketVars, publisherVars, pageVars>>

NetworkCuts(c) ==
  /\ link[c] = "up"
  /\ Upset
  /\ link' = [link EXCEPT ![c] = "cut"]
  /\ UNCHANGED <<relayVars, sent, seen, publisherVars, rpc, answering, health, armed,
                 shown>>

----------------------------------------------------------------------------
(* What a client does with its socket.                                      *)

(* The messages a client does something about.  What leaves it as it is     *)
(* (Error for the page, announcements of the other side's kind for the      *)
(* publisher, anything about other subscribers for the page) is passed over *)
(* with the next one that does not.                                         *)
About(m) == {c \in Conns : id[c] = m.peer}

Matters(c, m) ==
  \/ m.type = "signal"
  \/ m.type = "peer_left" /\ c \in Subscribers /\ About(m) \subseteq Publishers
  \/ c \in Publishers /\ \/ m.type \in {"peer_joined", "peer_left"}
                            /\ About(m) \subseteq Subscribers
                         \/ m.type = "welcome" /\ \E s \in Subscribers : id[s] \in m.peers

Unread(c) == {i \in seen[c] + 1 .. Len(outbox[c]) : Matters(c, outbox[c][i])}

SocketsLeft == Cardinality({c \in Conns : link[c] # "unused"}) < MaxSockets

(* Which of the unused ones is opened next is immaterial. *)
Open(kind, c) ==
  /\ SocketsLeft
  /\ \E d \in kind : link[d] = "unused"
  /\ c = CHOOSE d \in kind : link[d] = "unused"
  /\ link' = [link EXCEPT ![c] = "up"]

(* Read the next message and let the client's handler have it. *)
Read(c, Handle(_)) ==
  /\ link[c] = "up"
  /\ LET new == Unread(c)
     IN  \E i \in new :
           /\ \A j \in new : i <= j
           /\ seen' = [seen EXCEPT ![c] = i]
           /\ Handle(outbox[c][i])

(* What is written to a socket that is not up goes nowhere. *)
Write(c, to, b) ==
  sent' = IF link[c] = "up" THEN [sent EXCEPT ![c] = Append(@, [to |-> to, body |-> b])]
                            ELSE sent

----------------------------------------------------------------------------
(* publisher_worker and handle_inbound.                                     *)

PublisherConnects(p) ==
  /\ \A q \in Publishers : link[q] \in {"unused", "over"}
  /\ Open(Publishers, p)
  /\ UNCHANGED <<relayVars, sent, seen, publisherVars, pageVars>>

(* The read fails, or WS_READ_TIMEOUT passes: the pump ends, and with its   *)
(* State go the PeerConnections, dropped but not closed.                    *)
PublisherLosesRelay(p) ==
  /\ link[p] = "cut"
  /\ link' = [link EXCEPT ![p] = "over"]
  /\ todo' = [todo EXCEPT ![p] = {}]
  /\ pcs' = [pcs EXCEPT ![p] = [s \in Subscribers |-> NoPc]]
  /\ pc' = [x \in Pcs |-> IF x[1] = p /\ pc[x] \in {"offered", "stable"} THEN "lost"
                                                                        ELSE pc[x]]
  /\ UNCHANGED <<relayVars, sent, seen, made, answered, pageVars>>

(* Mutant: each retry takes the PeerConnection before it. *)
connect_to_subscriber_OneBehind(p, s) ==
  /\ link[p] \in {"up", "cut"}
  /\ s \in todo[p]
  /\ todo' = [todo EXCEPT ![p] = @ \ {s}]
  /\ made' = [made EXCEPT ![p][s] = @ + 1]
  /\ pcs' = [pcs EXCEPT ![p][s] = <<p, s, made[p][s]>>]
  /\ Write(p, id[s], Offer(pcs'[p][s]))
  /\ UNCHANGED <<relayVars, link, seen, pc, answered, pageVars>>

(* The new PeerConnection replaces what the map held for this subscriber, *)
(* without closing it.                                                    *)
connect_to_subscriber(p, s) ==
  /\ link[p] \in {"up", "cut"}
  /\ s \in todo[p]
  /\ todo' = [todo EXCEPT ![p] = @ \ {s}]
  /\ made' = [made EXCEPT ![p][s] = @ + 1]
  /\ LET x == <<p, s, made[p][s] + 1>>
     IN  /\ pc' = [pc EXCEPT ![x] = "offered"]
         /\ pcs' = [pcs EXCEPT ![p][s] = x]
         /\ Write(p, id[s], Offer(x))
  /\ UNCHANGED <<relayVars, link, seen, answered, pageVars>>

(* Take the subscriber's PeerConnection out of the map and close it. *)
Discard(p, s) ==
  /\ pcs' = [pcs EXCEPT ![p][s] = NoPc]
  /\ pc' = IF pcs[p][s] = NoPc THEN pc ELSE [pc EXCEPT ![pcs[p][s]] = "closed"]

SubscribersIn(ids) == {s \in Subscribers : id[s] \in ids}

OnWelcomeOrJoined(p, m) ==
  /\ m.type \in {"welcome", "peer_joined"}
  /\ todo' = [todo EXCEPT ![p] =
                SubscribersIn(IF m.type = "welcome" THEN m.peers ELSE {m.peer})]
  /\ UNCHANGED <<pcs, pc, answered>>

(* Mutant: a negotiation under way is let finish. *)
OnPeerLeft_WhenStable(p, m) ==
  /\ m.type = "peer_left"
  /\ \E s \in About(m) :
       IF pcs[p][s] # NoPc /\ pc[pcs[p][s]] = "offered" THEN UNCHANGED <<pcs, pc>>
                                                         ELSE Discard(p, s)
  /\ UNCHANGED <<todo, answered>>

OnPeerLeft(p, m) ==
  /\ m.type = "peer_left"
  /\ \E s \in About(m) : Discard(p, s)
  /\ UNCHANGED <<todo, answered>>

(* Mutant: an answer that cannot be applied starts the negotiation afresh. *)
OnAnswer_Retries(p, m) ==
  /\ m.type = "signal"
  /\ \E s \in ConnWithId(m.from) :
       LET x == pcs[p][s]
       IN  IF x # NoPc /\ pc[x] = "offered"
           THEN /\ pc' = [pc EXCEPT ![x] = "stable"]
                /\ answered' = [answered EXCEPT ![x] = m.body.pc]
                /\ UNCHANGED todo
           ELSE todo' = [todo EXCEPT ![p] = @ \cup {s}] /\ UNCHANGED <<pc, answered>>
  /\ UNCHANGED pcs

(* set_remote_description takes one answer, and only for an open offer; it  *)
(* does not tell which offer the answer was made for.                       *)
OnAnswer(p, m) ==
  /\ m.type = "signal"
  /\ \E s \in ConnWithId(m.from) :
       LET x == pcs[p][s]
       IN  IF x # NoPc /\ pc[x] = "offered"
           THEN /\ pc' = [pc EXCEPT ![x] = "stable"]
                /\ answered' = [answered EXCEPT ![x] = m.body.pc]
           ELSE UNCHANGED <<pc, answered>>
  /\ UNCHANGED <<todo, pcs>>

(* One message at a time: it is awaited before the next read. *)
handle_inbound(p) ==
  /\ todo[p] = {}
  /\ LET Handle(m) == OnWelcomeOrJoined(p, m) \/ OnPeerLeft(p, m) \/ OnAnswer(p, m)
     IN  Read(p, Handle)
  /\ UNCHANGED <<relayVars, link, sent, made, pageVars>>

----------------------------------------------------------------------------
(* Pairs of PeerConnections.                                                *)

Agree(x) == pc[x] = "stable" /\ answered[x] = x

(* The receiver's end can never connect: the publisher's is closed, has     *)
(* taken another answer, or is no longer the one answers are given to.      *)
Hopeless(x) ==
  \/ pc[x] = "closed"
  \/ pc[x] = "stable" /\ answered[x] # x
  \/ pc[x] = "offered" /\ pcs[x[1]][x[2]] # x

(* The publisher's end reports Failed.  The handler removes by subscriber. *)
PublisherPcFails(p, s, n) ==
  LET x == <<p, s, n>>
  IN  /\ pc[x] = "stable" /\ link[p] \in {"up", "cut"}
      /\ ~ Agree(x) \/ rpc[s] # x \/ health[s] = "failed"
      /\ Discard(p, s)
      /\ UNCHANGED <<relayVars, socketVars, todo, made, answered, pageVars>>

----------------------------------------------------------------------------
(* The page: scheduleRecovery and connect().                                *)

Live(s) == link[s] \in {"up", "cut"}

(* Without `armed' already set, close the socket and arm the timer; the *)
(* PeerConnection stays as it is.                                       *)
scheduleRecovery(s) ==
  IF armed THEN UNCHANGED <<armed, link>>
  ELSE /\ armed' = TRUE
       /\ link' = [link EXCEPT ![s] = IF Live(s) THEN "closing" ELSE @]

(* The timer fires. *)
PageConnects(s) ==
  /\ armed
  /\ Open(Subscribers, s)
  /\ armed' = FALSE
  /\ UNCHANGED <<relayVars, sent, seen, publisherVars, rpc, answering, health,
                 shown, troubles>>

(* Mutant: a socket the page did not close itself is not replaced. *)
PageOnClose_Quiet(s) ==
  /\ link[s] \in {"cut", "closing"}
  /\ link' = [link EXCEPT ![s] = "over"]
  /\ UNCHANGED <<relayVars, sent, seen, publisherVars, rpc, answering, health, armed,
                 shown, troubles>>

(* ws.onclose, however the socket ended: after our own close() too, and *)
(* then perhaps long after the timer has fired.                         *)
PageOnClose(s) ==
  /\ link[s] \in {"cut", "closing"}
  /\ link' = [link EXCEPT ![s] = "over"]
  /\ armed' = TRUE
  /\ UNCHANGED <<relayVars, sent, seen, publisherVars, rpc, answering, health,
                 shown, troubles>>

----------------------------------------------------------------------------
(* The page: ws.onmessage.                                                  *)

From(s) == IF rpc[s] = NoPc THEN NoConn ELSE rpc[s][1]    \* publisherId

(* Mutant: nothing is torn down before the answer is out. *)
OnPublisherLeft_Answered(s, m) ==
  /\ m.type = "peer_left"
  /\ IF From(s) \in About(m) /\ ~ answering[s]
     THEN /\ rpc' = [rpc EXCEPT ![s] = NoPc]
          /\ health' = [health EXCEPT ![s] = "fine"]
          /\ shown' = NoConn
     ELSE UNCHANGED <<rpc, health, shown>>
  /\ UNCHANGED answering

(* Only the publisher's own end matters, not that of an earlier one. *)
OnPublisherLeft(s, m) ==
  /\ m.type = "peer_left"
  /\ IF From(s) \in About(m)
     THEN /\ rpc' = [rpc EXCEPT ![s] = NoPc]
          /\ answering' = [answering EXCEPT ![s] = FALSE]
          /\ health' = [health EXCEPT ![s] = "fine"]
          /\ shown' = NoConn
     ELSE UNCHANGED <<rpc, answering, health, shown>>

(* Mutant: ensurePc alone, without the resetSession before it. *)
OnOffer_KeepsPc(s, m) ==
  /\ m.type = "signal"
  /\ rpc' = [rpc EXCEPT ![s] = IF @ = NoPc THEN m.body.pc ELSE @]
  /\ answering' = [answering EXCEPT ![s] = TRUE]
  /\ shown' = s
  /\ UNCHANGED health

(* resetSession, ensurePc, and the first await.  What an earlier offer's *)
(* handler awaits on the closed PeerConnection never comes.              *)
OnOffer(s, m) ==
  /\ m.type = "signal"
  /\ rpc' = [rpc EXCEPT ![s] = m.body.pc]
  /\ answering' = [answering EXCEPT ![s] = TRUE]
  /\ health' = [health EXCEPT ![s] = "fine"]
  /\ shown' = s

onmessage(s) ==
  /\ LET Handle(m) == OnPublisherLeft(s, m) \/ OnOffer(s, m)
     IN  Read(s, Handle)
  /\ UNCHANGED <<relayVars, link, sent, publisherVars, armed, troubles>>

PageAnswers(s) ==
  /\ answering[s]
  /\ answering' = [answering EXCEPT ![s] = FALSE]
  /\ Write(s, id[rpc[s][1]], Answer(rpc[s]))
  /\ UNCHANGED <<relayVars, link, seen, publisherVars, rpc, health, armed, shown,
                 troubles>>

----------------------------------------------------------------------------
(* The page: pc.onconnectionstatechange.  Only resetSession closes a        *)
(* PeerConnection, so that of a session given up still reports.             *)

Trouble(s, h) ==
  /\ health' = [health EXCEPT ![s] = h]
  /\ scheduleRecovery(s)
  /\ UNCHANGED <<relayVars, sent, seen, publisherVars, rpc, answering, shown>>

(* `disconnected', and still so after 4.5 s, when the path has gone or the  *)
(* other end has.                                                           *)
PageStuck(s) ==
  /\ health[s] = "fine" /\ rpc[s] # NoPc /\ answered[rpc[s]] = rpc[s]
  /\ Upset
  /\ Trouble(s, "stuck")

(* `failed', because of the network. *)
PathFails(s) ==
  /\ health[s] # "failed" /\ rpc[s] # NoPc /\ ~ answering[s]
  /\ Upset
  /\ Trouble(s, "failed")

(* `failed', because the other end will never answer. *)
PageFails(s) ==
  /\ health[s] # "failed" /\ rpc[s] # NoPc /\ ~ answering[s]
  /\ Hopeless(rpc[s])
  /\ UNCHANGED troubles
  /\ Trouble(s, "failed")

----------------------------------------------------------------------------

Init ==
  /\ S!Init
  /\ LET first == CHOOSE s \in Subscribers : TRUE    \* the page loads: connect()
     IN  link = [c \in Conns |-> IF c = first THEN "up" ELSE "unused"]
  /\ sent = [c \in Conns |-> <<>>]
  /\ seen = [c \in Conns |-> 0]
  /\ todo = [p \in Publishers |-> {}]
  /\ pcs = [p \in Publishers |-> [s \in Subscribers |-> NoPc]]
  /\ made = [p \in Publishers |-> [s \in Subscribers |-> 0]]
  /\ pc = [x \in Pcs |-> "none"]
  /\ answered = [x \in Pcs |-> NoPc]
  /\ rpc = [s \in Subscribers |-> NoPc]
  /\ answering = [s \in Subscribers |-> FALSE]
  /\ health = [s \in Subscribers |-> "fine"]
  /\ armed = FALSE
  /\ shown = NoConn
  /\ troubles = 0

RelayStep(c) ==
  \/ RelayAdmits(c) \/ RelayRegisters(c) \/ RelayAnnounces(c) \/ RelayForwards(c)
  \/ RelayNoticesEnd(c) \/ RelayAnnouncesEnd(c)

PublisherStep(p) ==
  \/ PublisherConnects(p) \/ PublisherLosesRelay(p)
  \/ handle_inbound(p)
  \/ \E s \in Subscribers : connect_to_subscriber(p, s)

PageStep(s) ==
  \/ PageConnects(s) \/ PageOnClose(s)
  \/ onmessage(s) \/ PageAnswers(s)

Next ==
  \/ \E c \in Conns : RelayStep(c) \/ NetworkCuts(c)
  \/ \E p \in Publishers : PublisherStep(p)
  \/ \E p \in Publishers, s \in Subscribers, n \in 1 .. 3 : PublisherPcFails(p, s, n)
  \/ \E s \in Subscribers : PageStep(s) \/ PageStuck(s) \/ PageFails(s) \/ PathFails(s)

Spec == Init /\ [][Next]_vars

(* Tasks, timers and the browser's event loop run; a WebSocket that is cut   *)
(* is noticed by both ends (keepalive pings, read timeout); ICE gives up on  *)
(* a pair that cannot connect.  Nothing else has to happen.                  *)
FairSpec ==
  /\ Spec
  /\ \A c \in Conns : WF_vars(RelayStep(c))
  /\ \A p \in Publishers : WF_vars(PublisherStep(p))
  /\ \A s \in Subscribers : WF_vars(PageStep(s))
  /\ \A s \in Subscribers : WF_vars(PageFails(s))

----------------------------------------------------------------------------
(* Properties.                                                              *)

Frames == [to : Nat, body : Bodies]

TypeOK ==
  /\ link \in [Conns -> {"unused", "up", "cut", "closing", "over"}]
  /\ sent \in [Conns -> Seq(Frames)]
  /\ seen \in [Conns -> Nat]
  /\ todo \in [Publishers -> SUBSET Subscribers]
  /\ pcs \in [Publishers -> [Subscribers -> Pcs \cup {NoPc}]]
  /\ made \in [Publishers -> [Subscribers -> Nat]]
  /\ pc \in [Pcs -> {"none", "offered", "stable", "closed", "lost"}]
  /\ answered \in [Pcs -> Pcs \cup {NoPc}]
  /\ rpc \in [Subscribers -> Pcs \cup {NoPc}]
  /\ answering \in [Subscribers -> BOOLEAN]
  /\ health \in [Subscribers -> {"fine", "stuck", "failed"}]
  /\ armed \in BOOLEAN
  /\ shown \in Subscribers \cup {NoConn}
  /\ troubles \in 0 .. MaxTroubles

Told(p, s) ==
  \E i \in 1 .. Len(outbox[p]) :
    \/ outbox[p][i] = S!PeerJoined(id[s])
    \/ outbox[p][i].type = "welcome" /\ id[s] \in outbox[p][i].peers

CaughtUp(c) == link[c] = "up" /\ Unread(c) = {}

(* An answered PeerConnection is the one the map holds for its subscriber:  *)
(* so a Failed one, which is removed by the subscriber's id, takes no other *)
(* with it.  It holds because the relay announces a subscriber before it    *)
(* forwards anything of it.                                                 *)
AnsweredIsCurrent ==
  \A p \in Publishers, s \in Subscribers, n \in 1 .. 3 :
    pc[<<p, s, n>>] = "stable" => pcs[p][s] = <<p, s, n>>

(* A subscriber is offered at most two PeerConnections by one publisher     *)
(* connection: one because the Welcome listed it, one because it was        *)
(* announced.                                                               *)
AtMostTwoOffers == \A p \in Publishers, s \in Subscribers : made[p][s] <= 2

(* Once it has read that a publisher left, a session has nothing to do with *)
(* it any more, whatever was still on its way.                              *)
DepartedPublisherIsDropped ==
  \A s \in Subscribers, p \in Publishers :
    (\E i \in 1 .. seen[s] : outbox[s][i] = S!PeerLeft(id[p])) => From(s) # p

(* A publisher that was told by PeerJoined of a subscriber and has read     *)
(* everything keeps no PeerConnection for it once it has gone.  (For one    *)
(* that was only listed in its Welcome it may, until ICE fails.)            *)
AnnouncedLeaversAreClosed ==
  \A p \in Publishers, s \in Subscribers :
    /\ CaughtUp(p) /\ stage[s] = "gone"
    /\ \E i \in 1 .. Len(outbox[p]) : outbox[p][i] = S!PeerJoined(id[s])
    => pcs[p][s] = NoPc

(* The page always has a socket that has not ended or a retry under way. *)
PageNeverGivesUp ==
  armed \/ \E s \in Subscribers : link[s] \in {"up", "cut", "closing"}

(* The picture comes back: when a publisher connection that stays up has    *)
(* been told of a session of the page that is up, the video element         *)
(* eventually shows a session that is connected to it, however many         *)
(* recoveries that takes, unless an offer of an earlier publisher           *)
(* connection arrives after that of a later one (see SelfHeals), or the     *)
(* model runs out of sockets.                                               *)
Streaming(s) == rpc[s] # NoPc /\ Agree(rpc[s]) /\ ~ answering[s] /\ health[s] = "fine"

OutOfSockets ==
  armed /\ (~ SocketsLeft \/ \A s \in Subscribers : link[s] # "unused")

OfferedTo(p) == link[p] = "up" /\ \E s \in Subscribers : link[s] = "up" /\ Told(p, s)

PictureIsBack(p) ==
  link[p] # "up" \/ OutOfSockets \/ \E s \in Subscribers : shown = s /\ Streaming(s)

OvertakenOffer(s) ==
  \E i, j \in 1 .. Len(outbox[s]) :
    /\ i < j
    /\ outbox[s][i].type = "signal" /\ outbox[s][j].type = "signal"
    /\ outbox[s][i].from > outbox[s][j].from

PictureComesBack ==
  \A p \in Publishers :
    OfferedTo(p) ~> PictureIsBack(p) \/ \E s \in Subscribers : OvertakenOffer(s)

----------------------------------------------------------------------------
(* What the comments of the page claim.                                     *)

(* receiver.html:212-213 "the whole session is torn down and a fresh        *)
(* connect() runs": the page never has two sessions up.                     *)
OneLiveSession == Cardinality({s \in Subscribers : link[s] = "up"}) <= 1

(* receiver.html:248-249 "Resetting on every fresh offer makes the receiver *)
(* self-heal regardless of message ordering": also when the offer of the    *)
(* old publisher connection comes after that of the new one.                *)
SelfHeals == \A p \in Publishers : OfferedTo(p) ~> PictureIsBack(p)
=============================================================================
