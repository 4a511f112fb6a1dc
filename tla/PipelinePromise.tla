-------------------------- MODULE PipelinePromise --------------------------
(***************************************************************************)
(* What a Pipeline (crates/sender/src/lib.rs) promises to whoever started  *)
(* it: the events next_event() yields, in which order, and that a request  *)
(* to stop is answered.  Workers, channels and encoders do not appear.     *)
(*                                                                         *)
(* The heartbeats (Publishing) are left out.                               *)
(*                                                                         *)
(* Stopped is not the last event: the publisher is not waited for and may  *)
(* report a connection afterwards.  Only the end of the events (None) is   *)
(* final.                                                                  *)
(***************************************************************************)
EXTENDS Naturals, Sequences

CONSTANT Numbers   \* attempts counted: Nat, or as many as TLC needs

VARIABLES
  told,    \* the events sent so far
  asked,   \* the shutdown flag
  owned,   \* the Pipeline handle exists
  over     \* no sender of events is left: next_event() will return None

vars == <<told, asked, owned, over>>

Started          == [kind |-> "started"]
Connected(n)     == [kind |-> "connected", attempt |-> n]
Disconnected(b)  == [kind |-> "disconnected", will_retry |-> b]
Error            == [kind |-> "error"]
Stopped          == [kind |-> "stopped"]

PublisherEvents ==
  {Connected(n) : n \in Numbers} \cup {Disconnected(b) : b \in BOOLEAN} \cup {Error}

HasStopped(s) == \E i \in 1 .. Len(s) : s[i] = Stopped

(* Where the last thing is that was told about the publisher. *)
Last(s) == {i \in 1 .. Len(s) : s[i] # Stopped /\ \A j \in i + 1 .. Len(s) : s[j] = Stopped}

Latest == told[CHOOSE i \in Last(told) : TRUE]

MayFollow(e, f) ==
  \/ f.kind = "connected" /\ (e = Started \/ e = Disconnected(TRUE))
  \/ f.kind = "disconnected" /\ e.kind = "connected"
  \/ f = Error /\ e = Disconnected(FALSE)

(* Attempts are numbered upwards.                                          *)
Counts(f) ==
  f.kind = "connected" =>
    \A i \in 1 .. Len(told) :
      told[i].kind = "connected" => told[i].attempt < f.attempt

Tell(f) ==
  /\ owned /\ ~over
  /\ told' = Append(told, f)
  /\ over' \in BOOLEAN
  /\ over' => HasStopped(told')

Start ==
  /\ told = <<>>
  /\ told' = <<Started>>
  /\ owned' = TRUE
  /\ UNCHANGED <<asked, over>>

PublisherTells ==
  /\ told # <<>>
  /\ \E f \in PublisherEvents :
       MayFollow(Latest, f) /\ Counts(f) /\ Tell(f)
  /\ UNCHANGED <<asked, owned>>

TellStopped ==
  /\ asked
  /\ ~HasStopped(told)
  /\ Tell(Stopped)
  /\ UNCHANGED <<asked, owned>>

(* By stop(), or because a worker ended. *)
Ask ==
  /\ ~asked
  /\ asked' = TRUE
  /\ UNCHANGED <<told, owned, over>>

Drop ==
  /\ owned
  /\ owned' = FALSE
  /\ UNCHANGED <<told, asked, over>>

End ==
  /\ ~over
  /\ owned => HasStopped(told)
  /\ over' = TRUE
  /\ UNCHANGED <<told, asked, owned>>

Init == told = <<>> /\ asked = FALSE /\ owned = FALSE /\ over = FALSE

Next == Start \/ PublisherTells \/ TellStopped \/ Ask \/ Drop \/ End

(* Whoever asks, and keeps reading events, is told Stopped. *)
Answered == asked /\ owned ~> HasStopped(told) \/ ~owned

Spec == Init /\ [][Next]_vars /\ Answered
=============================================================================
