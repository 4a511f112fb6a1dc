----------------------------- MODULE GuiProofs -----------------------------
(***************************************************************************)
(* Proofs about GuiApp, for any number of clicks and of runs: TypeOK,      *)
(* NoRunIsLost, StoriesDoNotMix and PageKnowsWhatRuns are invariants of    *)
(* Spec, and a run starts only when the one before has told all it had to  *)
(* tell.                                                                   *)
(*                                                                         *)
(* Runs follow one another because the page starts one only when nothing   *)
(* is under way, and it knows that from the events it was sent.  So the    *)
(* inductive invariant IInv says of each run how far its story has got     *)
(* (Stories), which part of the latest one is on its way to the page       *)
(* (Pending), and that isRunning stands for one thing (Turn).              *)
(***************************************************************************)
EXTENDS GuiApp, FiniteSetTheorems, SequenceTheorems, TLAPS

----------------------------------------------------------------------------
(* The inductive invariant.                                                 *)

Begun == <<Started>>
Whole == <<Started, Stopped>>

(* Of the runs up to the latest each has a story, of all but the latest it  *)
(* was told to its end.                                                     *)
Stories ==
  \A p \in Runs :
    /\ p > started => listener[p] = "none" /\ told[p] = <<>> /\ emitted[p] = 0
    /\ p <= started => /\ listener[p] \in {"running", "finished"}
                       /\ \/ told[p] = Begun /\ emitted[p] \in {0, 1}
                          \/ told[p] = Whole /\ emitted[p] \in {0, 1, 2}
    /\ p < started => emitted[p] = 2

First == [run |-> started, event |-> Started]
Last == [run |-> started, event |-> Stopped]

(* What is on its way to the page is the end of what the latest run told.   *)
Pending ==
  \/ inbox = <<>>
  \/ started # 0 /\ emitted[started] = 1 /\ inbox = <<First>>
  \/ started # 0 /\ emitted[started] = 2 /\ inbox = <<First, Last>>
  \/ started # 0 /\ emitted[started] = 2 /\ inbox = <<Last>>

Heard == started # 0 => emitted[started] = 2 /\ inbox = <<>>

(* One thing is under way when the page says that it runs, else none.       *)
Turn ==
  \/ isRunning = FALSE /\ starts = 0 /\ failures = 0 /\ lock # "start" /\ Heard
  \/ isRunning = TRUE /\ starts = 1 /\ failures = 0 /\ lock # "start" /\ Heard
  \/ isRunning = TRUE /\ starts = 0 /\ failures = 1 /\ lock # "start" /\ Heard
  \/ isRunning = TRUE /\ starts = 0 /\ failures = 0 /\ lock = "start" /\ Heard
  \/ isRunning = TRUE /\ starts = 0 /\ failures = 0 /\ lock # "start" /\ ~Heard

Held ==
  /\ lock = "stop" <=> awaited # None
  /\ lock = "start" => slot = None

IInv == TypeOK /\ Stories /\ Pending /\ Turn /\ Held /\ NoRunIsLost

----------------------------------------------------------------------------
LEMMA TupleFacts ==
  ASSUME NEW a, NEW b
  PROVE  /\ Append(<<>>, a) = <<a>> /\ Append(<<a>>, b) = <<a, b>>
         /\ Head(<<a>>) = a /\ Tail(<<a>>) = <<>>
         /\ Head(<<a, b>>) = a /\ Tail(<<a, b>>) = <<b>>
<1>1. Append(<<>>, a) = <<a>>
  OBVIOUS
<1>4. Append(<<a>>, b) = <<a, b>>
  <2>. DEFINE s == Append(<<a>>, b)
              t == <<a, b>>
  <2>1. <<a>> \in Seq({a, b}) /\ Len(<<a>>) = 1 /\ <<a>>[1] = a
    OBVIOUS
  <2>2. s \in Seq({a, b}) /\ Len(s) = 2 /\ s[1] = a /\ s[2] = b
    BY <2>1, AppendProperties
  <2>3. t \in Seq({a, b}) /\ Len(t) = 2 /\ t[1] = a /\ t[2] = b
    OBVIOUS
  <2>. HIDE DEF s, t
  <2>4. \A i \in 1 .. Len(s) : s[i] = t[i]
    BY <2>2, <2>3
  <2>5. s = t
    BY <2>2, <2>3, <2>4, SeqEqual
  <2>. QED  BY <2>5 DEF s, t
<1>2. Head(<<a>>) = a /\ Tail(<<a>>) = <<>>
  OBVIOUS
<1>3. Head(<<a, b>>) = a /\ Tail(<<a, b>>) = <<b>>
  OBVIOUS
<1>. QED  BY <1>1, <1>2, <1>3, <1>4

LEMMA StoryFacts ==
  /\ Started # Stopped
  /\ Len(Begun) = 1 /\ Begun[1] = Started
  /\ Len(Whole) = 2 /\ Whole[1] = Started /\ Whole[2] = Stopped
  /\ Append(Begun, Stopped) = Whole
  /\ Begun # Whole
<1>1. Started # Stopped
  BY DEF Started, Stopped
<1>2. Len(Begun) = 1 /\ Begun[1] = Started
  BY DEF Begun
<1>3. Len(Whole) = 2 /\ Whole[1] = Started /\ Whole[2] = Stopped
  BY DEF Whole
<1>4. Append(Begun, Stopped) = Whole
  BY TupleFacts DEF Begun, Whole
<1>. QED  BY <1>1, <1>2, <1>3, <1>4

LEMMA StoppedFacts ==
  ASSUME NEW p
  PROVE  /\ P(p)!HasStopped(Whole)
         /\ P(p)!Started = Started /\ P(p)!Stopped = Stopped
  BY StoryFacts DEF P!HasStopped, P!Started, P!Stopped, Started, Stopped

LEMMA TailInbox ==
  ASSUME NEW S, NEW q \in Seq(S), q # <<>>
  PROVE  Tail(q) \in Seq(S)
  OBVIOUS

(* Values of the parts of the invariant for one run. *)
LEMMA LatestFacts ==
  ASSUME TypeOK, Stories
  PROVE  /\ started \in 0 .. MaxRuns /\ MaxRuns \in Nat
         /\ started # 0 => /\ started \in Runs
                           /\ listener[started] \in {"running", "finished"}
                           /\ emitted[started] \in {0, 1, 2}
         /\ \A p \in Runs : p > started \/ p <= started
         /\ \A p \in Runs : p <= started => p < started \/ p = started
         /\ \A p \in Runs : listener[p] # "none" => p <= started
         /\ \A p \in Runs : p < started => p <= started /\ told[p] = Whole /\ emitted[p] = 2
<1>1. started \in 0 .. MaxRuns /\ MaxRuns \in Nat
  BY GuiAssumption DEF TypeOK
<1>2. started # 0 => started \in Runs /\ started <= started
  BY <1>1 DEF Runs
<1>3. \A p \in Runs : /\ p > started \/ p <= started
                      /\ p <= started => p < started \/ p = started
                      /\ p < started => p <= started
  BY <1>1 DEF Runs
<1>4. started # 0 => /\ listener[started] \in {"running", "finished"}
                     /\ emitted[started] \in {0, 1, 2}
  BY <1>2 DEF Stories
<1>5. \A p \in Runs : listener[p] # "none" => p <= started
  BY <1>3 DEF Stories
<1>6. \A p \in Runs : p < started => told[p] = Whole /\ emitted[p] = 2
  BY <1>3 DEF Stories
<1>. QED  BY <1>1, <1>2, <1>3, <1>4, <1>5, <1>6

(* An event of no other run than the latest is on its way, and its Stopped is the last. *)
LEMMA InboxFacts ==
  ASSUME TypeOK, Pending
  PROVE  /\ \A i \in 1 .. Len(inbox) : inbox[i].run = started
         /\ (\E i \in 1 .. Len(inbox) : inbox[i] = Last) <=> inbox # <<>> /\ emitted[started] = 2
         /\ inbox # <<>> => started # 0
<1>1. First # Last /\ First.run = started /\ Last.run = started
  BY StoryFacts DEF First, Last
<1>2. CASE inbox = <<>>
  BY <1>2
<1>3. CASE started # 0 /\ emitted[started] = 1 /\ inbox = <<First>>
  <2>1. Len(inbox) = 1 /\ inbox[1] = First
    BY <1>3
  <2>. QED  BY <1>1, <1>3, <2>1
<1>4. CASE started # 0 /\ emitted[started] = 2 /\ inbox = <<First, Last>>
  <2>1. Len(inbox) = 2 /\ inbox[1] = First /\ inbox[2] = Last
    BY <1>4
  <2>. QED  BY <1>1, <1>4, <2>1
<1>5. CASE started # 0 /\ emitted[started] = 2 /\ inbox = <<Last>>
  <2>1. Len(inbox) = 1 /\ inbox[1] = Last
    BY <1>5
  <2>. QED  BY <1>1, <1>5, <2>1
<1>. QED  BY <1>2, <1>3, <1>4, <1>5 DEF Pending

LEMMA Initially == Init => IInv
<1>. SUFFICES ASSUME Init PROVE IInv
  OBVIOUS
<1>1. TypeOK
  <2>1. 0 \in 0 .. MaxClicks /\ 0 \in 0 .. MaxRuns
    BY GuiAssumption
  <2>2. inbox \in Seq([run : Runs, event : Events])
    BY DEF Init
  <2>3. told \in [Runs -> Seq(Events)]
    BY DEF Init
  <2>. QED  BY <2>1, <2>2, <2>3 DEF Init, TypeOK
<1>2. Stories /\ Pending /\ Turn /\ Held /\ NoRunIsLost
  BY DEF Init, Stories, Pending, Turn, Heard, Held, NoRunIsLost, None, Runs
<1>. QED  BY <1>1, <1>2 DEF IInv

----------------------------------------------------------------------------
(* The page.                                                                *)

LEMMA UserStep ==
  ASSUME IInv, UserConnects \/ UserDisconnects \/ UserChangesSource
  PROVE  IInv'
<1>. USE DEF UserConnects, UserDisconnects, UserChangesSource, startPipeline, pageLeaves, Clicks,
         lockVars, runVars
<1>1. TypeOK'
  <2>1. clicks' \in 0 .. MaxClicks
    BY GuiAssumption DEF IInv, TypeOK
  <2>2. starts' \in Nat /\ stops' \in Nat
    BY DEF IInv, TypeOK
  <2>3. isRunning' \in BOOLEAN /\ pendingRestart' \in BOOLEAN /\ canDisconnect' \in BOOLEAN
    BY DEF IInv, TypeOK
  <2>. QED  BY <2>1, <2>2, <2>3 DEF IInv, TypeOK
<1>2. Turn'
  BY DEF IInv, Turn, Heard
<1>3. Stories' /\ Pending' /\ Held' /\ NoRunIsLost'
  BY DEF IInv, Stories, Pending, First, Last, Held, NoRunIsLost
<1>. QED  BY <1>1, <1>2, <1>3 DEF IInv

LEMMA PageHearsStep ==
  ASSUME IInv, PageHears
  PROVE  IInv'
<1>. USE DEF PageHears, startPipeline, lockVars, runVars
<1>1. started # 0 /\ First.event = Started /\ Last.event = Stopped /\ Started # Stopped
  BY StoryFacts, InboxFacts DEF IInv, First, Last
<1>2. \/ inbox = <<First>> /\ emitted[started] = 1 /\ inbox' = <<>> /\ Head(inbox) = First
      \/ inbox = <<First, Last>> /\ emitted[started] = 2 /\ inbox' = <<Last>> /\ Head(inbox) = First
      \/ inbox = <<Last>> /\ emitted[started] = 2 /\ inbox' = <<>> /\ Head(inbox) = Last
  <2>1. inbox # <<>> /\ inbox' = Tail(inbox)
    OBVIOUS
  <2>2. CASE inbox = <<First>> /\ emitted[started] = 1
    BY <2>1, <2>2, TupleFacts
  <2>3. CASE inbox = <<First, Last>> /\ emitted[started] = 2
    BY <2>1, <2>3, TupleFacts
  <2>4. CASE inbox = <<Last>> /\ emitted[started] = 2
    BY <2>1, <2>4, TupleFacts
  <2>. QED  BY <2>1, <2>2, <2>3, <2>4 DEF IInv, Pending
<1>3. Pending' /\ Stories' /\ Held' /\ NoRunIsLost'
  BY <1>1, <1>2 DEF IInv, Stories, Pending, First, Last, Held, NoRunIsLost
<1>4. Turn'
  <2>1. isRunning = TRUE /\ starts = 0 /\ failures = 0 /\ lock # "start"
    BY <1>1, <1>2 DEF IInv, Turn, Heard
  <2>2. CASE Head(inbox) = First
    <3>1. UNCHANGED <<isRunning, starts, failures, lock>>
      BY <1>1, <2>2
    <3>2. ~Heard'
      BY <1>1, <1>2, <2>2 DEF Heard
    <3>. QED  BY <2>1, <3>1, <3>2 DEF Turn
  <2>3. CASE Head(inbox) = Last
    <3>1. Heard'
      BY <1>1, <1>2, <2>3 DEF Heard
    <3>2. \/ isRunning' = TRUE /\ starts' = starts + 1
          \/ isRunning' = FALSE /\ starts' = starts
      BY <1>1, <2>3
    <3>. QED  BY <2>1, <3>1, <3>2 DEF Turn
  <2>. QED  BY <1>2, <2>2, <2>3
<1>5. TypeOK'
  <2>1. inbox' \in Seq([run : Runs, event : Events])
    BY TailInbox DEF IInv, TypeOK
  <2>2. isRunning' \in BOOLEAN /\ pendingRestart' \in BOOLEAN /\ canDisconnect' \in BOOLEAN
    BY DEF IInv, TypeOK
  <2>3. starts' \in Nat
    BY DEF IInv, TypeOK
  <2>. QED  BY <2>1, <2>2, <2>3 DEF IInv, TypeOK
<1>. QED  BY <1>3, <1>4, <1>5 DEF IInv

LEMMA PageSeesFailureStep ==
  ASSUME IInv, PageSeesFailure
  PROVE  IInv'
<1>. USE DEF PageSeesFailure, lockVars, runVars
<1>1. TypeOK'
  <2>1. failures' \in Nat
    BY DEF IInv, TypeOK
  <2>. QED  BY <2>1 DEF IInv, TypeOK
<1>2. Turn'
  BY DEF IInv, Turn, Heard
<1>3. Stories' /\ Pending' /\ Held' /\ NoRunIsLost'
  BY DEF IInv, Stories, Pending, First, Last, Held, NoRunIsLost
<1>. QED  BY <1>1, <1>2, <1>3 DEF IInv

----------------------------------------------------------------------------
(* The commands.                                                            *)

LEMMA StartStep ==
  ASSUME IInv, StartBegins \/ StartFails
  PROVE  IInv'
<1>. USE DEF StartBegins, StartFails, lockVars, runVars, pageVars
<1>1. TypeOK'
  <2>1. starts' \in Nat /\ failures' \in Nat
    BY DEF IInv, TypeOK
  <2>2. slot' \in Runs \cup {None} /\ lock' \in {"free", "start", "stop"}
    BY DEF IInv, TypeOK
  <2>. QED  BY <2>1, <2>2 DEF IInv, TypeOK
<1>2. Turn'
  BY DEF IInv, Turn, Heard
<1>3. Held'
  BY DEF IInv, Held
<1>4. Stories' /\ Pending'
  BY DEF IInv, Stories, Pending, First, Last
<1>5. NoRunIsLost'
  BY DEF IInv, NoRunIsLost, None, Runs
<1>. QED  BY <1>1, <1>2, <1>3, <1>4, <1>5 DEF IInv

(* The run before, if any, has told all, and the page has heard it. *)
LEMMA StartSucceedsStep ==
  ASSUME IInv, StartSucceeds
  PROVE  IInv'
<1>. USE DEF StartSucceeds, pageVars
<1>1. PICK p \in Runs : /\ p = started + 1 /\ started' = p /\ slot' = p
                        /\ listener' = [listener EXCEPT ![p] = "running"]
                        /\ told' = [told EXCEPT ![p] = <<Started>>]
                        /\ P(p)!Start
  OBVIOUS
<1>2. /\ UNCHANGED <<isRunning, inbox, failures, starts, emitted, asked, awaited, closing, window>>
      /\ lock = "start" /\ lock' = "free" /\ slot = None
  BY DEF IInv, Held
<1>3. started \in Nat /\ p \in 1 .. MaxRuns
  BY LatestFacts DEF IInv, Runs
<1>4. isRunning = TRUE /\ starts = 0 /\ failures = 0 /\ Heard
  BY <1>2 DEF IInv, Turn
<1>5. TypeOK'
  <2>1. started' \in 0 .. MaxRuns
    BY <1>1, <1>3
  <2>2. listener' \in [Runs -> {"none", "running", "finished"}] /\ slot' \in Runs \cup {None}
    BY <1>1 DEF IInv, TypeOK
  <2>3. told' \in [Runs -> Seq(Events)]
    <3>1. <<Started>> \in Seq(Events)
      BY DEF Events
    <3>. QED  BY <1>1, <3>1 DEF IInv, TypeOK
  <2>. QED  BY <1>2, <2>1, <2>2, <2>3 DEF IInv, TypeOK
<1>6. inbox = <<>>
  BY <1>4, InboxFacts DEF Heard, IInv
<1>7. Pending'
  BY <1>2, <1>6 DEF Pending
<1>8. told[p] = <<>> /\ emitted[p] = 0 /\ told'[p] = Begun /\ listener'[p] = "running"
  <2>1. P(p)!Start => told[p] = <<>>
    BY DEF P!Start
  <2>2. p > started
    BY <1>1, <1>3
  <2>3. emitted[p] = 0
    BY <2>2 DEF IInv, Stories
  <2>4. told[p] = <<>>
    BY <1>1, <2>1
  <2>. QED  BY <1>1, <2>3, <2>4 DEF IInv, TypeOK, Begun, Runs
<1>9. Stories'
  <2>1. ASSUME NEW q \in Runs
        PROVE  /\ q > p => listener'[q] = "none" /\ told'[q] = <<>> /\ emitted[q] = 0
               /\ q <= p => /\ listener'[q] \in {"running", "finished"}
                            /\ \/ told'[q] = Begun /\ emitted[q] \in {0, 1}
                               \/ told'[q] = Whole /\ emitted[q] \in {0, 1, 2}
               /\ q < p => emitted[q] = 2
    <3>1. CASE q = p
      BY <1>3, <1>8, <3>1
    <3>2. CASE q # p
      <4>1. listener'[q] = listener[q] /\ told'[q] = told[q]
        BY <1>1, <3>2 DEF IInv, TypeOK
      <4>2. q > p => q > started
        BY <1>1, <1>3 DEF Runs
      <4>3. q <= p => q <= started
        BY <1>1, <1>3, <3>2 DEF Runs
      <4>4. q < p => q < started \/ (q = started /\ started # 0)
        BY <1>1, <1>3 DEF Runs
      <4>. QED  BY <1>4, <4>1, <4>2, <4>3, <4>4 DEF IInv, Stories, Heard
    <3>. QED  BY <3>1, <3>2
  <2>. QED  BY <1>1, <1>2, <2>1 DEF Stories
<1>10. Turn'
  <2>1. ~Heard'
    BY <1>1, <1>2, <1>3, <1>8 DEF Heard
  <2>. QED  BY <1>2, <1>4, <2>1 DEF Turn
<1>11. Held'
  BY <1>2 DEF IInv, Held
<1>12. NoRunIsLost'
  BY <1>1, <1>2 DEF IInv, NoRunIsLost, TypeOK, None, Runs
<1>. QED  BY <1>5, <1>7, <1>9, <1>10, <1>11, <1>12 DEF IInv

LEMMA StopStep ==
  ASSUME IInv, StopBegins \/ StopReturns
  PROVE  IInv'
<1>. USE DEF StopBegins, StopReturns, Ask, runVars, pageVars
<1>1. TypeOK'
  <2>1. stops' \in Nat
    BY DEF IInv, TypeOK
  <2>2. /\ slot' \in Runs \cup {None} /\ awaited' \in Runs \cup {None}
        /\ lock' \in {"free", "start", "stop"}
    BY DEF IInv, TypeOK
  <2>3. asked' \in [Runs -> BOOLEAN]
    BY DEF IInv, TypeOK
  <2>. QED  BY <2>1, <2>2, <2>3 DEF IInv, TypeOK
<1>2. Turn'
  BY DEF IInv, Turn, Heard
<1>3. Held'
  BY DEF IInv, Held, TypeOK, None
<1>4. Stories' /\ Pending'
  BY DEF IInv, Stories, Pending, First, Last
<1>5. NoRunIsLost'
  BY DEF IInv, NoRunIsLost, Held, TypeOK, None, Runs
<1>. QED  BY <1>1, <1>2, <1>3, <1>4, <1>5 DEF IInv

----------------------------------------------------------------------------
(* The window.                                                              *)

LEMMA WindowStep ==
  ASSUME IInv, CloseRequested \/ Destroy \/ Restart
  PROVE  IInv'
<1>. USE DEF CloseRequested, Destroy, Restart, Ask, lockVars, runVars, pageVars
<1>1. TypeOK'
  <2>1. slot' \in Runs \cup {None} /\ closing' \subseteq Runs
    BY DEF IInv, TypeOK
  <2>2. asked' \in [Runs -> BOOLEAN] /\ window' \in {"open", "gone"}
    BY DEF IInv, TypeOK
  <2>. QED  BY <2>1, <2>2 DEF IInv, TypeOK
<1>2. Turn' /\ Held'
  BY DEF IInv, Turn, Heard, Held
<1>3. Stories' /\ Pending'
  BY DEF IInv, Stories, Pending, First, Last
<1>4. NoRunIsLost'
  BY DEF IInv, NoRunIsLost, TypeOK, None, Runs
<1>. QED  BY <1>1, <1>2, <1>3, <1>4 DEF IInv

----------------------------------------------------------------------------
(* The pipelines and their listeners.                                       *)

LEMMA PipelineStep ==
  ASSUME IInv, NEW p \in Runs, TellStopped(p) \/ WorkerEnds(p)
  PROVE  IInv'
<1>. USE DEF TellStopped, WorkerEnds, Ask, pipelineLeaves, lockVars, pageVars
<1>1. TypeOK' /\ Turn' /\ Held' /\ Pending' /\ NoRunIsLost'
  <2>1. asked' \in [Runs -> BOOLEAN]
    BY DEF IInv, TypeOK
  <2>2. told' \in [Runs -> Seq(Events)]
    <3>1. told[p] \in Seq(Events) /\ Stopped \in Events
      BY DEF IInv, TypeOK, Events
    <3>2. Append(told[p], Stopped) \in Seq(Events)
      BY <3>1, AppendProperties
    <3>. QED  BY <3>2 DEF IInv, TypeOK
  <2>3. TypeOK'
    BY <2>1, <2>2 DEF IInv, TypeOK
  <2>. QED  BY <2>3 DEF IInv, Turn, Heard, Held, Pending, First, Last, NoRunIsLost, TypeOK
<1>2. Stories'
  <2>1. CASE WorkerEnds(p)
    BY <2>1 DEF IInv, Stories
  <2>2. CASE TellStopped(p)
    <3>1. /\ told' = [told EXCEPT ![p] = Append(told[p], Stopped)]
          /\ UNCHANGED <<started, listener, emitted>>
      BY <2>2
    <3>2. listener[p] = "running" /\ ~P(p)!HasStopped(told[p])
      BY <2>2 DEF P!TellStopped, P!Tell
    <3>3. told[p] = Begun /\ emitted[p] \in {0, 1} /\ p <= started
      BY <3>2, StoppedFacts, LatestFacts DEF IInv, Stories
    <3>4. Append(told[p], Stopped) = Whole
      BY <3>3, StoryFacts
    <3>. QED  BY <3>1, <3>3, <3>4 DEF IInv, Stories
  <2>. QED  BY <2>1, <2>2
<1>. QED  BY <1>1, <1>2 DEF IInv

LEMMA EmitStep ==
  ASSUME IInv, NEW p \in Runs, Emit(p)
  PROVE  IInv'
<1>. DEFINE e == told[p][emitted[p] + 1]
<1>1. /\ listener[p] = "running" /\ ~Ends(p) /\ emitted[p] < Len(told[p])
      /\ emitted' = [emitted EXCEPT ![p] = emitted[p] + 1]
      /\ inbox' = Append(inbox, [run |-> p, event |-> e])
      /\ UNCHANGED <<pageVars, failures, starts, stops, lockVars, closing, window,
                     started, listener, told, asked>>
  BY DEF Emit
<1>. HIDE DEF e
<1>2. p = started /\ started # 0 /\ p <= started
  <2>1. p <= started
    BY <1>1, LatestFacts DEF IInv
  <2>2. p < started => told[p] = Whole /\ emitted[p] = 2
    BY LatestFacts DEF IInv
  <2>3. ~(p < started)
    BY <1>1, <2>2, StoryFacts
  <2>. QED  BY <2>1, <2>3, LatestFacts DEF IInv, Runs
<1>3. \/ emitted[p] = 0 /\ emitted'[p] = 1 /\ e = Started
      \/ emitted[p] = 1 /\ emitted'[p] = 2 /\ e = Stopped /\ told[p] = Whole
  <2>1. emitted'[p] = emitted[p] + 1 /\ emitted[p] \in Nat
    BY <1>1 DEF IInv, TypeOK
  <2>2. told[p] = Begun \/ told[p] = Whole
    BY <1>2 DEF IInv, Stories
  <2>3. emitted[p] = 0 \/ emitted[p] = 1
    BY <1>1, <2>1, <2>2, StoryFacts
  <2>. QED  BY <1>1, <2>1, <2>2, <2>3, StoryFacts DEF e
<1>4. Stories'
  <2>1. \A q \in Runs : q # p => emitted'[q] = emitted[q]
    BY <1>1 DEF IInv, TypeOK
  <2>2. told[p] = Begun \/ told[p] = Whole
    BY <1>2 DEF IInv, Stories
  <2>3. listener'[p] = listener[p] /\ told'[p] = told[p] /\ started' = started
    BY <1>1
  <2>. QED  BY <1>1, <1>2, <1>3, <2>1, <2>2 DEF IInv, Stories
<1>5. Pending'
  <2>1. CASE emitted[p] = 0
    <3>1. inbox = <<>> /\ inbox' = <<[run |-> started, event |-> Started]>>
      BY <1>1, <1>2, <1>3, <2>1 DEF IInv, Pending
    <3>. QED  BY <1>1, <1>2, <1>3, <2>1, <3>1 DEF Pending, First
  <2>2. CASE emitted[p] = 1
    <3>1. inbox' = Append(inbox, Last)
      BY <1>1, <1>2, <1>3, <2>2 DEF Last
    <3>2. inbox = <<>> \/ inbox = <<First>>
      BY <1>2, <2>2 DEF IInv, Pending
    <3>3. inbox' = <<Last>> \/ inbox' = <<First, Last>>
      BY ZenonT(40), <3>1, <3>2, TupleFacts
    <3>. QED  BY <1>1, <1>2, <1>3, <2>2, <3>3 DEF Pending, First, Last
  <2>. QED  BY <1>3, <2>1, <2>2
<1>6. Turn'
  <2>1. ~Heard
    BY <1>2, <1>3 DEF Heard
  <2>2. ~Heard'
    <3>1. inbox' # <<>>
      BY <1>1 DEF IInv, TypeOK
    <3>. QED  BY <1>1, <1>2, <3>1 DEF Heard
  <2>. QED  BY <1>1, <2>1, <2>2 DEF IInv, Turn, pageVars, lockVars
<1>7. TypeOK'
  <2>1. emitted' \in [Runs -> Nat]
    BY <1>1 DEF IInv, TypeOK
  <2>2. [run |-> p, event |-> e] \in [run : Runs, event : Events]
    BY <1>3 DEF Events
  <2>3. inbox' \in Seq([run : Runs, event : Events])
    BY <1>1, <2>2 DEF IInv, TypeOK
  <2>. QED  BY <1>1, <2>1, <2>3 DEF IInv, TypeOK, pageVars, lockVars
<1>8. Held' /\ NoRunIsLost'
  BY <1>1 DEF IInv, Held, NoRunIsLost, lockVars
<1>. QED  BY <1>4, <1>5, <1>6, <1>7, <1>8 DEF IInv

LEMMA ListenerEndsStep ==
  ASSUME IInv, NEW p \in Runs, ListenerEnds(p)
  PROVE  IInv'
<1>. USE DEF ListenerEnds, lockVars, pageVars
<1>1. TypeOK'
  <2>1. listener' \in [Runs -> {"none", "running", "finished"}]
    BY DEF IInv, TypeOK
  <2>. QED  BY <2>1 DEF IInv, TypeOK
<1>2. Turn' /\ Held' /\ Pending' /\ NoRunIsLost'
  BY DEF IInv, TypeOK, Turn, Heard, Held, Pending, First, Last, NoRunIsLost
<1>3. Stories'
  BY LatestFacts DEF IInv, Stories, TypeOK
<1>. QED  BY <1>1, <1>2, <1>3 DEF IInv

----------------------------------------------------------------------------
LEMMA StepInv == IInv /\ [Next]_vars => IInv'
<1>. SUFFICES ASSUME IInv, [Next]_vars PROVE IInv'
  OBVIOUS
<1>1. CASE Next
  BY <1>1, UserStep, PageHearsStep, PageSeesFailureStep, StartStep, StartSucceedsStep, StopStep,
     WindowStep, PipelineStep, EmitStep, ListenerEndsStep
  DEF Next, User, Page, StartReturns, Listener
<1>2. CASE UNCHANGED vars
  <2>. USE <1>2 DEF vars, pageVars, lockVars, runVars
  <2>1. TypeOK'
    BY DEF IInv, TypeOK
  <2>2. Stories' /\ Pending' /\ Turn' /\ Held' /\ NoRunIsLost'
    BY DEF IInv, Stories, Pending, First, Last, Turn, Heard, Held, NoRunIsLost
  <2>. QED  BY <2>1, <2>2 DEF IInv
<1>. QED  BY <1>1, <1>2

THEOREM Invariance == Spec => []IInv
  BY Initially, StepInv, PTL DEF Spec

(* Every variable keeps its type. *)
THEOREM TypesAreRight == Spec => []TypeOK
<1>1. IInv => TypeOK
  BY DEF IInv
<1>. QED  BY <1>1, Invariance, PTL

(* No pipeline gets out of reach: stop_pipeline or the window handler finds  *)
(* it in the slot, or a task waits for its end already.                      *)
THEOREM RunsAreNotLost == Spec => []NoRunIsLost
<1>1. IInv => NoRunIsLost
  BY DEF IInv
<1>. QED  BY <1>1, Invariance, PTL

(* What reaches the page is the story of the latest run. *)
THEOREM StoriesStayApart == Spec => []StoriesDoNotMix
<1>1. IInv => StoriesDoNotMix
  BY InboxFacts DEF IInv, StoriesDoNotMix
<1>. QED  BY <1>1, Invariance, PTL

(* When a pipeline runs, the one before it has said all it has to say, and   *)
(* what owns it hears nothing more: two never stream side by side.           *)
THEOREM RunsFollowOneAnother == Spec => [](\A p \in Runs : p < started => Ends(p))
<1>1. IInv => \A p \in Runs : p < started => Ends(p)
  BY LatestFacts, StoryFacts DEF IInv, Ends
<1>. QED  BY <1>1, Invariance, PTL

(* Of the runs only the latest may have something that the page has not heard. *)
LEMMA UnheardRuns ==
  ASSUME IInv
  PROVE  {p \in Runs : Unheard(p)} = IF Heard THEN {} ELSE {started}
<1>1. \A p \in Runs : p > started => ~Unheard(p)
  BY DEF IInv, Stories, Unheard
<1>2. \A p \in Runs : ([run |-> p, event |-> Stopped] \in {inbox[i] : i \in 1 .. Len(inbox)})
                        <=> p = started /\ inbox # <<>> /\ emitted[started] = 2
  BY InboxFacts DEF IInv, Last
<1>3. ASSUME NEW p \in Runs, p < started PROVE ~Unheard(p)
  <2>1. p <= started /\ p # started /\ told[p] = Whole /\ emitted[p] = 2
    BY <1>3, LatestFacts DEF IInv, Runs
  <2>. QED  BY <1>2, <2>1, StoryFacts DEF Unheard
<1>4. ASSUME started # 0 PROVE Unheard(started) <=> ~Heard
  <2>1. /\ started \in Runs /\ started <= started /\ listener[started] # "none"
        /\ \/ told[started] = Begun /\ emitted[started] \in {0, 1}
           \/ told[started] = Whole /\ emitted[started] \in {0, 1, 2}
    BY <1>4, LatestFacts DEF IInv, Stories, Runs
  <2>. QED  BY <1>2, <1>4, <2>1, StoryFacts DEF Unheard, Heard
<1>5. \A p \in Runs : p = started => started # 0
  BY DEF Runs
<1>. QED  BY <1>1, <1>3, <1>4, <1>5, LatestFacts DEF IInv, Heard

(* Whatever was clicked when, and in which order commands got the lock,      *)
(* isRunning stands for exactly one thing under way; a start refused as      *)
(* "already running" has met a run that the page rightly takes for ended.    *)
THEOREM ThePageKnows == Spec => []PageKnowsWhatRuns
<1>1. ASSUME IInv PROVE PageKnowsWhatRuns
  <2>1. CASE Heard
    <3>1. Cardinality({p \in Runs : Unheard(p)}) = 0
      BY <1>1, <2>1, UnheardRuns, FS_EmptySet
    <3>. QED  BY <1>1, <2>1, <3>1 DEF IInv, Turn, PageKnowsWhatRuns
  <2>2. CASE ~Heard
    <3>1. Cardinality({p \in Runs : Unheard(p)}) = 1
      BY <1>1, <2>2, UnheardRuns, FS_Singleton
    <3>. QED  BY <1>1, <2>2, <3>1 DEF IInv, Turn, PageKnowsWhatRuns
  <2>. QED  BY <2>1, <2>2
<1>. QED  BY <1>1, Invariance, PTL
=============================================================================
