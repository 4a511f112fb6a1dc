------------------------------- MODULE GuiApp -------------------------------
(***************************************************************************)
(* The desktop application: the page (crates/sender-app/ui/index.html),    *)
(* the commands and the window handler behind it (src/main.rs) and the     *)
(* pipelines it runs one after the other, of which it knows only what      *)
(* PipelinePromise says.                                                   *)
(*                                                                         *)
(* Commands run in tasks of their own and take one lock, in an order that  *)
(* need not be the order of the clicks.  Events reach the page in order;   *)
(* the results of commands reach it at any time, and only failures matter. *)
(*                                                                         *)
(* Abstracted: settings, the lists of sources, the download of an update,  *)
(* status texts and with them the events about the publisher, which the    *)
(* page only shows.                                                        *)
(***************************************************************************)
EXTENDS Naturals, Sequences, FiniteSets

CONSTANTS
  MaxRuns,    \* bound: pipelines started
  MaxClicks   \* bound: what the user does on the page

ASSUME GuiAssumption == MaxRuns \in Nat /\ MaxClicks \in Nat

Runs == 1 .. MaxRuns
None == 0

VARIABLES
  (* The page. *)
  isRunning,
  pendingRestart,
  canDisconnect,  \* the button is enabled
  inbox,          \* events emitted and not yet handled
  failures,       \* how many start_pipeline have failed, unnoticed so far
  clicks,
  (* Commands and the state they share. *)
  starts,         \* start_pipeline waiting for the lock
  stops,          \* stop_pipeline waiting for the lock
  lock,           \* "free", or the command that holds it
  awaited,        \* the run whose listener that stop_pipeline awaits
  slot,           \* the RunningPipeline in AppState
  closing,        \* runs awaited by the task that destroys the window
  window,         \* "open" or "gone", and the process with it
  (* Each run: its pipeline and the listener task that owns it. *)
  started,        \* how many there have been
  listener,
  told, asked,    \* as in PipelinePromise
  emitted         \* how many of those events the listener has emitted

pageVars == <<isRunning, pendingRestart, canDisconnect, clicks>>
lockVars == <<lock, awaited, slot>>
runVars == <<started, listener, told, asked, emitted>>
vars == <<pageVars, inbox, failures, starts, stops, lockVars, closing, window, runVars>>

P(p) == INSTANCE PipelinePromise WITH
          Numbers <- {}, told <- told[p], asked <- asked[p],
          owned <- listener[p] = "running", over <- listener[p] = "finished"

Started == [kind |-> "started"]
Stopped == [kind |-> "stopped"]
Events == {Started, Stopped}

----------------------------------------------------------------------------
(* The page.                                                                *)

startPipeline ==
  /\ isRunning' = TRUE
  /\ canDisconnect' = TRUE
  /\ starts' = starts + 1

pageLeaves == <<inbox, failures, lockVars, closing, window, runVars>>

Clicks == clicks < MaxClicks /\ clicks' = clicks + 1

(* Mutant: the page says it runs only when start_pipeline has returned.     *)
UserConnects_TooEarly ==
  /\ Clicks
  /\ ~isRunning
  /\ starts' = starts + 1
  /\ canDisconnect' = TRUE
  /\ UNCHANGED <<isRunning, pendingRestart, stops, pageLeaves>>

(* The button is enabled as long as nothing runs.                           *)
UserConnects ==
  /\ Clicks
  /\ ~isRunning
  /\ startPipeline
  /\ UNCHANGED <<pendingRestart, stops, pageLeaves>>

UserDisconnects ==
  /\ Clicks
  /\ canDisconnect
  /\ pendingRestart' = FALSE
  /\ canDisconnect' = FALSE
  /\ stops' = stops + 1
  /\ UNCHANGED <<isRunning, starts, pageLeaves>>

UserChangesSource ==
  /\ Clicks
  /\ isRunning
  /\ pendingRestart' = TRUE
  /\ stops' = stops + 1
  /\ UNCHANGED <<isRunning, canDisconnect, starts, pageLeaves>>

PageHears ==
  /\ inbox # <<>>
  /\ inbox' = Tail(inbox)
  /\ IF Head(inbox).event = Stopped
     THEN IF pendingRestart
          THEN startPipeline /\ pendingRestart' = FALSE
          ELSE /\ isRunning' = FALSE /\ canDisconnect' = FALSE
               /\ UNCHANGED <<pendingRestart, starts>>
     ELSE UNCHANGED <<isRunning, pendingRestart, canDisconnect, starts>>
  /\ UNCHANGED <<clicks, failures, stops, lockVars, closing, window, runVars>>

PageSeesFailure ==
  /\ failures > 0
  /\ failures' = failures - 1
  /\ isRunning' = FALSE /\ canDisconnect' = FALSE
  /\ UNCHANGED <<pendingRestart, clicks, inbox, starts, stops, lockVars, closing, window, runVars>>

----------------------------------------------------------------------------
(* start_pipeline.                                                          *)

StartFails ==
  /\ lock = "start"
  /\ lock' = "free"
  /\ failures' = failures + 1
  /\ UNCHANGED <<pageVars, inbox, starts, stops, awaited, slot, closing, window, runVars>>

(* A run whose listener has ended is reaped, any other refuses the command. *)
StartBegins ==
  /\ starts > 0 /\ lock = "free"
  /\ starts' = starts - 1
  /\ IF slot = None \/ listener[slot] = "finished"
     THEN slot' = None /\ lock' = "start" /\ UNCHANGED failures
     ELSE failures' = failures + 1 /\ UNCHANGED <<slot, lock>>
  /\ UNCHANGED <<pageVars, inbox, stops, awaited, closing, window, runVars>>

StartSucceeds ==
  /\ lock = "start"
  /\ \E p \in Runs :
       /\ p = started + 1
       /\ started' = p
       /\ listener' = [listener EXCEPT ![p] = "running"]
       /\ told' = [told EXCEPT ![p] = <<Started>>]
       /\ UNCHANGED asked
       /\ P(p)!Start
       /\ slot' = p
  /\ lock' = "free"
  /\ UNCHANGED <<pageVars, inbox, failures, starts, stops, awaited, closing, window, emitted>>

----------------------------------------------------------------------------
(* stop_pipeline.                                                           *)

Ask(p) == asked' = [asked EXCEPT ![p] = TRUE]

(* Mutant: it drops the listener.                                           *)
StopBegins_Aborts ==
  /\ stops > 0 /\ lock = "free"
  /\ stops' = stops - 1
  /\ IF slot = None THEN UNCHANGED <<lock, awaited, slot, asked, listener>>
     ELSE /\ lock' = "stop" /\ awaited' = slot /\ slot' = None
          /\ Ask(slot)
          /\ listener' = [listener EXCEPT ![slot] = "finished"]
  /\ UNCHANGED <<pageVars, inbox, failures, starts, closing, window, started, told, emitted>>

(* Mutant: it takes the pipeline and does not tell it to stop.              *)
StopBegins_Forgets ==
  /\ stops > 0 /\ lock = "free"
  /\ stops' = stops - 1
  /\ IF slot = None THEN UNCHANGED <<lock, awaited, slot>>
     ELSE lock' = "stop" /\ awaited' = slot /\ slot' = None
  /\ UNCHANGED <<pageVars, inbox, failures, starts, closing, window, runVars>>

StopBegins ==
  /\ stops > 0 /\ lock = "free"
  /\ stops' = stops - 1
  /\ IF slot = None THEN UNCHANGED <<lock, awaited, slot, asked>>
     ELSE lock' = "stop" /\ awaited' = slot /\ slot' = None /\ Ask(slot)
  /\ UNCHANGED <<pageVars, inbox, failures, starts, closing, window,
                 started, listener, told, emitted>>

StopReturns ==
  /\ lock = "stop"
  /\ listener[awaited] = "finished"
  /\ lock' = "free" /\ awaited' = None
  /\ UNCHANGED <<pageVars, inbox, failures, starts, stops, slot, closing, window, runVars>>

----------------------------------------------------------------------------
(* The window.  The process ends with it.                                   *)

(* Mutant: the pipeline is not told to stop.                                *)
CloseRequested_Forgets ==
  /\ IF lock # "free" \/ slot = None
     THEN window' = "gone" /\ UNCHANGED <<slot, closing>>
     ELSE closing' = closing \cup {slot} /\ slot' = None /\ UNCHANGED window
  /\ UNCHANGED <<pageVars, inbox, failures, starts, stops, lock, awaited, runVars>>

(* Mutant: it takes a pipeline where there is none.                         *)
CloseRequested_Unchecked ==
  /\ IF lock # "free"
     THEN window' = "gone" /\ UNCHANGED <<slot, closing, asked>>
     ELSE closing' = closing \cup {slot} /\ slot' = None /\ Ask(slot) /\ UNCHANGED window
  /\ UNCHANGED <<pageVars, inbox, failures, starts, stops, lock, awaited,
                 started, listener, told, emitted>>

(* A command at work has the lock: the window closes at once.               *)
CloseRequested ==
  /\ IF lock # "free" \/ slot = None
     THEN window' = "gone" /\ UNCHANGED <<slot, closing, asked>>
     ELSE closing' = closing \cup {slot} /\ slot' = None /\ Ask(slot) /\ UNCHANGED window
  /\ UNCHANGED <<pageVars, inbox, failures, starts, stops, lock, awaited,
                 started, listener, told, emitted>>

Destroy ==
  /\ \E p \in closing : listener[p] = "finished"
  /\ window' = "gone"
  /\ UNCHANGED <<pageVars, inbox, failures, starts, stops, lockVars, closing, runVars>>

(* do_update ends the process when the update is installed.                 *)
Restart ==
  /\ window' = "gone"
  /\ UNCHANGED <<pageVars, inbox, failures, starts, stops, lockVars, closing, runVars>>

----------------------------------------------------------------------------
(* Pipelines and their listeners.                                           *)

pipelineLeaves == <<pageVars, inbox, failures, starts, stops, lockVars, closing,
                    window, started, listener, emitted>>

TellStopped(p) ==
  /\ told' = [told EXCEPT ![p] = Append(@, Stopped)]
  /\ UNCHANGED <<pipelineLeaves, asked>>
  /\ P(p)!TellStopped

WorkerEnds(p) ==
  /\ listener[p] = "running"
  /\ Ask(p)
  /\ UNCHANGED <<pipelineLeaves, told>>
  /\ P(p)!Ask

(* Mutant: the listener leaves its loop before it emits Stopped.            *)
Emit_NotStopped(p) ==
  /\ listener[p] = "running"
  /\ emitted[p] < Len(told[p])
  /\ emitted' = [emitted EXCEPT ![p] = @ + 1]
  /\ LET e == told[p][emitted[p] + 1]
     IN  inbox' = IF e = Stopped THEN inbox
                  ELSE Append(inbox, [run |-> p, event |-> e])
  /\ UNCHANGED <<pageVars, failures, starts, stops, lockVars, closing, window,
                 started, listener, told, asked>>

Ends(p) == emitted[p] > 0 /\ told[p][emitted[p]] = Stopped

Emit(p) ==
  /\ listener[p] = "running" /\ ~Ends(p)
  /\ emitted[p] < Len(told[p])
  /\ emitted' = [emitted EXCEPT ![p] = @ + 1]
  /\ inbox' = Append(inbox, [run |-> p, event |-> told[p][emitted[p] + 1]])
  /\ UNCHANGED <<pageVars, failures, starts, stops, lockVars, closing, window,
                 started, listener, told, asked>>

(* The listener owns the Pipeline, which goes with it.                      *)
ListenerEnds(p) ==
  /\ listener[p] = "running" /\ Ends(p)
  /\ listener' = [listener EXCEPT ![p] = "finished"]
  /\ UNCHANGED <<pageVars, inbox, failures, starts, stops, lockVars, closing, window,
                 started, told, asked, emitted>>

----------------------------------------------------------------------------
Init ==
  /\ isRunning = FALSE /\ pendingRestart = FALSE /\ canDisconnect = FALSE
  /\ inbox = <<>> /\ failures = 0 /\ clicks = 0
  /\ starts = 0 /\ stops = 0
  /\ lock = "free" /\ awaited = None /\ slot = None
  /\ closing = {} /\ window = "open"
  /\ started = 0
  /\ listener = [p \in Runs |-> "none"]
  /\ told = [p \in Runs |-> <<>>]
  /\ asked = [p \in Runs |-> FALSE]
  /\ emitted = [p \in Runs |-> 0]

User == UserConnects \/ UserDisconnects \/ UserChangesSource \/ CloseRequested
Page == PageHears \/ PageSeesFailure
StartReturns == StartFails \/ StartSucceeds
Listener(p) == Emit(p) \/ ListenerEnds(p)

Next ==
  /\ window = "open"
  /\ \/ User \/ Page
     \/ StartBegins \/ StartReturns \/ StopBegins \/ StopReturns
     \/ Destroy \/ Restart
     \/ \E p \in Runs :
          TellStopped(p) \/ WorkerEnds(p) \/ Listener(p)

Spec == Init /\ [][Next]_vars

Running(A) == window = "open" /\ A

(* The page handles what it is sent, tasks run, the lock is fair and        *)
(* Pipeline::start comes to an end.  Of a pipeline only its promise is      *)
(* assumed: asked to stop, it says Stopped.                                 *)
FairSpec ==
  /\ Spec
  /\ WF_vars(Running(PageHears))
  /\ WF_vars(Running(PageSeesFailure))
  /\ SF_vars(Running(StartBegins))
  /\ SF_vars(Running(StopBegins))
  /\ WF_vars(Running(StartReturns))
  /\ WF_vars(Running(StopReturns))
  /\ WF_vars(Running(Destroy))
  /\ \A p \in Runs : WF_vars(Running(TellStopped(p))) /\ WF_vars(Running(Listener(p)))

----------------------------------------------------------------------------
TypeOK ==
  /\ isRunning \in BOOLEAN /\ pendingRestart \in BOOLEAN /\ canDisconnect \in BOOLEAN
  /\ inbox \in Seq([run : Runs, event : Events])
  /\ failures \in Nat /\ clicks \in 0 .. MaxClicks
  /\ starts \in Nat /\ stops \in Nat
  /\ lock \in {"free", "start", "stop"}
  /\ awaited \in Runs \cup {None} /\ slot \in Runs \cup {None}
  /\ closing \subseteq Runs /\ window \in {"open", "gone"}
  /\ started \in 0 .. MaxRuns
  /\ listener \in [Runs -> {"none", "running", "finished"}]
  /\ told \in [Runs -> Seq(Events)] /\ asked \in [Runs -> BOOLEAN]
  /\ emitted \in [Runs -> Nat]

(* No run is out of reach: every one whose events are still listened to is  *)
(* in the slot, where stop_pipeline and the window handler find it, or was  *)
(* told to stop and has a task that waits for its end.                      *)
NoRunIsLost ==
  \A p \in Runs : listener[p] = "running" =>
    slot = p \/ (asked[p] /\ (awaited = p \/ p \in closing))

(* The page has yet to handle this run's Stopped.                           *)
Unheard(p) ==
  /\ listener[p] # "none"
  /\ emitted[p] > 0 => told[p][emitted[p]] # Stopped \/ [run |-> p, event |-> Stopped] \in
       {inbox[i] : i \in 1 .. Len(inbox)}

(* isRunning stands for exactly one thing under way, whatever was clicked   *)
(* when and in which order commands got the lock: a start that waits, one   *)
(* at work, a failure to be noticed or a run whose Stopped the page has not *)
(* handled.  So no second pipeline ever runs beside the first, and a start  *)
(* that is refused as "already running" has met no pipeline that goes on,   *)
(* only one whose listener is about to end.                                 *)
PageKnowsWhatRuns ==
  starts + failures + (IF lock = "start" THEN 1 ELSE 0) + Cardinality({p \in Runs : Unheard(p)})
    = IF isRunning THEN 1 ELSE 0

(* What reaches the page is the story of one run at a time, the latest.     *)
StoriesDoNotMix == \A i \in 1 .. Len(inbox) : inbox[i].run = started

(* A run that is stopped, from the page or because it failed, shows as      *)
(* stopped on the page ("dropping the listener task here would cut that     *)
(* off, so we await").                                                      *)
StopsAreShown ==
  \A p \in Runs : asked[p] ~> ~Unheard(p) \/ window = "gone"

(* A close that was held back is carried out.                               *)
WindowCloses == closing # {} ~> window = "gone"
=============================================================================
