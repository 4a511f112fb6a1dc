# VTCast in TLA+

VTCast sends the picture of a VTuber application, with its alpha channel, from
a Windows sender to OBS browser sources over WebRTC. This directory models the
program in TLA+, checks the models with TLC and proves the main results about
them with TLAPS. It is written from the code, not from its documentation; where
the two disagree, a run shows it (see *Where the code and its comments differ*).

Source paths below are relative to the repository.

## 1. The system

| Component | Where | State | Operations | Talks to |
|---|---|---|---|---|
| Signalling protocol | `crates/protocol/src/lib.rs` | none | message types, room code generator | everyone |
| Relay | `crates/relay/src/ws.rs`, `room.rs` | registry of rooms (code -> `Arc<Room>`), peers of each room with their outbound channel, id counter | `/api/new-room`, one task per WebSocket: Hello, Welcome, registration, forwarding, cleanup, collection of empty rooms | publishers and pages, over WebSockets |
| Relay process | `crates/relay/src/main.rs`, `turn.rs` | configuration, TURN credentials | HTTP routes, static pages, embedded TURN server | - |
| Publisher | `crates/sender/src/publisher.rs`, `publisher_worker` in `lib.rs` | one WebSocket, `pcs`: subscriber id -> PeerConnection, backoff | connect, handle one relay message at a time, offer to each subscriber, reconnect | relay, pipeline |
| Receiver page | `crates/relay/assets/receiver.html` | per session: socket, `pc`, `publisherId`; `recoveryScheduled`; the video element | connect, answer offers, reset on `peer_left`, recover | relay, publisher |
| Pipeline | `crates/sender/src/lib.rs` | stop flag, events, worker tasks, access unit channel | start (GPU path, fall back to CPU), stop, orchestrate | publisher, encoders, GUI and CLI |
| Encoders | `encoder.rs`, `mf_encoder.rs`, `nvenc.rs`, `gpu_convert.rs` | encoder sessions, surface ring, keyframe flag | encode, split into access units | pipeline |
| Frames | `packer.rs`, `resize.rs` | none | side-by-side packing, chroma key, box filter, dimensions | pipeline |
| Capture | `crates/capture` | latest frame, dimensions | Spout, Windows Graphics Capture, Desktop Duplication | pipeline |
| GUI | `crates/sender-app` | the slot of the running pipeline | start, stop, close the window, forward events | pipeline |
| CLI | `crates/sender/src/main.rs` | - | run until Stopped or Ctrl+C | pipeline |

What makes it hard: the relay serves every socket with a task of its own over
shared maps whose locks are held for one operation at a time, so joins, leaves
and collections interleave between operations; the publisher and the page both
reconnect, each on its own timers, while the relay may still be cleaning up
after, or forwarding from, the connections they gave up; offers, answers and
departures therefore overtake one another; the pipeline is a set of threads and
tasks that stop each other by dropped channels, killed processes and flags.

What each component has to get right:

- **Relay**: a client learns its id before anything else; of two clients in a
  room at least one learns of the other; who was announced is retracted; nothing
  of a peer comes after its departure; signals keep to their room and name their
  true sender; rooms that everyone left are collected and none is collected
  that is in use.
- **Publisher**: one current PeerConnection per subscriber; the handler of an
  old one does not remove a newer one; subscribers that left are let go.
- **Page**: never stays with a publisher that has left; always has a socket or a
  retry under way; gets its picture back.
- **Pipeline**: every way of ending ends all workers; the owner is told in order
  and always answered; a slow network never holds up the capture; no access unit
  queued before a reconnect is sent after it.
- **Encoders**: a requested keyframe is made; a surface is not overwritten while it
  is still to be read (which holds only as far as section 3 says); until one is,
  pictures come out in order and once; parsing does not depend on where the byte
  stream is cut.
- **Frames**: sizes are even and within the limit, no part of the source is left out,
  colour and alpha reach the page's shader from every source on both paths.
- **Capture**: what is stored by a callback is read consistently while the window
  changes its size or disappears.
- **GUI**: at most one pipeline, and none out of reach; the page knows whether one
  runs; a window that waits for a pipeline to stop does close.

The hazards, each at its line and with the properties about it, are in
`PROJECT.json`.

## 2. Modules

    Protocol       the messages the relay sends
      Signalling   what the relay promises its clients (abstract)
        Relay      the relay as coded; implements Signalling
          MCRelay      instances for TLC
          RelayProofs  theorems: what clients are told, rooms, Signalling is implemented
        Session    publisher and page over Signalling
          MCSession      instances for TLC
          SessionProofs  theorems

    PipelinePromise  what a pipeline tells its owner (abstract)
      Pipeline       start, workers and end of a pipeline; implements it
        MCPipeline     instances for TLC
        PipelineProofs theorems
      GuiApp         the desktop application over many such pipelines
        MCGuiApp       instances for TLC
        GuiProofs      theorems

    VideoPromise     what an encode loop promises its viewers (abstract)
    GpuLoop          what the two GPU encode loops share
      MfEncode         the loop around an asynchronous Media Foundation transform
      NvencEncode      the loop around an NVENC session
        GpuEncode      gpu_encode_loop with both; implements VideoPromise
          GpuProofs      theorems
    AccessUnits      the parser of ffmpeg's output
      AccessUnitsProofs  theorems
    WgcCapture       window capture
      WgcProofs      theorem
    Frames           sizes, byte order, chroma key, packing, NV12
      FramesProofs   theorems
      MCMedia          instances for TLC of these four, one at a time

### Protocol

The messages as records with the fields someone acts on. `Sdp` and
`IceCandidate` are one kind, `signal`, with a body: the relay treats them alike.

### Signalling

The interface between the two halves of the model. A connection goes through the
stages out, admitted (Welcome sent), registered, joined (announced), departing
and gone; announcements reach whoever is registered; signals may be sent while
joined, also to a peer that has just left. It has no rooms made and collected,
no lookups and no locks. `Relay` is shown to implement it, `Session` uses its
actions as the relay, so what `Session` shows holds of the relay as coded.

### Relay

`handle_socket` is a label per connection, `pc`; an action is the code between
two accesses to shared state. So the Welcome snapshot, the insertion and the
announcement are three steps, as are the removal, the announcement of the
departure and `gc_if_empty`; the lookup of a forwarding target and the send are
two. `After` is the order in which `handle_socket` goes through the accesses.
Rooms have an identity apart from their code, as an `Arc<Room>` has: a task keeps
the object it looked up whatever becomes of the registry. A broadcast is one step
because it holds the room's read lock throughout. `outbox` is the history of the
channel of a client, which nobody consumes in this module; reading it is up to
`Session`. `frames` is a history of what clients sent.

| Variable | Code |
|---|---|
| `registry`, `code`, `peers` | `RoomRegistry.rooms`, `Room.code`, `Room.peers` |
| `next_peer_id` | `RoomRegistry.next_peer_id` |
| `pc`, `asked`, `room`, `peer_id` | progress and locals of `handle_socket` |
| `outbox` | all that was ever sent on `tx` |
| `target` | `forward_to` between `peer_tx` and `send` |

### Session

One publisher program and one receiver page. Each reconnects, so each has a
series of sockets: `Publishers` and `Subscribers` are those sockets, in the role
of `Signalling`'s connections. A PeerConnection of the publisher is named after
the connection, the subscriber and a count; the page's is named after the offer
it answers. What ICE does is left to chance as far as the code does not decide
it: two ends that agreed on an offer may or may not connect, one whose
counterpart is closed or took another answer cannot. A socket may be cut by the
network (`link`), after which the relay, the publisher (read timeout) and the
page (`onclose`) find out separately and in any order; frames written before the
cut may still be read. `close()` of the page takes effect at the relay and in its
own `onclose` at any later time, also after the 1.5 s timer has opened the next
session. The page is let into the room while somebody is in it; the code also lets it into one
that is empty (just minted, or about to be collected), where it would wait for a publisher as
it here waits outside.

| Action | Code |
|---|---|
| `PublisherConnects`, `PublisherLosesRelay` | `publisher_worker`, `Publisher::connect`, end of the pump |
| `handle_inbound`, `connect_to_subscriber` | the functions of that name; `todo` is the rest of the loop over the Welcome's peers |
| `PublisherPcFails` | the `Failed` handler of a PeerConnection |
| `PageConnects`, `PageOnClose` | the timer of `scheduleRecovery` with `connect()`; `ws.onclose` |
| `onmessage`, `PageAnswers` | `ws.onmessage`, cut at the awaits of the offer branch |
| `PageStuck`, `PathFails`, `PageFails` | `onconnectionstatechange`: disconnected for 4 s; failed because of the network; failed because the other end cannot connect |

### PipelinePromise

What the owner of a `Pipeline` may rely on: which event may follow which, that
attempts are numbered upwards, and that whoever asks for the end is told
`Stopped`. `Stopped` is not the last event: `publisher_worker` is not waited for
and can still report a connection.

### Pipeline

One call of `Pipeline::start` and everything it spawns, on both paths. A worker
is a label in `pc` and an action is what it does between two waits: a blocking
or awaited channel operation, a flag it polls, a sleep. A GPU attempt that is
given up stays behind as a worker of its own until it sees its flag, beside the
CPU path. Frames are anonymous and only counted where they are (channel, queue of
`run_async_mf`, encoder); an access unit is a number, that of the connections so
far, which is all that staleness needs. Encoders release what they hold when they
like, up to `EncoderDepth`. `ffmpeg` is a process: it can crash, and it is killed
when the task that owns it returns.

| Variable | Code |
|---|---|
| `phase`, `path`, `init` | where `Pipeline::start` is, the path it took, the oneshot channel of the GPU worker |
| `owner`, `told`, `shutdown` | the `Pipeline` handle, the events sent to it, the stop flag of each path |
| `pc` | capture thread, writer and reader or Media Foundation thread, GPU thread, `publisher_worker`, orchestrator or GPU supervisor |
| `frames`, `queue`, `requests`, `inside` | frame channel, input queue and `pending_need_input` of `run_async_mf`, what an encoder holds |
| `aus` | the access unit channel |
| `attempt`, `connections`, `pump` | the loop of `publisher_worker` and the tasks of `Publisher::connect` |

`Publisher::connect` is here only as an attempt that succeeds or fails and a
pump that ends; what is said over the connection is `Session`'s subject.

### GuiApp

The page, the commands behind it, the window handler and a series of pipelines,
each an instance of `PipelinePromise` (`P(p)`): what a pipeline may do is what
`Pipeline` was shown to do, and what one does by itself has that module's action as a
conjunct. Commands are tasks that take one lock, an async mutex held across the
awaits of `Pipeline::start` and of the listener. Their number is all that is kept
of the ones that wait, so that any of them may come next.

| Variable | Code |
|---|---|
| `isRunning`, `pendingRestart`, `canDisconnect` | the page's variables and the state of its button |
| `inbox`, `failures` | events emitted to the page, `start_pipeline` promises that have been rejected, not handled yet |
| `starts`, `stops`, `lock`, `awaited` | commands that wait for `AppState.pipeline`, the one that holds it, the run whose listener it awaits |
| `slot` | the `RunningPipeline` in `AppState` |
| `closing`, `window` | what the task spawned by `CloseRequested` awaits; the window |
| `listener`, `emitted` | `event_task` of each run and how far it has got with its events |

| Action | Code |
|---|---|
| `UserConnects`, `UserDisconnects`, `UserChangesSource` | the click handlers, the `change` handler of the source |
| `PageHears`, `PageSeesFailure` | the listener of `pipeline-event`; the `catch` of `startPipeline` |
| `StartBegins`, `StartFails`, `StartSucceeds` | `start_pipeline` up to, and after, `Pipeline::start` |
| `StopBegins`, `StopReturns` | `stop_pipeline` before and after it awaits the listener |
| `CloseRequested`, `Destroy`, `Restart` | the window handler with its `try_lock`, the task it spawns; the end of `do_update` |
| `Emit`, `ListenerEnds` | the loop of `event_task` |

Things the model shows that no comment denies, so that they are no findings: a
stop that overtakes its start leaves the page with a running pipeline and a
button that is disabled, until it stops by itself or the source is changed; a
second change of the source stops the pipeline that the first one restarted, and
the page starts no other; a start may be refused as "already running" because the page has
heard of Stopped before the listener that told it has ended; `pendingRestart` survives a start that failed, and the
next Stopped then restarts; closing the window while a command holds the lock ends
the process with the pipeline alive; the page never calls `pipeline_running`. Two things
are taken as they should be: an `emit` succeeds (main.rs:77 logs one that fails, and the
event is lost), and the task that the window handler spawns at main.rs:176 does run.

### VideoPromise, GpuLoop, MfEncode, NvencEncode, GpuEncode

`gpu_encode_loop` in detail. (In `Pipeline` it is one worker, of which only the
start-up handshake and the ways of ending matter.) A picture is the number of the call of
`convert()` that rendered it, a surface the picture that was rendered into it last;
what leaves the loop is the picture found in the surface when the encoder read it. So a
surface that is overwritten too early shows as a picture that is out of order or
comes twice. `VideoPromise` forbids that until a picture has been overwritten before it
was read (`torn`), and then allows any picture that was rendered.

| Variable | Code |
|---|---|
| `loop` | where the thread is |
| `ring`, `ring_index`, `calls` | `Nv12Converter`: the NV12 textures, the index, how often `convert` was called |
| `units`, `shown` | access units accepted by `try_send`, the picture in the last one |
| `tex_queue`, `pending`, `finished` | `tex_queue`, `pending_need_input`, `finished` of `AsyncMfEncoder` |
| `collected`, `iters`, `rounds` | the result and the loop counters of `pump` and `finish` |
| `events`, `granted`, `reading`, `ready`, `stream` | the transform: its event queue, what it asked for, has, and has encoded |
| `torn`, `failures` | history: the transform has read a surface that was rendered into again; calls of `convert()` that failed, and a sample's `failures` is their number when it was queued |
| `force_keyframe`, `force_idr`, `warm` | the shared flag, the result of the swap, whether the loop is past its first picture |
| `registered`, `mapped` | the textures the NVENC session has registered, and mapped |
| `requested`, `taken`, `answered`, `missed` | history: requests for a keyframe by number |

The transform runs on its own: it asks for input when it has room for it
(`MftDepth`), reads a surface when it encodes it, may change its output type once,
and may or may not answer the end of the stream. Any call on it may fail
(`CallFails`), having taken a sample or an event with it, and so may any conversion
(`GpuConvertFails`). The loop counts what is queued and nothing else, so how many surfaces
the transform holds and how many conversions fail is not limited by the ring: when they
are too many a surface that is still to be read is rendered into, which the run
`gpu_overwrites` shows. `SurfacesIntact` says when it is not: the queue, what the transform
holds unread from a surface on and the conversions that failed since it was queued fit
into the ring.
In passing: neither `AsyncMfEncoder` nor any CPU encoder reads
`force_keyframe`, though publisher.rs:341 promises a viewer who reports a loss a
keyframe at once; `finish` never sends `COMMAND_DRAIN`, so that what is still queued is
lost; and when `lock_and_copy` fails the input stays mapped, which `NothingIsLent`
shows to be harmless because the loop ends.

### AccessUnits

`AccessUnitParser` byte by byte. `WritePicture` is ffmpeg, which appends one picture to its
output; `ReadChunk` is the task that reads it, at any time, in chunks of any of the
given sizes; `ReadEnd` may come before everything was read, as it does when ffmpeg
crashes or is killed. `feed` and `finish` are the functions of that name. What a picture
is made of is a constant, `Pictures`, as is what may precede the first one,
`Preambles`. `AuAssumption` says of them what the code relies on: a picture begins with a
delimiter, with a start code of three or four bytes, contains no other, and does
not end in a zero; a preamble contains none. ffmpeg is asked for the first
(`-bsf:v h264_metadata=aud=insert`), the others are H.264's emulation prevention and stop bit.

| Variable | Code |
|---|---|
| `bytes`, `fed` | ffmpeg's standard output and how much of it was read |
| `buf`, `current_au_start` | the fields of `AccessUnitParser` (`None` is `NoAud`) |
| `emitted` | what `feed` and `finish` have returned |
| `pictures`, `starts` | history: what was written, and where each picture begins |

### WgcCapture

The callback stores `latest` and then `dimensions`, in two steps; `grab_into` holds
the lock of the first throughout and is an operator: the picture a caller would get at
this moment, each pixel being the place in the frame it was read from, `Black` (opaque, before the first
frame) or `Clear` (zeroed, with alpha 0, where the frame does not reach). `area` is
decided once, in `open_by_title`, from the first frame that is not empty. That a window grown narrower shows
the beginning of the next row at the right margin is in the property; that the area
may be empty when the window is as small as its frame, and that the session is never
stopped (wgc.rs:188 drops its control), are in passing.

### Frames

Pure functions, of a job chosen in the initial state: sizes, or a row of two pixels
with its source and key, and for a display whether Desktop Duplication had a picture in
time; else it is opaque black. Floating point is a choice between the two sides wherever
the exact value is an integer. The lossy codec is left out, the conversions
around it are not. Sources of one pixel and limits below four are excluded: the
code gives them a width of 0. The two paths differ, and the property says how far:
the shader samples two pixels of each side, so that it skips some where it shrinks to
less than half; the chroma key exists on the CPU path only, where it
also replaces an alpha channel that the source has. HDR formats are not modelled, nor is the
length of Desktop Duplication's rows. `Ideal` is the alpha a pixel should have: the key's, else
that of a source with alpha, else solid. The last nothing sees to; see *Where the code and
its comments differ*.

## 3. What TLC checks

All runs set `CHECK_DEADLOCK FALSE`: clients need not do anything, and the
models stop when their bounded sets of sockets are used up.

| Run | Question | Instance | Result |
|---|---|---|---|
| `relay_membership` | what clients are told of each other, collection of rooms | 2 publishers, 1 subscriber, 1 code, 2 room objects, versions 1 and 2 | 4.2 million states, holds |
| `relay_routing` | forwarding, the refinement of `Signalling`, progress of collection | 1 publisher, 1 subscriber, 2 codes, 2 rooms, 2 frames | 456 thousand states, holds |
| `relay_join_race` | is everyone told of every join? | 2 clients | violated |
| `relay_room_split` | does one code mean one room? | 2 publishers, 1 subscriber | violated |
| `session_recovery` | consistency of both ends, return of the picture | 2 sockets each, 3 in all, 1 fault | 80 thousand states, holds |
| `session_two_live` | is a session torn down before the next? | 1 publisher, 3 page sockets, 2 faults | violated |
| `session_overtaken` | does the page heal whatever the order? | 2 publisher sockets, 1 page socket, 1 fault | violated |
| `pipeline` | staleness, order of events, capacities; do all workers end, is the owner answered, can capture be held up? | all backends and 1 attempt, with ffmpeg and the GPU loops 2, fairness | 198 thousand states, holds |
| `pipeline_stopped` | is everything over some time after Stopped? | ffmpeg, 1 attempt | violated |
| `gui` | one pipeline at a time, what the page knows, progress | 3 runs, 4 clicks | 21 thousand states, holds |
| `media` | what the viewer gets of what the source shows | see *Bounds* | 531 thousand states, holds |
| `gpu_overwrites` | does the cap on the queue keep surfaces from being overwritten? | ring of 4, a transform that holds 3, no failed conversion | violated |

**Bounds.** Two clients of one role and one of the other are what every race in
`handle_socket` takes: someone who joins, someone who leaves, and a witness. Two
room objects make a room that is collected and resurrected while somebody holds
the old one. Two frames let a signal be looked up on either side of a departure.
In `Session`, `MaxSockets` and `MaxTroubles` bound the sockets opened and the
faults injected; three sockets and a fault cover a publisher that reconnects
under a page that stays, and a page that recovers under a publisher that stays,
and both at once is where the offers cross. Symmetry of connections and rooms is
used in `relay_membership`, which checks no liveness. In `Pipeline` every channel
has room for one, so that each is often full and often empty; two frames fit into
an encoder, the least that lets a parser keep one back; two attempts make a
connection, a time without and a reconnect. With more than one attempt only the encoders in
`Retrying` go on: ffmpeg, one that is missing, and the GPU loops; what the others put
into the channel, and how they end, does not depend on the number of attempts, and the
theorems on types, staleness and events hold for any. Capture is not bounded: with all
channels full a waiting frame would wait for good. In `GuiApp` four clicks and three
runs are a start, a restart and another start with a stop left to overtake any of
them. In `MCMedia` the queue is the code's (2), the ring three instead of four, so that
four calls come round to a surface: a transform that holds two, and one failed conversion,
then reach and exceed what the ring has to spare, and `SurfacesIntact` and
`ImplementsVideo` are checked on both sides of it (`gpu_overwrites` has the code's ring);
three events per call of `pump` (32 in the code) let a call
end with events left and, more important, let a request find the queue empty; two rounds in
`finish` (100) are a first and a last one. Two requests for a keyframe cross. Three
pictures of six kinds (either delimiter with a slice, with a payload of zeros and bytes like
a delimiter's, with two NAL units), with and without a preamble, and chunks of 1, 2, 3, 7 and
50 bytes cut every start code everywhere and also bring several pictures at once. Six window sizes differ in width only, height
only, both, and vanish, two of them to a frame without a pixel or without a window. Sides up to 12 and limits up to 16 shrink sides by factors
below and beyond two, even and odd. The channels of five colours are at the ends of the range and
between, alpha at both ends and in the middle. The four parts share a run and nothing else: in a
state of one the others rest.

**Fairness.** `Relay!FairSpec` lets every task go on (`TaskStep`): tokio polls
ready tasks, no lock is held across an await, and `send` on an unbounded channel
does not block. Nothing is assumed of clients. `Session!FairSpec` lets the relay's
tasks, the publisher's task and the page's event loop and timers go on, and has
ICE report a pair that cannot connect. A cut socket is found out about, because
of the keepalive pings and the 90 s read timeout. No fault and no close has to
happen. `Pipeline!FairSpec` lets each thread and task go on, encoders take and
return frames, and an attempt to connect end (the operating system gives up a TCP
connection; the code itself sets no time limit). The end of the pump has fairness
of its own: `select!` polls its branches in random order, so a full access unit
channel cannot hide it. GPU encoding, crashes, failures, stop and drop need not
happen. `GuiApp!FairSpec` lets the page handle its events, tasks run and
`Pipeline::start` end; commands that wait have strong fairness, because tokio's mutex
serves them in turn. Of a pipeline it assumes that one asked to stop says so, which
is `ImplementsPromise`. `GpuFairness` lets the thread run and the transform ask and
encode; it need not answer the end of the stream, and nothing has to fail or stop.

**The properties of Session.** `AnsweredIsCurrent` is why removing a failed
PeerConnection by subscriber id does not take another one with it;
`AtMostTwoOffers` bounds the duplicates of a joiner that was both listed and
announced; `DepartedPublisherIsDropped` and `AnnouncedLeaversAreClosed` say that
departures are honoured whatever is still under way; `PageNeverGivesUp` and
`PictureComesBack` that some retry always remains and succeeds. The last is about
sessions the publisher was told of (the join race leaves others without an offer)
and excepts the order shown by `session_overtaken`.

**The properties of GuiApp.** `PageKnowsWhatRuns` equates `isRunning` with exactly one thing
under way, counting starts that wait, a start at work, failures not yet noticed, and
runs whose Stopped the page has not handled: it is why no two run, and why a start that is refused as "already running"
has met a pipeline that is over. (Such a refusal can happen: the page hears of Stopped before
the listener that told it has finished, which is what `start_pipeline` looks at.) `NoRunIsLost` says that
whatever runs can be stopped, `StoriesDoNotMix` that a restart never sees the events
of the run before, `StopsAreShown` and `WindowCloses` that awaiting the listener with
the lock held does not block for good.

**The properties of media.** `SurfacesIntact` and `ImplementsVideo` are about the ring,
the second on what viewers get: the first says when a surface keeps its picture, the second
what a viewer sees until one has not. `RequestsAreAccountedFor` and `QueuedIsEncoded` say
that a transform is fed what it asked for, neither less nor more. `KeyframeNotForgotten` and
`KeyframeIsMade` number the requests, so that one that comes between the swap of the flag and the
keyframe counts anew; they except a keyframe whose conversion failed or
that met a full channel, which the code does not repeat. `GpuLoopEnds` holds whatever
the transform does. `UnitsArePictures` compares the parser's units with the pictures
that went in, `GrabShowsTheWindow` a picture with the window (all of it but the right margin, unless the
width changed between the callback's two stores; then only that nothing is read from outside
the frame), `ScalingIsSound` the sizes with the source, `PictureSurvives` what the page shows
with what the source had, and with the alpha it should have wherever the code or the
capture sees to it.

### Where the code and its comments differ

- *Joins* (`relay_join_race`). Two clients whose joins overlap may leave one of
  them untold. If that is the publisher, the page waits for an offer that never
  comes. `OneKnowsTheOther` is what holds instead.
- *Resurrected rooms* (`relay_room_split`). A client between lookup and
  registration keeps a room that has been collected; a publisher that resurrects
  the code gets another.
- *Recovery* (`session_two_live`). `scheduleRecovery` neither closes the
  PeerConnection nor forgets the socket it gave up; when one of them reports
  after the timer, the page runs two sessions.
- *Message order* (`session_overtaken`). An old offer that comes after the new
  one, followed by the old publisher's `peer_left`, leaves the page with no
  PeerConnection, hence with nothing that could fail and trigger recovery.

- *Stopped* (`pipeline_stopped`). The event says that all worker tasks have exited.
  `publisher_worker` returns when the access unit channel closes and drops only the
  join handle of the pump. The socket, its tasks and the PeerConnections live on, the
  publisher stays in the room until the process ends. The CLI ends with its process;
  the desktop application does not. There is a second way: `run_async_mf` learns of
  the end of its input only when its encoder has no request outstanding, and
  otherwise polls for ever. `WorkersEndTogether` excepts it, and holds for all else.
- *Surfaces* (`gpu_overwrites`). "Cap convert-ahead at 2 frames so we never overwrite an
  NV12 ring slot the encoder still references" (lib.rs:1299), "so an in-flight surface is
  never overwritten" (gpu_convert.rs:147). The cap is on what is queued. A transform that
  has taken three surfaces and read none has the first overwritten by the fifth
  conversion; with a ring of four a transform that holds two is safe, until a conversion fails:
  the index has moved on, and the loop tries again as often as it takes.
- *Alpha of windows and displays* (no run of its own). wgc.rs:280-283 and
  capture/lib.rs:40-43 say that without a chroma key the alpha plane is solid 0xFF for
  sources whose `has_alpha` is false. Nothing asks `has_alpha`: the capture loop
  (lib.rs:506-521) passes on the byte that was captured, and `grab_into` of a window zeroes
  what its frame does not reach (wgc.rs:324, 336, 338), so that the page shows nothing
  there. `PictureSurvives` therefore claims the alpha of such pixels only when a key
  decides it or the captured byte is 255 (`AlphaIsPassedOn`).
- In passing: `Pipeline` has no `Drop`, so that dropping the handle does not start
  tearing down (lib.rs:191); and the writer does not hold the child "until ffmpeg
  fully exits" (612) but kills it when it returns.

## 4. What is proved

Every safety property that a passing run checks is a theorem, for every value of the
constants. The bounds of
section 3 are parameters of the theorems like any other, so no theorem is about
small instances. Each module of proofs extends the one it is about and assumes
nothing but that module's `ASSUME`s, which TLC evaluates in the runs.

| Module | Theorem | Statement |
|---|---|---|
| `RelayProofs` | `TypeCorrect` | `Spec => []TypeOK` |
| | `WelcomeComesFirst` | `Spec => []WelcomeFirst` |
| | `JoinersMeet` | `Spec => []OneKnowsTheOther` |
| | `LeftIsFinal` | `Spec => []SilentAfterLeft` |
| | `RoutingIsSound` | `Spec => []SignalsStayInRoom` |
| | `RoomsNeverLeak` | `Spec => []NoLeakedRoom` |
| | `JoinsAreRetracted` | `Spec => []JoinIsRetracted` |
| | `RelayIsSignalling` | `Spec => ImplementsSignalling` |
| `SessionProofs` | `Invariance` | `Spec => []IInv` |
| | `TypesAreRight` | `Spec => []TypeOK` |
| | `AnswersAreCurrent` | `Spec => []AnsweredIsCurrent` |
| | `OffersAreFew` | `Spec => []AtMostTwoOffers` |
| | `DepartedPublishersStayGone` | `Spec => []DepartedPublisherIsDropped` |
| | `LeaversLeaveNothing` | `Spec => []AnnouncedLeaversAreClosed` |
| | `ThePageGoesOn` | `Spec => []PageNeverGivesUp` |
| `PipelineProofs` | `TypesAreRight` | `Spec => []TypeOK` |
| | `StaleUnitsAreDropped` | `Spec => []NothingStaleIsSent` |
| | `EventsAreInOrder` | `Spec => EventsInOrder` |
| `GuiProofs` | `Invariance` | `Spec => []IInv` |
| | `TypesAreRight` | `Spec => []TypeOK` |
| | `RunsAreNotLost` | `Spec => []NoRunIsLost` |
| | `StoriesStayApart` | `Spec => []StoriesDoNotMix` |
| | `RunsFollowOneAnother` | every run but the latest has said Stopped |
| | `ThePageKnows` | `Spec => []PageKnowsWhatRuns` |
| `GpuProofs` | `Invariance` | `GpuSpec => []IInv` |
| | `GpuTypesAreRight` | `GpuSpec => []GpuTypeOK` |
| | `SurfacesStayIntact` | `GpuSpec => []SurfacesIntact` |
| | `RequestsAreCounted` | `GpuSpec => []RequestsAreAccountedFor` |
| | `KeyframesAreNotForgotten` | `GpuSpec => []KeyframeNotForgotten` |
| | `GpuLoopIsVideo` | `GpuSpec => ImplementsVideo` |
| `WgcProofs` | `WindowsAreShown` | `WgcSpec => []GrabShowsTheWindow` |
| `AccessUnitsProofs` | `FindAudFindsTheNext` | for every buffer and offset, `find_aud` returns the first delimiter from there on |
| | `UnitsFound` | `AuSpec => []UnitsArePictures` |
| `FramesProofs` | `ScalingIsAlwaysSound` | `FramesSpec => []ScalingIsSound` |
| | `PicturesSurvive` | `FramesSpec => []PictureSurvives` |

`GpuSpec`, `WgcSpec`, `AuSpec` and `FramesSpec` are the specifications of the parts that
`MCMedia` runs one at a time.

### What is assumed

| Assumption | Says | Because |
|---|---|---|
| `RelayAssumption`, `SessionAssumption` | the roles are disjoint, null values are not members of the sets they extend, bounds are numbers; for `Session`, the page has a socket to open | nothing about the code, but that the page opens one when it loads |
| `PipelineAssumption` | channels have room for one or more, an encoder holds two frames or more | the channels are made with constant depths above zero; a parser keeps back a unit |
| `GuiAssumption`, `GpuLoopAssumption`, `MfAssumption`, `NvencAssumption`, `WgcAssumption` | bounds and sizes are numbers, the ring and the events handled per call are not none; nothing relates the ring to the transform or to failures | |
| `AuAssumption` | a picture begins with a delimiter and has no other, a preamble has none; neither ends in a zero | ffmpeg inserts the delimiters; H.264 allows no start code in a payload and no zero at its end. Without the last, `UnitsArePictures` is false: a zero would be counted to the start code after it |
| `FramesAssumption` | channels are bytes | `u8` |

### The arguments

**Relay.** `BaseInvariant` establishes the facts everything else rests on:
types; which tasks hold a room and an id, by label; ids are distinct and below the
counter; a peer is in the peers of exactly the room it holds, and exactly between
its insertion and its removal; a room listed in the registry is listed under its
own code. Each further theorem adds its own strengthening. For `NoLeakedRoom` the
property is inductive with the base facts. For `WelcomeFirst`, channels are empty before
the Welcome and every message after it is not one. For `SilentAfterLeft`, a peer
whose PeerLeft somebody has is past its announcement, and then neither announces nor
forwards; a forward in progress belongs to a serving task. For `OneKnowsTheOther`,
for two registered clients either the snapshot of the later one or the
announcement of the one that registered first has reached the other, or that
announcement is still to come. For `SignalsStayInRoom`, `target` keeps a frame
that was read and a channel of the same room.

`JoinIsRetracted` is about peers announced by PeerJoined; one listed in the Welcome alone may
leave before the newcomer is registered, and is then never retracted. The property says
nothing of *who* announced a peer, so it is not inductive: `JoinsHaveOwners` adds that every PeerJoined on a channel is of a
connection that shares the room and is past its announcement. `RelayIsSignalling` maps
`pc` to the stages of a connection and shows that each of the relay's actions is
an action of `Signalling` or leaves what clients see unchanged: collection, lookup,
resurrection and refusal are stutters, and a forward is one of `Signalling` because the
channel that was looked up is of a peer that has been in the room (`TargetsWereThere`).

**Session.** The relay is here `Signalling`, so the proof has two layers.
`RelayInv` gives the messages their meaning for good: each is true of its sender or
subject (`Truthful`), nothing of a peer comes before its PeerJoined or after its
PeerLeft (`InOrder`), and whom a joining was announced to is told of the leaving
(`LeaversAreAnnounced`). A step of the relay appends one message to some channels, so
each part is shown for that message alone (`RelayGrows`). `ClientInv` ties what publisher
and page hold to the prefix of the channel each has read. The point of
`AnsweredIsCurrent` is `OffersAreInvited` with `Settled`: a subscriber is made known by the
Welcome, by its announcement or both, each allows one PeerConnection, and
an answer comes after both have been read, so nothing replaces the one that
was answered. `AnnouncedLeaversAreClosed` has the same limit as `JoinIsRetracted`: it is
about subscribers that were announced.

**Pipeline.** `TInv` is inductive as it stands: a unit enters the channel under the number
of the present connection, and the publisher begins to send with an empty
channel. `EInv` adds for `EventsInOrder` what was told last at each place of the
publisher (`Talking`), that the orchestrator says Stopped once and only when it was asked to
(`Stopping`), that an attempt under way is not reported yet (`Counting`), and that
nothing is told before `start` has handed over (`Launched`).

**GuiApp.** `PageKnowsWhatRuns` counts, and is preserved only because there is never more
to count than one. `Turn` therefore names the five ways in which `isRunning` can have its
value, `Stories` says that every run but the latest was told to its end, and `Pending` that
the page's inbox is the end of the latest run's story.

**GPU loops.** What is queued and what the transform holds lags behind `calls` by no more than
what is in flight behind it and the conversions that failed since (`InFlightIsRecent`). When
that is less than a turn of the ring the picture is in its surface yet, which is
`SurfacesIntact`, without any assumption on the transform. `InOrder` chains what was shown,
collected, encoded, read and queued, each below the next, as long as nothing is `torn`;
after that every one of them is still a picture that was rendered. Together that is
`VideoPromise`. On the NVENC branch `Lent`
says where a texture may be mapped and that the picture encoded is the one rendered last.
`Branches` keeps the state of the branch not taken at rest.

**Window capture.** A pixel is read at `row * width + column`; the picture is right because
the width stored beside the frame is the frame's, but between the callback's two stores
(`FrameBeforeDimensions`; when the widths differ there, all that is left is that an offset
inside the frame is a place inside it), and because division gives the place back from its offset
(`OffsetFacts`).

**Access units.** `find_aud` and `Cuts` are recursive functions. That one which satisfies the
equation exists is shown with the function that holds the stated values (`ScanExists`,
`ChainExists`); that any which does has these values, by the least distance from the end of
the buffer at which it would not (`Least`, from `WFMin`). What is stated: `find_aud` returns the next
delimiter, for the bytes it skips at another start code hide none (`NothingSkipped`), and
`Cuts` all of them. `Layout` and `Delimited` describe the stream: each picture lies at its
start, and a delimiter is nowhere else, because one picture ends in another byte than zero
and the next begins with a zero. `Reader` is what the parser knows at each time: nothing
before the first delimiter was seen whole with a byte to spare; from then on the buffer is the stream
from the start of the current picture to what was read, and the units are all pictures before
it. `FeedFromPicture` is the step: cutting that buffer, extended by a chunk, gives the pictures
that end in it (`PicturesCut`), wherever the chunk ends.

**Frames.** `PicturesSurvive` is about the alpha `Ideal` asks for, where `AlphaIsPassedOn`; what
leaves the chroma key step (`Passed`) is that alpha exactly there. There is nothing inductive in it: a job is chosen and stays. The proof is
arithmetic about division, for all sizes and all bytes. That no pixel is left out
is `BoxAverages` and `SamplerTouches`: the interval of source pixels of one target pixel
ends where, or after, that of the next one begins. For colours, each stored plane is within
-1000 and 500 thousandths of the exact value, whether it was cut off or rounded (`Near`); the
matrices of the two conversions are inverse to each other but for residuals that amount
to less than one level, and what the planes' errors add leaves four levels for
colours. In the half that carries alpha the chroma is neutral (`GreyFacts`), which leaves
three, and takes 0 to 0 exactly.

### Only model-checked

- Liveness, which TLAPS does not reach: `EmptyRoomsAreCollected`, `PictureComesBack`,
  `CaptureNeverStalls`, `WorkersEndTogether`, `StopsAreShown`, `WindowCloses`,
  `QueuedIsEncoded`, `KeyframeIsMade`, `GpuLoopEnds`, and of `ImplementsPromise` what it
  says beyond `EventsInOrder`: that whoever asks for the end is told.
- The six runs that find a violation.

## 5. What is not modelled

- `main.rs` and `turn.rs` of the relay: configuration, HTTP and third-party TURN.
- The content of SDP and ICE; candidates; RTP and RTCP, except that a report of
  picture loss raises the keyframe flag.
- Failures inside webrtc-rs while an offer is built; they are logged and not
  retried.
- Direct3D, NVENC, Media Foundation and Spout themselves: their calls appear as steps
  that succeed or fail. So the choice of an adapter and of a transform, the probing of
  encoders at start-up and their settings are a choice of backend in `Pipeline`.
- The synchronous Media Foundation transform beyond its loop in `Pipeline`.
- Desktop Duplication and Spout beyond formats, byte order and a picture that is not there in
  time. Their known edges,
  a display of odd height and a Spout sender that recreates its texture, are listed
  as hazards without a property.
- The GUI's settings, source lists, update check and texts; the CLI's arguments.
- Process priorities; the test page, the smoke script and the proof of concept.

## 6. Plan

The models cover the parts that have behaviour of their own and every safety property is
proved. What is left:

1. Lemmas that would let the liveness arguments rest on proved steps: that each of the
   actions with fairness makes its progress, as action properties.
2. The synchronous Media Foundation transform in the detail that the asynchronous one has.
