# A model of pixelflux in TLA+

pixelflux (`src/pixelflux`) captures a screen, X11 or Wayland, encodes what changed
with a hardware engine or a software library, and hands the units to Python. This
directory holds TLA+ modules of the parts of it whose correctness is a matter of
order: threads passing frames to each other, surfaces recreated under an encoder,
an encoder that fails and is replaced, clients that report frames lost. TLC checks
them on small instances, TLAPS proves the central safety properties for every value
of the constants.

Contents: [the system](#1-the-system), [the modules](#2-the-modules),
[the runs](#3-the-runs), [fairness](#4-fairness), [the proofs](#5-the-proofs),
[what the code does otherwise](#6-where-the-code-does-otherwise),
[what is left out](#7-what-is-not-modelled), [the plan](#8-the-plan).

## 1. The system

Paths are relative to `src/pixelflux/src/`.

| part | code | its state | its operations | what makes it correct |
|---|---|---|---|---|
| render-to-encode pool | `lib.rs` 1217-1332 `WlFramePool` | free list, one publish slot, stop flag, under one mutex with a condition variable | `try_begin`, `publish`, `cancel` (calloop); `take`, `recycle` (encode thread); `shutdown` | no buffer lost or shared, no frame dropped or reordered, no wakeup lost |
| Wayland encode thread | `lib.rs` 1610-1937 `wayland_encode_loop` | its session, error streak, `hw_rebuilt`, the swapped key frame request | take, decide, encode, recover, re-arm | a key frame asked for comes out through errors, rebuilds and restarts; the recovery ends |
| compositor tick and restarts | `lib.rs` 4228-5357 `render_node_tick`, 2729-3366 `start_capture_on_display` | the capture, its threads' handles, the zero-copy session's mutex | publish a frame a tick; replace a dead encode thread; start over a running capture | the loop outlives an encode thread |
| encoder selection | `encoders/mod.rs` 1605-1984 `select_frame_encoder` | none (answers a session and writes `settings.codec`) | engine, software library, fallback codec, striped path | a capture is always left an encoder, and says its codec |
| X11 capture | `x11/mod.rs` 639-809 `FramePool`, 842-988 `encode_loop`, 1213-1535 `run_shm_capture` | shared-memory surfaces, their generation, one slot; counts of failed grabs and reconnections | grab, publish, drain for a resize, reconnect, end | no surface read after it is destroyed; the capture streams or ends |
| X11 pipeline | `pipeline.rs` 1561-2120 `X11Pipeline` | session, `pending_force_idr`, streak, `hw_rebuilt`, region and cleanup state | `process`, `reshape`, `update_rate`, `request_idr`, `recover_hw` | recovery ends, a demotion holds, a requested key frame comes out |
| reference window | `encoders/reference.rs` 1-760 `ReferenceWindow` | recent frames, anchors, frames remembered by id, what consumers acknowledged | plan, record, retract, settle, forget, invalidate, acknowledge, reset | nothing is predicted from a frame a client lost |
| NVENC session | `encoders/nvenc.rs` 3802-4175 `submit_frame`, `encode_picture`; 3084-3109 `take_report` | a window, `force_idr` | one frame, perhaps coded twice; reports; resets | the device uses the reference the window says |
| live controls | `lib.rs` 1335-1371 `WlEncodeControls`, `x11/mod.rs` `Controls` | atomics and their dirty flags, a mutexed option | set the rate, set the tunables; swap and load | the last update takes effect |
| reference slots of VP8, VP9 | `encoders/reference.rs` 761-1079 `ReferenceSlots` | three slots, what each holds | as the window's | as the window's |
| delivery to Python, restarts, the exit fence | `lib.rs` 3216-3366, 2190-2350, 6950-7000, `report.rs` | bounded channels, delivery threads and their joins, reapers of threads left behind | enqueue, deliver, join the predecessor; tear down; `Barrier` | frames of two captures never mix; no thread outlives the fence |
| capture lifecycle | `lib.rs` 9189-9688 `ScreenCapture`, 8970-8983 `join_within`; `x11/cursor.rs` 85-148 | the capture published and the one starting, thread handles, a reference on the cursor monitor, the registry of live captures | start, stop, from any thread and from the callback | nothing running is out of reach; no call waits on itself |
| frame pacing | `pace.rs` 97-431, `x11/mod.rs` 515-555 `wait_for_frame`, `lib.rs` 4101-4140, 7619-7666 | the end of the last window a frame closed, the deferral, the change that waits | tick by timer or by change, defer, the next wake | the rate set is the rate sent; a change is sent at once or as the next window opens; no busy waiting |
| cleanup of a still screen | `pipeline.rs` 199-334 `cleanup_due`, `lost_frame`; 1209-1279 `decide_constant_quality`; `encoders/software.rs` 1213-1245 `dirty_by` | per region: still frames, share of motion, whether it is clean, burst left; per hash band: last hash, damage block | due?; lost, withheld; decide a frame | a still screen comes to be held at the paint-over quality, and is then left alone |
| recorder | `recorder/mod.rs` 58-980 | process-wide current recording, tap, last finished | start, stop, tap a frame, write | a recording gets its own frames and its own result |
| recording socket | `recording_sink.rs` 95-292 | client list, bounded queues, connection flag | accept, send, drop a slow client | a client begins at a key frame |
| virtual webcam | `webcam/mod.rs`, `webcam/ring.rs`, `webcam/server.rs` | a queue that drops its oldest, a decoder, the wish for a key frame; a shared-memory ring of frames with sequences; ready clients | push, decode, publish, read, retire | nothing is shown that was predicted from a frame left out; a reader never takes a torn frame |
| host compositor capture | `wayland/host.rs` and its clients | leased frames | lend, hand back | no frame handed back under an encode |
| compositor | `wayland/frontend.rs` and handlers | smithay's | protocol handlers | the protocols' |
| encoder backends | `encoders/{nvenc,tegra,v4l2m2m,vaapi,software,...}` | the drivers' | open, encode, reconfigure | the drivers' |
| input injection | `computer_use.rs`, `x11/computer_use.rs`, `uinput.rs` | none to speak of | one command at a time | - |

How they interact. A capture has one thread that fills buffers (the calloop of the
compositor, or the X11 capture thread) and one that encodes; a pool with a single
publish slot is between them. The encode thread owns its session and its reference
window. Everybody else talks to it through the controls: atomics with a dirty flag,
a `force_idr` flag swapped ahead of each frame, and a queue of loss reports drained
ahead of each frame. Units go on to a delivery thread, the recorder's tap and the
recording socket. On Wayland the compositor loop also watches over the encode
thread, and shares a zero-copy session with it under a mutex.

What is hard: the interleavings of those two threads with stops, resizes, restarts
and panics; an encode that fails, when a key frame rode on it; the recovery, which
must neither loop nor give up; loss reports that come late, twice, or of frames that
were skipped or coded again; ids that wrap at 16 bits; and a still screen, on which
nothing is sent unless something remembers to. `PROJECT.json` lists these hazards one
by one with their lines, and the properties that cover each.

## 2. The modules

The components:

| module | models | state and actions |
|---|---|---|
| `WlFramePool` | `WlFramePool` and the two threads that drive it | every critical section is an action and every `notify_all` another, since the code notifies after the unlock; `take` has a state between its look at the slot and its wait, in which it holds the mutex |
| `Handoff` | what `WlFramePool`'s doc comment promises: a lossless place for one frame | `WlFramePool` implements it, under the mapping of `Promise` |
| `EncoderLadder` | `select_frame_encoder` | the set of sessions a selection may settle on, since each backend may refuse |
| `X11Pipeline` | `X11Pipeline` over its life in one capture: recovery, demotion, key frame requests | `process` that encodes or fails, the failing rate change, the ways to reshape; the screen is changed, still, or due its cleanup |
| `StillScreen` | the cleanup of that pipeline for a full-frame session of constant quality, and the content hash it reads its damage from | `Frame`, `Lose` and `Fail` are calls of `process` whose unit arrives, does not arrive, or does not come out; `Report`, `RequestIdr`, and `Change` for the screen. What the consumer holds (`shown`, `coarse`, `broken`) is history |
| `WaylandEncode` | `wayland_encode_loop`, `render_node_tick`, `start_capture_on_display` around one capture | take; encode, come out empty or fail; re-arm; tick, replace, start; the environment breaks and mends engines |
| `RateControls` | `WlEncodeControls` and `Controls` against the encode threads' swap and loads | one action per atomic access |
| `X11Capture` | `run_shm_capture`, `encode_loop`, `FramePool`, reconnection | two program counters; every pool operation is one step; `birth` tells one creation of the surfaces from the next, `pins` is the memory the encoder registered by address |
| `ReferenceWindow` | `ReferenceWindow`'s methods, as operators on a window record | a queue ordered by `pts` is a set of frames; ids wrap at `IdMod` |
| `ReferenceSession` | NVENC's session on that window (`submit_frame`, `encode_picture`, `take_report`, resets) and the clients that report | one action per frame outcome (coded, coded as a key frame of the device's own, coded twice, second coding failed, failed, skipped) and per report; the device's refusals are choices. `coded` and `lost` are history: the chain of frames each one needs |
| `ReferenceSlots` | `ReferenceSlots` under the libvpx session (`encoders/vpx.rs`) | as `ReferenceSession`, a key frame coded again taking a second place among the frames under the same id; VP8's three buffers, and VP9's ring of recent slots with a ring of anchors behind it |
| `CaptureLifecycle` | `start_capture` and `stop_internal` of an X11 capture, `join_within`, the cursor's count of users, and the threads they wait for | an actor is a Python thread or a delivery thread; a step of a call runs from one release of the interpreter's lock to the next, and `gil` says who holds it; a capture and its encode thread are one thread, as the one joins the other |
| `FramePace` | `FramePace` in windows, under the X11 loops that sleep until they may take a change and the compositor's that arms its timer only when it fires | no clock: every instant is kept as what it is from now, and `Pass` moves them all; `Grab`, `Fire`, `Commit`, `HostWake` are a loop's turns. What the frames sent are worth against the time that passed (`level`, `debt`) is history |
| `CaptureRestart` | a Wayland capture started, restarted over, demoted and torn down, and the `Barrier` | each capture has up to two encode threads and a delivery thread, each joining its predecessor; the bounded channel, the discard, the two reapers; the frames a host compositor lends; the path the recording socket stands at |
| `RecordingSink` | `recording_sink.rs` | the accept thread in two steps (listed, then flagged); the compositor's tick, which may take the flag ahead of the encode thread and asks for a key frame a step later; the encode thread's swap, encode and offer; and a writer per client in two steps |
| `Recorder` | start and stop of an MP4 recording over the statics `ACTIVE`, `WL_TAP`, `WL_TAP_ARMED` | a caller's program counter through `stop`; who holds a sender of the writer's queue |
| `VirtualCamera` | `webcam/mod.rs`: `push`, the worker, start and stop | the queue and the decoder; a start may come while another thread's stop still joins, and the old worker is followed no further; why the references lack something (`missing`) is history |
| `FrameRing` | `webcam/ring.rs`: `publish` against a reader in another process | each store is issued, then reaches the reader in an order the memory model allows; the reader loads the header, the sequence, the data in two halves and the sequence again |
| `CameraServer` | `webcam/server.rs`: the thread that polls, accepts and retires, against the doorbell of each frame | `pollfds` is what was polled, when it was polled; each goes through the list one client at a time with the lock held (`locked`, `idx`), and the doorbell may take it between poll's answer and what the thread does with it; a descriptor is a number that a new connection may take over; who hung up and who answered is the applications' |

The modules that compose them for TLC. Components that share a thread or a queue are
checked in one run, each from its own `Init`: `kind` picks one at the start and never
changes, and the variables of the others keep their values, so that the state space is
the sum of theirs, and one configuration answers one question.

| module | composes |
|---|---|
| `MCEncodeThread` | `WlFramePool`, `X11Pipeline`, `WaylandEncode` (with `EncoderLadder`), `FramePace`: what stands around an encode thread |
| `MCX11Capture` | `RateControls`, `X11Capture`: what the threads of a capture share |
| `MCReference` | `ReferenceSession` three times (the windows of H.264, of H.265 and AV1, the plain one), `ReferenceSlots` twice (VP8, VP9), `StillScreen`: what the consumers' reports do |
| `MCConsumers` | `RecordingSink`, `CaptureRestart`, `Recorder`, `VirtualCamera`, `FrameRing`, `CameraServer`: where frames go |

The proofs are in eight modules, one to a run or to a component of it:
`EncodeThreadProofs`, `X11CaptureProofs`, `ReferenceSessionProofs`, `ReferenceSlotsProofs`,
`ReferenceProofs`, `CaptureLifecycleProofs`, `CaptureRestartProofs` and `ConsumersProofs`
(section 5). A component that a run has under several values of its constants states its
assumption as an operator (`WindowAssumption`, `SessionAssumption`, `SlotsAssumption`,
`StillScreenAssumption`, `X11Assumption`, `RestartAssumption`, `PaceAssumption`,
`SinkAssumption`, `RecorderAssumption`, `CameraAssumption`, `RingAssumption`,
`ServerAssumption`): the module that instantiates it assumes it of each instance, where TLC
evaluates it, and its own theorems have it as a hypothesis.

The definitions keep the code's names where they can, and `PROJECT.json` maps each to
the lines it translates. Definitions called a mutant are what a plausible slip in
that code would be; no specification uses them, and each shows that the property it
goes with can fail.

Abstractions worth knowing:

- **Data.** A frame is its number and its place; a size is one number; a codec is a
  name. What a frame shows is whether it changed, or in `StillScreen` one of two
  contents in each hash band, so that a screen can go back to what it was.
- **Locks.** A critical section of a mutex is one step, except where the code waits
  or notifies in a place that matters (`WlFramePool`, `RecordingSink`'s accept).
  `FramePool`'s waits look again every 20 ms, so they are plain guards.
- **Devices and servers** answer or refuse by choice: an engine, a library, the X
  server, an invalidation of a reference, the host compositor, a decoder.
- **Panics** of an encode thread are modelled where an encoder is called, the only
  place foreign code runs.
- **The recovery threshold** (30 failed encodes) is a constant; 2 or 3 tell a streak
  from one failure, and nothing else depends on it.
- **The share of motion** in `StillScreen` is counted in sixteenths rounded down where
  the code has a float. Rounded so it decays a little faster; what is compared is a
  quarter of it.

## 3. The runs

Sizes are for the configuration in the `.cfg`; the longest takes a little over three minutes
on two workers.

**`encode_thread`** (`MCEncodeThread`, 296 thousand states).
The pool has two buffers, as the code, and five frames, which go around both of them
twice and leave one over. `BuffersConserved` (a publication over a frame not taken,
which only a debug assertion tells, would lose its buffer); `NoWakeupLost`, that every
frame published is taken and a shutdown ends the thread although the timeout of the
wait never has to fire, since it is there only "as defense-in-depth";
`ImplementsHandoff` is the refinement. The X11 pipeline is asked for AV1, which only the
library has, with a threshold of 3, engines that answer at once and late, two turns of
the environment (an engine or the library breaks, mends), two requests and two
reshapes; the Wayland capture for H.265, threshold 2, with an engine that breaks and
mends, one request, one restart and one panic. `RecoveryEnds`: between two successes
the engine is opened again at most once, and a demotion holds for the pipeline's life.
`KeyArmed`: no error, recovery, panic or restart lets go of a key frame that is owed.
`KeyServed`: one that is armed comes out though the screen stays still and the engine
fails for ever. The pacing: frames of four and six units of time (the host's of four), the
timer a unit early, loops up to two units late (the host's one), the rate set at any point
and an encode pool that fills and drains by itself. `PaceHolds`: whatever ticks late and
whichever change takes which window, the frames sent are worth the time they took, three
periods more at most, and, where every tick sends one, three less at most; and the timer does
not spin. Two and a half would not do, around a late tick and a change on either side of
it. `ChangeIsShown`: a change waits in an open window for no longer than its loop comes
late; for half a window more where the timer may sleep so long.

**`reference`** (`MCReference`, 552 thousand states). The windows: five or six frames
coded and three events among all the others (losses, acknowledgements, second codings,
failures, skips, key frames asked for, resets). Ids wrap at 16 and start at 13, so
that every run of more than three frames crosses the wrap, and a report is of a frame
at most half the ids ago, which for 65536 ids at 60 fps is nine minutes. Periods
(`AnchorEvery` 2, the memory of 5 frames, a frame_num that wraps at 4) are small
enough for an anchor to be planned, replaced, lent and pinned, and a frame to be
forgotten, within six frames; three events suffice for a loss, its echo and what
is done in between. The slots have a ring of 2 and a period of 4, in which every slot is
overwritten at least once; of a key frame coded twice both codings are remembered, and only
the second is sent and can be reported. `NoPredictionThroughLoss` and `SlotsPredictPastLoss` are the
purpose of it all, the second aside from a key frame coded twice (section 6);
`RecentAgrees` keeps the two records of a loss in step;
`WithinBuffers` bounds the window by the decoder's buffer; `RepeatedReports` and
`PinnedStays` are what the doc comments of `invalidate` and `plan_anchor` claim;
`PredictsFromKept` relates what the device is told to what the window and the decoder
hold, for a frame coded once (section 6 has the other case). The still screen has
two hash bands, in one of which a caret may blink for ever, blocks of three frames
after two changes, a cleanup after one still frame, a burst of one, one other change
of the screen, and one loss, withheld frame, failed encode or request; one change is
enough to come at any point of a block, of a cleanup or of its burst, and one event
to fall on any frame of them (with `MaxEvents` at 2 the run passes too, in 782 thousand
states and twice the time). `ChangeLands`: every change is sent, and what
lands on a frame decided as a cleanup is not coded as one. `SettlesClean`: whatever
happens, the consumer comes to hold the picture, at the paint-over quality, a caret that
goes on blinking does not take it from there, and a screen that stays still is not sent
for ever.

**`x11_capture`** (`MCX11Capture`, 1.1 million states). Three surfaces as in the code,
two root sizes, a region that is fixed or follows the root, two changes from outside
among resizes, region changes, a server that ends and comes back, and a stop; a panic of
the encoder at any point, surfaces refused at any creation. One failed grab and one
attempt of each retry stand for 120 and 5. With three surfaces one is captured, one
published and one encoded while the drain waits; a second change after the first is what
it takes for a drain to be overtaken by a resize or a stop. `ReadsLive` and
`SurfacesConserved` are about the memory, `ShrinkIsFollowed` and `StreamsOrEnds` about
the ends. The controls have the compositor that stores whole rates, or Python threads
that store a field each, and two updates of the rate and of the tunables: one
being served and one that overtakes it. `UpdatesSettle` says that the last
update of either wins once all is quiet.

**`lifecycle`** (`CaptureLifecycle`). Two Python threads and the callbacks of two
captures make three calls among them, with one wait that gives up. Two calls overlap
and the third stops what they leave; a third capture would repeat the second.
`RunningIsHeld` and `CursorIsPaired` relate the handle, the registry and the
cursor's count to what runs, `overtaken` being the captures published over (section
6); `IdleIsQuiet`, that no callback comes once the calls are over; `ComesToRest`,
that no call needs a timeout to return, with the interpreter's lock let go around every
wait.

**`consumers`** (`MCConsumers`, 604 thousand states).
Python: two captures (a restart, or a stop and a start), each of which may be demoted, two
frames and two frames lent by the host. `PythonInOrder`: no frame of a capture comes after
one of what replaced it; `BarrierQuiet`: the fence of the shutdown leaves no thread behind;
`LentUntilDemoted`: nothing delivered was read from a buffer the host had back;
a capture torn down ends (`AllEnds`): predecessors, full channels and a mutex never make
a circle. The socket:
two clients, queues of two, five frames, so that one client falls behind and
is dropped while the other goes on: `KeyIsOwed`, `NoGap`. The recorder: two callers, two
recordings, a queue of one, and every stop returns (`AllEnds`). The camera: a queue of two, three faults
(evictions, undecodable frames, changes of codec), one stop: `SkippedIsNotShown`,
`CameraResumes`. The ring: two slots, the fewest the code allows, and four publications,
so that the writer comes round twice under a reader: `ReadersAreServed`, with the ordering
of stores of x86_64. The camera's socket: two connections and three descriptor numbers, so
that one is retired, by poll's answer or by the doorbell, while the other is polled,
accepted under its number or not heard from: no reader is closed for another's hang-up
(`ReadersAreServed`), and each that hung up is retired (`AllEnds`).

**`lost_key`, `x11_codec`, `wl_panic`, `overtaken`, `socket_lost`, `demoted_lease`,
`smear`** each find a violation: section 6.

Every behaviour of the passing runs may come to an end, by the bounds or with a capture torn
down, so that TLC does not check for deadlock: that nothing waits for ever where it must not is
what `NoWakeupLost`, `KeyServed`, `StreamsOrEnds`, `ComesToRest`, `AllEnds`,
`CameraResumes` and `SettlesClean` say instead.

## 4. Fairness

- Encode threads run whenever they can: weak fairness of their steps. So do the steps
  of a capture thread, of the compositor's tick, and of an owner between an unlock and
  its notification: none of them waits on anything but what the guard says.
- Frames are captured at the target rate, so `X11Pipeline` and `StillScreen` may count on
  `process` being called. A change of the screen is never fair, and a caret may blink for
  ever or stop. A consumer reports a loss in the end.
- The interpreter's lock is handed to a thread that waits for it (strong fairness of the
  steps that take it): CPython's asks its holder to drop it and waits for the switch.
- Where captures, recordings and frames are bounded (`CaptureRestart`, `Recorder`),
  `MCConsumers` asks weak fairness of all their threads together: no thread can go on for
  ever, so the fairness of each follows.
- The camera server's thread runs whenever poll has an answer for it; nobody has to hang up
  or to stop it.
- The camera's client goes on sending frames, and sends a key frame if it is asked for one
  again and again (strong fairness): the code asks until it has one.
- Nothing else outside is fair: no server comes back, no client asks, no engine mends, no
  stop is requested and no wait times out. `KeyServed` holds with an engine that fails
  every encode for ever.
- `StreamsOrEnds` excepts nothing: a stay of the server away ends the capture by its
  own counters.

## 5. The proofs

Each module extends what it proves about and has the same plan: the types, then the
inductive invariant in named parts, a lemma for each step or each helper of the code, and
the theorems last. What a theorem states of a run's property it states for every value of
the constants; the values of the `.cfg` appear nowhere, and the bounds on frames and events
are arbitrary numbers.

**`EncodeThreadProofs`**, of `MCEncodeThread`.

- The pool, for any set of buffers and any number of frames. The inductive invariant adds to
  the checked ones `HoldersInv`: who holds what in each state of the two threads (at most one
  buffer is reserved, an encoding thread has a frame, the calloop holds nothing while it
  notifies). Without it a step of `Publish` from an arbitrary state could drop a reservation.
  `BuffersAreConserved`, `PublishIsLossless` and `FramesInOrder` are its conjuncts, and
  `PoolImplementsHandoff` maps every step to a step of `Handoff` or to none.
- The pipelines, for any threshold, codec, engines and sequence of failures:
  `RecoveryIsBounded` and `KeyStaysArmed`. On X11 the invariant adds `Remembered` (an engine
  opened again since the last success is remembered in `hw_rebuilt`), `Demoted` (a demoted
  pipeline is told to use the CPU, and one that is drives no engine, whatever a reshape
  copies over its settings) and `HeldInside` (a unit stays only inside a session that hands
  its units back late). On Wayland `WaylandRebuilt` allows the one rebuild to be forgotten
  where the engine did not come back, since the session is then none that fails, and
  `WaylandServed` says that what is owed after a unit came out was asked for after the swap,
  and is in the flag. The Wayland half is for the `Breakable` of the run, the engine: a
  library that fails too is rebuilt again and again there (section 6).
- The pacing, for any rates, lateness and slack of the timer (less than half a period), of
  every loop: `RateIsKept` and `ChangesAreShown`. `PaceInv` relates what the frames sent are
  worth, ahead and behind, to where the last window ends (`Worth`): a window not yet over is
  what a loop may be ahead by, and on a loop that sends one a tick no window is given up that
  did not pass whole (`LastPast`, where the periods are divided), which is what it may be
  behind by. `Sleeping` bounds the timer by the end of the window, and `Waiting` adds the time a
  change has waited to the time the timer still sleeps: the one grows as the other shrinks, so
  that only what the loop comes late by is left over. For the compositor's timer, armed for a
  window of the rate before, and the host's, held off while no frame comes, the sum has the
  surplus that `ChangeIsShown` tells (`Bonus`).
- `EncodeThreadTypes`, the types of all four.

**`X11CaptureProofs`**, of `MCX11Capture`.

- The controls, for any setters and any number of updates: `RatesSettle`, `LastTuningRuns`
  and, of both, `UpdatesRun`. The property says nothing until all is quiet; the invariant
  says, field by field, that a field the session does not run at is yet to be loaded, or a
  flag is up, or a setter has its flag still to raise (`RateTold`), and that the mutex holds
  the newest tunables or nothing (`TuningTold`).
- The surfaces, for any number of them, all sizes, regions and budgets: `CaptureTypes`,
  `ReadsAreLive` and `SurfacesInOnePlace`. The invariant is what each thread holds at each of
  its steps (`Holding`), that a surface is in one place (`Places`), that a frame in flight is
  of the surfaces there are (`Births`), and that the encoder's registrations are of the
  generation it reads (`Registered`). From the last two comes that a drain, with its resize,
  can have no frame pass it by.
- `ShrinksAreSpent`: a connection that answers is given up only after more changes from
  outside than the failures the capture takes, because a failed grab with the server
  answering means a root that shrank since the size was asked (`Chased`).
  `ShrinksAreFollowed`, which states the run's `ShrinkIsFollowed`, therefore has the hypothesis
  `MaxChanges <= GrabFailures`: with the 120 failures of the code, a root that changes between
  120 grabs in a row would indeed end the connection.

**`ReferenceSessionProofs`**, for every buffer, anchor count, period, wrap and schedule of
reports (`IdMod` at least 2). `LossesArePredictedPast`, that nothing valid depends on a frame
reported lost, and `RecentAgreesWithHeld`. The property alone is not inductive. The
invariant adds

- `NamesCoded`: what the window names are frames that were coded, under their ids;
- `Queues`: the memory is unbroken from its front on, so that a loss found in it is
  newer than all it forgot;
- `Chains`: a frame depends on itself and on nothing before its key frame;
- `LeftOut`: nothing valid depends on what is remembered as left out (which a second
  report of the same frame relies on);
- `Dating`: ids are the capture's count, which grows, and the age of the key frame is
  right for half the ids: from this comes that a report older than the memory is
  told from one newer than the key frame across the wrap.

One lemma says what leaving frames out keeps (`LeftKeeps`), one what recording adds
(`RecordKeeps`), one that a loss leaves nothing valid behind it (`LossLeavesNothing`);
each action is then a combination of the three. On the same invariant rest

- `WindowWithinBuffer`: the recent frames and the anchors in use share the buffer. It needs
  `Bounded`, that the window also holds no frame twice: an anchor's share is lent while it
  holds nothing valid, and must be taken back by the trim of the frame that fills it.
- `LostTwiceIsLostOnce`: a report of a frame already left out changes nothing, in every
  window, whatever the ids have wrapped to in between.
- `PinnedSparesAKey` and `TwoAnchorsKeepPinned`: while the newest anchor every consumer holds is
  kept, a later loss costs no key frame; and neither the schedule nor a loss takes it away.
  The second is for `FrameNumRange = 0`, as the codecs with two anchors (H.265 and AV1) have no
  `frame_num`; with a wrap the frame at it would be held to what is common, which is another
  claim. The proof found one more way to lose the anchor that `PinnedStep` had to name: the
  notes of what is held are cut to the newest `RECENT_FRAMES`, so that after as many newer frames
  were noted as held, an older anchor is pinned no more.
- `NamesWhatItPredictsFrom`: the anchor the device is told of holds the frame predicted from, for
  a frame coded once.
- `DecoderKeepsReference`: an H.264 decoder, whose `frame_num` counts the pictures it missed, still
  has the recent frame predicted from. `forget_stale` looks for the oldest frame to leave out by
  its id, among the frames remembered; so the invariant (`Laid`) says that every recent frame held
  is remembered (`Recalls`), that two remembered under one count are a picture taken back and the
  one coded in its place (`CountsTell`), and how far back the frames held can reach: every frame
  since one held is held beside it or went to an anchor (`Spread`, with `Started` for the first
  ones), which only the frames on the schedule or at a `frame_num` of 0, and the ones after them,
  may do (`Marked`). With periods of 6 or more one frame in every five is neither (`OneInFive`), so
  the frames held are among the last five times their number, and remembered. It has two hypotheses.
  `Paced` is about the constants: both periods are at least 6 and the memory at least five
  buffers. The code has 48, a power of two from 16 on, and 512 for buffers of 16; the checked
  run, with periods of 3 and 4, is small enough to hold it all at once and checks the property
  without it. `[]YoungIds`: no frame is remembered while more than all the ids are captured;
  else the id of a stale frame would name a newer one, and the stale one stay. `IdsYoungWhileFew`
  gives it where `MaxFrames + MaxEvents <= IdMod`, as `IdsDifferWhileFew` does below.

**`ReferenceSlotsProofs`**, the same of VP8's and VP9's slots, for any ring, period and memory:
`BuffersPredictPastLoss` and `AnchorStaysPinned`. The invariant is simpler, as a loss leaves out
everything newer: `Remembered` (the last `RecentFrames` under their ids), `Chained` and
`Dating`. The first leaves aside what depends on a key frame coded twice, whose loss goes unheard (section 6).
Both have the hypothesis that two remembered frames of one id are the two codings of one
captured frame (`RecentIdsDiffer`).
`ReferenceSlots::invalidate` (`reference.rs` 1049) looks for an id from the
oldest remembered frame on, where `acknowledge` (858) and the window look from the newest; ids
count the frames captured, not those coded, so that 512 coded frames span more than the 65536
ids if 65536 frames are captured between them, and an id may then name two. The oldest would be
the wrong one for `AnchorStaysPinned`, which would see an anchor left out by a loss that came
after it. `IdsDifferWhileFew` proves that the hypothesis holds while no more frames are captured
than there are ids, as in the checked run.

**`ReferenceProofs`**, of `MCReference`: `SessionsTyped`, `WindowsPredictPastLoss`, `WindowsAgree`,
`WindowsWithinBuffer`, `ReportsRepeat`, `AnchorsStay`, `PredictedIsKept`, `BuffersPredictPast` and
`ChangesLand`, the run's own properties for all its sessions at once. Each session of the run is an instance of a
component; the lemmas `Same...` show that it is the same formula as the instance of the proof
module under the same constants, and `StepOfEach` that a step is one of the session's own or
leaves it alone. The theorems about the slots keep the hypothesis above as `[]SlotIdsDiffer`;
`SlotIdsDifferWhileFew` gives it for `MaxFrames + MaxEvents <= IdMod`. `ChangesLand` is proved here
of `StillScreen`, for any bands, thresholds, durations and bursts: a band out of a damage block
was hashed with the screen of the frame before or never (`StillInv`), so that what changed since
is seen as dirty by the frame that carries it, whatever the blocks leave unread.

**`CaptureLifecycleProofs`**, for any threads, captures, calls and timeouts:
`LifecycleTypes`, `ReferencesPair` and `NothingElseIsLost`. The invariant adds where a
launched capture can be (`InPlace`: starting, published, published over, or awaited by
the one start that launched it, and nowhere twice) and that a capture thread that
ended is flagged (`ThreadsAgree`). From these comes that a superseded capture was
flagged before it leaves the registry, and that a publication counts a new user.
`IdleHandleIsQuiet` adds `QuietInv`: for every capture that makes a sound somebody answers, the
handle or a call that waits for it (`Answered`), and a delivery thread that ended left nothing
behind (`DeliveryAgrees`). A call can only return once what it waited for is quiet or left to
itself, so that with no call under way and an empty handle nothing but those is heard.

**`CaptureRestartProofs`**, for any number of captures, frames and host buffers:

- `BarrierFences`. A restart or a demotion has the new encode thread wait for its predecessor,
  and the calloop keeps, or reaps, only the newest: the Barrier joins the head of each chain.
  The invariant says which threads form a chain (`Joined`, over the captures from one to the
  next, `Chained`), that a thread past its wait has all those before it ended
  (`PredecessorsEnded`), and that every thread that runs is in a chain whose head the Barrier
  comes to wait for (`EncodersKept`); and the same of the delivery threads (`DeliveryInTurn`,
  `DeliveriesKept`). Stating the chain by the captures between its ends, and not step by step,
  is what makes an induction along it unnecessary.
- `FramesInOrder`. Frames of a capture come before those of a later one wherever both are carried
  (`CapturesOrdered`), and within a capture the further along the earlier (`ThreadsOrdered`,
  `OutOrdered`), where the outgoing thread of a demotion goes ahead of the incoming one.
- `FramesStayLent`. `published` and `recycled` are counts that publish and recycle raise apart; that
  they tell which loans are done is `CountsRight`: what was published and not yet recycled is in
  the slot or in the thread's hand, each on loan for as long (`Borrowed`), and a host buffer has
  one loan at most (`Lending`). `Untorn` follows a frame read too late to where it is discarded.
- `RestartTypes`, the types with the counters' bounds. That no more encodes are counted than frames
  were published needs `RecycledBehind`: the count stays behind the number of every frame of the
  running capture that is still to be encoded, whichever of the two threads of a demotion has it.

**`ConsumersProofs`**, of `MCConsumers`: the three of `CaptureRestart` as properties of the run
(`BarrierFences`, `FramesStayLent`, `CallsInOrder`), and

- the socket, for any clients, queue depth and length of the stream: `KeyFrameIsOwed` and
  `SentWithoutGap`. The second needs `InRun`: what waits for a client, its last frame sent, the
  one being written and its queue, is one unbroken run (`OnTheWay`) that ends at the last frame
  offered, for as long as the client is listed.
- the camera, for any queue depth, faults and stops: `NothingSkippedIsShown`, by `Parking`: a
  worker that is not parked lacks nothing it left out itself.
- the camera's ring and its socket, both in `ReadersServed`. The ring, for any number of slots from
  two on and of pictures, abandoned ones among them, with stores that arrive in program order and
  raw pictures: the invariant says how many of a publish's seven stores are on their way and what
  the slot holds with each number of them (`Written`, `Retracted`), that every other slot holds one
  picture (`Settled`), and that the header names a slot whose picture is as new as it says
  (`HeaderInv`). For the reader (`ReaderInv`), sequences only grow: as long as the one it read
  first is even and has not moved, what it copied is what the slot holds, and where it moved the
  last load will differ. The socket, for any connections and descriptor numbers: a connection has
  one place (`OnePlace`), what poll said of a number is true of who has it now or the number was
  taken over (`HupsKnown`), and the count is that of the marks in the list (`Counted`), through
  scans that retire clients from the list they go through.
- `ConsumersTypes`, the types of all six with the bounds of their queues and counters, for any depth
  of the socket's, the recorder's and the camera's. On the socket it needs that a frame under encode is not the
  last of the bound yet (`SinkTypes`).

Assumptions: those named in the modules, each evaluated by TLC on a run, and the hypotheses
told above (`MaxChanges <= GrabFailures`, `[]SlotIdsDiffer`, `FrameNumRange = 0`, `Paced` and
`[]YoungIds`). Within the
reference session a report arrives before half the ids have gone by, a guard of the model
(`Reportable`).

Only model-checked is liveness, with the fairness part of `ImplementsHandoff`, which the prover
does not reach: `KeyServed`, `NoWakeupLost`, `SettlesClean`, `StreamsOrEnds`, `ComesToRest`,
`AllEnds`, `CameraResumes`. Every other property the passing runs check is a theorem here for
every value of the constants, under the hypotheses told.

## 6. Where the code does otherwise

Seven runs find a state a comment of the code says does not occur.

- `lost_key`: `encoders/nvenc.rs` 3981. A key frame the window forces (nothing valid
  left) and that comes out over its budget is coded again; it was recorded, and is not
  taken back. Where the second coding fails nothing is delivered, and unless the key
  frame was also requested, nothing arms another: the frames that follow predict from
  a key frame no client got. `lib.rs` 1906 says an IDR so lost "would never
  self-heal", which is why requests stay armed; this one was not a request.
- `x11_codec`: `pipeline.rs` 1757. After the ladder fell through to another codec,
  surfaces recreated at the same size copy the requested codec over the session's;
  `codec()` and the stripes then name a codec "the pipeline actually emits" no more
  (`pipeline.rs` 1700).
- `wl_panic`: `lib.rs` 2791. A zero-copy encode thread that panics leaves the session's
  mutex poisoned. The tick repairs that (4331) but a StartCapture ahead of the next tick
  unwraps the lock, on the compositor's thread.
- `overtaken`: `lib.rs` 9672-9685. `start_capture` stops what there is, and lets the
  interpreter's lock go while it does (9376). Another start may run to its end in the
  meantime; the first then launches its own capture and publishes it over the other's.
  Only a capture still in `starting` is flagged (9536-9544), so the one replaced runs
  on, with no handle to stop it but the sweep at exit, and the cursor reference it
  took is never given back, while 9194 says acquire and release "pair exactly per
  capture". `RunningIsHeld` and `CursorIsPaired` say that these are the only
  captures and references lost so.
- `socket_lost`: `lib.rs` 1694. The encode thread holds the recording sink strongly from
  the frame's start to its hand-over, so that the drop at the teardown is not the last;
  the sink's own drop then unlinks the path after the next capture has bound its socket
  there. 2205 says dropping it at the teardown "is what keeps the outgoing sink's unlink
  from stripping the successor's socket path".
- `demoted_lease`: `lib.rs` 4732. The demotion of a zero-copy session hands every lent frame
  back to the host at once; the outgoing encode thread may still read one and deliver it.
  2328 says all of them only "where the capture is going away". `LentUntilDemoted`
  holds for every capture that was not demoted.
- `smear`: `webcam/mod.rs` 728. A frame evicted from the full queue asks for a key frame
  and parks nothing: the frames behind it are decoded and shown, while 356 says "a consumer
  never sees the smear of predictions built on a missing reference".

Met while reading and modelling, without a run of their own:

- `encoders/nvenc.rs` 3986: the second coding of a frame is given the anchor planned
  for the first; taking the first back may leave another frame to predict from, which
  `reference.rs` 467-471 says the encoder names. Nor does `forget_stale` (`reference.rs`
  438-446) run again ahead of it (3977). `PredictsFromKept` excepts both.
- `encoders/reference.rs` 1048: a second report of a frame the VP8 and VP9 slots already
  left out leaves the newer frames' slots out too (`RepeatedIsIgnored`, which the window
  has and the slots do not): a needless key frame.
- `encoders/vpx.rs` 625-629: a key frame coded again is recorded twice under one id, and the
  second coding alone is sent. A report that it was lost finds the first (`reference.rs`
  1048), which no slot holds any more, takes it for a loss already seen (1050-1052) and does
  nothing: the frames that follow predict from a key frame the client lost. Without its
  exception of such a frame (`CodedTwice`), `SlotsPredictPastLoss` fails in three states: a
  key frame coded twice, and reported.
- `encoders/nvenc.rs` 3836-3858: where the device refuses to forget a frame the window has left out
  and the key frame forced by that fails, nothing forces another: the device, which forgot
  nothing, may go on predicting from that frame. `EncodeFails` follows the window's account,
  and so do the properties.
- `encoders/reference.rs` 1049: an id that names two remembered frames is taken for the oldest
  by a loss and for the newest by an acknowledgement (section 5).
- `pipeline.rs` 1616-1618 says a demoted pipeline's recovery is never re-entered; a
  full-frame software session counts its failures and is rebuilt (`DemotionHolds` still
  holds: never with an engine).
- `x11/mod.rs` 901-903: a pipeline replaced by a resize drops the key frame it had armed,
  while `pipeline.rs` 2112 says an unserved request stays armed. Its successor's first
  frame is a key frame, if it encodes. `KeyArmed` excepts the replacement.
- `lib.rs` 1793-1801 says the recovery would otherwise "rebuild in a loop"; `hw_rebuilt`
  (1856) is set only where the rebuild allowed the engine, so that a full-frame software
  session that fails too is rebuilt again and again. `RecoveryEnds` is checked with
  libraries that do not fail, on Wayland.
- `lib.rs` 1335-1337 and `x11/mod.rs` 845-847 say an update is never seen half applied; the
  encode thread can load some fields of one update and some of the next. The flag of the
  second brings the rest with the next frame, which is `UpdatesSettle`.
- `pipeline.rs` 2002: `process` tells the region nothing of an encode that failed. A cleanup
  whose encode and whole burst fail leaves the consumer with a still picture that is
  coarse, or an older one, until the screen changes (`Excused` in `StillScreen`).
- `pipeline.rs` 1544, 1905: in Turbo with hashes taken on the device, a frame decided as a
  cleanup is compared with the last frame *checked* on the CPU instead of the one before
  it: the first cleanup after a longer motion is coded as motion, and a change that lands
  back on what was checked last is coded at the paint-over quality, against 1827. Read
  only: the hash modelled is the CPU's.
- With a burst of zero at constant quality, a key frame requested on a clean still screen
  is coded at the session's quality and nothing makes the cleanup due again, as
  `decide_constant_quality` does not call `lost_frame` where the constant-rate path does
  (869). `StillScreenAssumption` asks for a burst.
- `webcam/ring.rs` 276: `FrameRing` with `Weak` (a memory that orders no more than the code
  asks for, as on aarch64) lets a reader accept a torn copy, the odd sequence being a
  release store that later plain stores may overtake; and with `Compressed` a fill that
  fails part way spoils the newest slot once the ring has come round to it. `ReadersAreServed`
  is checked without either.
- `webcam/server.rs` 131: the doorbell may close a client's descriptor while poll's answer
  about it is still to be read; a connection accepted in between (249) can be given its
  number and, at its place of the list, is closed for the old one's hang-up, which the
  comparison of descriptors (257) is there to tell apart. `ReadersAreServed` excepts the
  client whose number was taken over (`renamed`).
- `webcam/mod.rs` 586, 736-751: `stop` takes the running camera out and then joins its worker
  with the interpreter's lock let go. Another thread's `start` meanwhile finds nothing to stop and binds its
  socket; the old server's drop (`server.rs` 160) then removes the path the new one listens at.
  Two starts that overlap both launch: the second's store drops the first's `Running`, which
  closes no queue, so that its worker waits on. Read only: one camera is followed, to its stop.
- `lib.rs` 4546-4553, 7635: under a host's capture a tick without a frame holds the timer off
  for up to one and a half periods, and the timer is armed only when it fires. A second frame of
  the host behind one that ended the deferral waits for that timer while its window is open,
  unless the loop has another turn; `pace.rs` 126-128 says it "waits only for the next window
  to open". The bound of `ChangeIsShown` is half a period wider there.
- `lib.rs` 4530-4557, 7483: a frame of the host whose size is not the capture's marks a change and
  publishes none; the mark stays, `next_wake` then answers the open window, and the timer fires
  each millisecond until a frame of the right size comes. `pace.rs` 344-346 says such a tick "must
  neither spin the timer nor move the cadence". `PaceHolds` excepts it (`misfit`).
- `lib.rs` 7619-7644: a change that meets a full pool in an open window, with the timer armed for
  the window's end, waits for that end although the pool has room again: nothing wakes the loop
  when a buffer comes back. `ChangeIsShown` excepts changes held up so.
- `x11/dri3.rs` 1282-1301: a grab that fails after its tick was recorded as sent goes on to the
  next; on a screen that then stays still, the change it was for waits for the cleanup.

## 7. What is not modelled

- **Generated bindings and drivers**: the bindings of NVENC, VA-API and the like are more
  than half of the repository's lines and have no behaviour of their own; bitstream writing
  and parsing, colour conversion, the parameters each backend is opened with, ioctls, GPU
  semaphores. Nothing interleaves within them that the properties here could tell apart.
- **Protocol clients and handlers**: the compositor's and the host compositor's, whose order
  is set by external programs and libraries.
- **Time**: outside `FramePace` pacing appears as "a frame is captured", and a cleanup's
  periods are counts of frames. Of the pacing, the budget mode of `FramePace` (every capture is
  paced in windows), the frame callbacks answered on a window's boundary (`lib.rs` 4142-4189),
  the idle ticks without a capture, screenshots, which pass `due` by (4244) and take a window
  each, frames withheld while an output
  waits for its content (counted as sent), and the fake vblank's rate (`VblankRate`).
- **In the modelled parts**: the Wayland branch of start and stop in `CaptureLifecycle` (the
  ownership of a display; the compositor's side of it is `CaptureRestart`), the sweep at the
  interpreter's end and the cursor monitor's own thread; the region's origin and the cursor
  overlay of the X11 capture; the fallback from NvFBC and DRI3; damage tracking on Wayland;
  the cleanup through the rate control with its sweeps and held bands, its key-frame kind,
  and the striped path's own per-stripe decisions; periodic key frames; rate control and
  second coding budgets, as a choice; a recorder's status and its command in the compositor's
  queue; the camera socket's refusal of other users' connections and a poll that fails.
- **VAAPI's and Tegra's own use** of the reference window: the window is theirs too, the
  session modelled is NVENC's.

## 8. The plan

Done: the hand-over, loss recovery in windows and slots, the X11 capture and its pipeline, the
cleanup of a still screen, the Wayland encode thread and its restarts, the controls, the
lifecycle of a handle, the recorder and its socket, the virtual camera, its ring and its
socket, the frame pacing.

Next, most important first, each with its hazards in `PROJECT.json`:

1. The cleanup through the rate control (`decide_hw_fullframe`: held frames, sweeps,
   measured cleanups, `take_lost_cleanup`), beside `StillScreen`.
2. The compositor's queue of commands: a recorder's start that gives up after three
   seconds, and the capture that comes up later (`recorder/mod.rs` 714).
3. The frame callbacks of the compositor's clients, answered on a window's boundary
   (`answer_frame_callbacks`), beside `FramePace`.

A theorem worth proving next: of the pacing, that the sum of what was sent over any two
instants, not only since the start, keeps to the rate.
