----------------------------- MODULE WaylandEncode -----------------------------
(***************************************************************************)
(* The encode thread of a Wayland capture and the compositor loop that     *)
(* feeds and replaces it (lib.rs: wayland_encode_loop, render_node_tick,   *)
(* start_capture_on_display).  The loop publishes a frame a tick; the      *)
(* thread takes it, swaps the key frame flag, encodes, and arms the flag   *)
(* again where nothing came out.  A session failing Threshold encodes in a *)
(* row is rebuilt once; a zero-copy one is then given up, which ends the   *)
(* thread, and the loop puts a readback path in its place; a readback one  *)
(* is demoted to software.  The frame pool itself is WlFramePool.          *)
(***************************************************************************)
EXTENDS Naturals, EncoderLadder

CONSTANTS
    Requested,     \* the codec of the capture's settings
    Threshold,     \* HW_ERROR_RECOVERY_THRESHOLD
    Breakable,     \* the kinds of session the environment may break
    MaxTurns,      \* bound: times the environment breaks or mends a kind, or an
                   \*   encode has nothing to deliver
    MaxRequests,   \* bound: key frames requested by clients
    MaxStarts,     \* bound: restarts of the capture
    MaxPanics      \* bound: panics of the encode thread

\* What the constants are; the module of the run asserts it.
EncodeAssumption ==
    /\ Requested \in Video
    /\ Threshold \in Nat \ {0}
    /\ Breakable \subseteq {"engine", "library"}
    /\ {MaxTurns, MaxRequests, MaxStarts, MaxPanics} \subseteq Nat

NoSession == [kind |-> "none", codec |-> Requested]

VARIABLES
    mode,        \* "zero" (zero-copy) or "readback"
    codec,       \* the thread's settings.codec
    session,     \* video_encoder, the striped path where it is None
    ready,       \* the published frame: "none", "still" or "changed"
    force,       \* encode_controls.force_idr
    at,          \* where the encode thread stands
    frame,       \* the frame it took
    requested,   \* requested_idr
    out,         \* whether the encode delivered a unit
    streak,      \* hw_error_streak
    rebuilt,     \* hw_rebuilt
    poisoned,    \* the session's mutex, left by a thread that panicked in its guard
    alive,       \* the compositor loop's thread runs
    broken,      \* environment: the kinds of session failing their encodes
    turns, requests, starts, panics, \* the bounded counters
    owed,        \* history: a key frame was asked for and none delivered since
    rebuilds     \* history: engine rebuilds since a success or a new thread, 2 for more

path == <<mode, codec, session>>
flight == <<at, frame, requested, out>>
recovery == <<streak, rebuilt, rebuilds>>
loop == <<poisoned, alive>>
bounds == <<turns, requests, starts, panics>>
vars == <<path, ready, force, flight, recovery, loop, broken, bounds, owed>>

TypeOK ==
    /\ mode \in {"zero", "readback"} /\ codec \in Codecs
    /\ session \in Sessions \cup {NoSession}
    /\ {ready, frame} \subseteq {"none", "still", "changed"}
    /\ at \in {"take", "encode", "recycled", "ended", "panicked"}
    /\ {force, requested, out, rebuilt, poisoned, alive, owed} \subseteq BOOLEAN
    /\ streak \in 0 .. Threshold - 1
    /\ broken \subseteq Breakable /\ rebuilds \in 0 .. 2
    /\ turns \in 0 .. MaxTurns /\ requests \in 0 .. MaxRequests
    /\ starts \in 0 .. MaxStarts /\ panics \in 0 .. MaxPanics

--------------------------------------------------------------------------------

(***************************************************************************)
(* The paths a start may settle on: zero-copy where the engine opens on    *)
(* dmabufs, else a readback thread, which runs the ladder with the engine  *)
(* allowed or not (try_gpu).                                               *)
(***************************************************************************)
ZeroPaths == {<<"zero", s>> : s \in DmabufRungs(Requested, FALSE)}
ReadbackPaths(useCpu) == {<<"readback", s>> : s \in HostRungs(Requested, useCpu)}
StartPaths == ZeroPaths \cup UNION {ReadbackPaths(useCpu) : useCpu \in BOOLEAN}

(***************************************************************************)
(* bootstrap_readback_pool and bootstrap_zero_copy_pool, then request_idr: *)
(* a pool with no frame, a thread with no recovery behind it, and the key  *)
(* frame flag armed.                                                       *)
(***************************************************************************)
Bootstrap(p) ==
    /\ mode' = p[1] /\ session' = p[2] /\ codec' = p[2].codec
    /\ ready' = "none" /\ force' = TRUE
    /\ at' = "take" /\ frame' = "none" /\ requested' = FALSE /\ out' = FALSE
    /\ streak' = 0 /\ rebuilt' = FALSE /\ rebuilds' = 0
    /\ owed' = TRUE

Init ==
    /\ \E p \in StartPaths : mode = p[1] /\ session = p[2]
    /\ codec = session.codec
    /\ ready = "none" /\ force = TRUE
    /\ at = "take" /\ frame = "none" /\ requested = FALSE /\ out = FALSE
    /\ streak = 0 /\ rebuilt = FALSE /\ rebuilds = 0
    /\ poisoned = FALSE /\ alive = TRUE /\ broken = {}
    /\ turns = 0 /\ requests = 0 /\ starts = 0 /\ panics = 0
    /\ owed = TRUE

(***************************************************************************)
(* render_node_tick: composite, and publish what the screen shows with     *)
(* what changed on it.                                                     *)
(***************************************************************************)
Tick ==
    /\ alive /\ at \notin {"ended", "panicked"}
    /\ ready = "none"
    /\ ready' \in {"still", "changed"}
    /\ UNCHANGED <<path, force, flight, recovery, loop, broken, bounds, owed>>

(***************************************************************************)
(* render_node_tick's check of a dead encode thread: the zero-copy session *)
(* is dropped without its lock, and a readback path is built in place.     *)
(***************************************************************************)
Replace ==
    /\ alive /\ at \in {"ended", "panicked"}
    /\ \E p \in ReadbackPaths(FALSE) : Bootstrap(p)
    /\ poisoned' = FALSE
    /\ UNCHANGED <<alive, broken, bounds>>

(***************************************************************************)
(* start_capture_on_display over a running capture: the outgoing session   *)
(* is taken back under its lock, which waits for the frame in flight and   *)
(* unwraps a poisoned one.  The new capture has controls of its own.       *)
(***************************************************************************)
Start ==
    /\ alive /\ starts < MaxStarts /\ starts' = starts + 1
    /\ mode = "zero" => at # "encode"
    /\ IF mode = "zero" /\ poisoned
       THEN /\ alive' = FALSE
            /\ UNCHANGED <<path, ready, force, flight, recovery, poisoned, owed>>
       ELSE /\ \E p \in StartPaths : Bootstrap(p)
            /\ poisoned' = FALSE
            /\ UNCHANGED alive
    /\ UNCHANGED <<broken, turns, requests, panics>>

(***************************************************************************)
(* RequestIdr on a pooled capture; also a loss report the encoder cannot   *)
(* leave out of its predictions, and a recorder joining.                   *)
(***************************************************************************)
Request ==
    /\ alive /\ requests < MaxRequests
    /\ requests' = requests + 1
    /\ force' = TRUE /\ owed' = TRUE
    /\ UNCHANGED <<path, ready, flight, recovery, loop, broken, turns, starts, panics>>

--------------------------------------------------------------------------------

(***************************************************************************)
(* The thread takes the frame, under the session's lock from here on, and  *)
(* swaps the flag.  A rate change the session fails to apply leaves a full *)
(* streak behind it.                                                       *)
(***************************************************************************)
Take ==
    /\ at = "take" /\ ready # "none"
    /\ at' = "encode" /\ frame' = ready /\ ready' = "none"
    /\ requested' = force /\ force' = FALSE /\ out' = FALSE
    /\ \/ UNCHANGED streak
       \/ session.kind \in broken /\ streak' = Threshold - 1
    /\ UNCHANGED <<path, rebuilt, rebuilds, loop, broken, bounds, owed>>

(***************************************************************************)
(* "changed" stands for every frame the decision sends on its own account: *)
(* damage, a cleanup, Turbo.                                               *)
(***************************************************************************)
Sends == frame = "changed" \/ requested

(***************************************************************************)
(* The encode that succeeds and delivers, or is not due.                   *)
(***************************************************************************)
Encode ==
    /\ at = "encode"
    /\ Sends => session.kind \notin broken
    /\ at' = "recycled" /\ out' = Sends
    /\ owed' = (owed /\ ~requested)
    /\ IF Sends /\ session.kind # "striped"
       THEN streak' = 0 /\ rebuilt' = FALSE /\ rebuilds' = 0
       ELSE UNCHANGED recovery
    /\ UNCHANGED <<path, ready, force, frame, requested, loop, broken, bounds>>

(***************************************************************************)
(* The encode that succeeds with nothing to deliver, as an encoder does    *)
(* that holds the frame back: it ends the streak all the same, and Rearm   *)
(* keeps the request.  An encoder that never delivers serves nobody, so it *)
(* counts among the turns.                                                 *)
(***************************************************************************)
EncodeEmpty ==
    /\ at = "encode" /\ Sends
    /\ session.kind \in {"engine", "library"} \ broken
    /\ turns < MaxTurns /\ turns' = turns + 1
    /\ at' = "recycled"
    /\ streak' = 0 /\ rebuilt' = FALSE /\ rebuilds' = 0
    /\ UNCHANGED <<path, ready, force, frame, requested, out, loop, broken, requests,
                   starts, panics, owed>>

Saturated(n) == IF n = 2 THEN 2 ELSE n + 1

(***************************************************************************)
(* A mutant of RecoveryRungs: the demotion still allows the engine.        *)
(***************************************************************************)
RecoveryRungsUndemoted ==
    IF mode = "readback" THEN HostRungs(codec, FALSE)
    ELSE {NoSession} \cup DmabufRungs(codec, FALSE)

(***************************************************************************)
(* What a full streak leaves: a zero-copy session rebuilt once and then    *)
(* given up (NoSession); a readback one rebuilt once and then demoted.     *)
(***************************************************************************)
RecoveryRungs ==
    IF mode = "readback" THEN HostRungs(codec, rebuilt)
    ELSE {NoSession} \cup IF rebuilt THEN {} ELSE DmabufRungs(codec, FALSE)

(***************************************************************************)
(* Mutants of Recover: the rebuild is never remembered; the streak goes on *)
(* counting over the new session.                                          *)
(***************************************************************************)
RecoverForgetful(s) ==
    /\ session' = s /\ codec' = s.codec /\ streak' = 0
    /\ rebuilt' = FALSE
    /\ rebuilds' = IF rebuilt THEN rebuilds ELSE Saturated(rebuilds)
    /\ force' = (force \/ s # NoSession)
    /\ owed' = TRUE

RecoverUncounted(s) ==
    /\ session' = s /\ codec' = s.codec /\ streak' = streak + 1
    /\ rebuilt' = (~rebuilt /\ s.kind \in {"engine", "library"})
    /\ rebuilds' = IF rebuilt THEN rebuilds ELSE Saturated(rebuilds)
    /\ force' = (force \/ s # NoSession)
    /\ owed' = TRUE

(***************************************************************************)
(* The recovery: a rebuild is remembered where it came up full-frame, and  *)
(* a session that came up arms a key frame.                                *)
(***************************************************************************)
Recover(s) ==
    /\ session' = s /\ codec' = s.codec /\ streak' = 0
    /\ rebuilt' = (~rebuilt /\ s.kind \in {"engine", "library"})
    /\ rebuilds' = IF rebuilt THEN rebuilds ELSE Saturated(rebuilds)
    /\ force' = (force \/ s # NoSession)
    /\ owed' = TRUE

(***************************************************************************)
(* The encode that fails, and the recovery of a full streak.               *)
(***************************************************************************)
Fail ==
    /\ at = "encode" /\ Sends /\ session.kind \in broken
    /\ at' = "recycled"
    /\ IF streak + 1 < Threshold
       THEN streak' = streak + 1 /\ UNCHANGED <<codec, session, force, rebuilt, rebuilds, owed>>
       ELSE \E s \in RecoveryRungs : Recover(s)
    /\ UNCHANGED <<mode, ready, frame, requested, out, loop, broken, bounds>>

(***************************************************************************)
(* A mutant of Rearm: the request is forgotten with its frame.             *)
(***************************************************************************)
RearmNever ==
    /\ at = "recycled"
    /\ at' = IF session = NoSession THEN "ended" ELSE "take"
    /\ UNCHANGED <<path, ready, force, frame, requested, out, recovery, loop, broken,
                   bounds, owed>>

(***************************************************************************)
(* The end of the frame: an unserved request is armed again, and a session *)
(* given up ends the thread.                                               *)
(***************************************************************************)
Rearm ==
    /\ at = "recycled"
    /\ force' = (force \/ (requested /\ ~out))
    /\ at' = IF session = NoSession THEN "ended" ELSE "take"
    /\ UNCHANGED <<path, ready, frame, requested, out, recovery, loop, broken, bounds, owed>>

(***************************************************************************)
(* The thread panics in its encode, holding the session's guard.           *)
(***************************************************************************)
Panic ==
    /\ at = "encode" /\ panics < MaxPanics /\ panics' = panics + 1
    /\ at' = "panicked" /\ poisoned' = TRUE
    /\ UNCHANGED <<path, ready, force, frame, requested, out, recovery, alive, broken,
                   turns, requests, starts, owed>>

Turn ==
    /\ turns < MaxTurns /\ turns' = turns + 1
    /\ \E k \in Breakable :
           broken' = IF k \in broken THEN broken \ {k} ELSE broken \cup {k}
    /\ UNCHANGED <<path, ready, force, flight, recovery, loop, requests, starts, panics, owed>>

Next ==
    \/ Tick \/ Replace \/ Start \/ Request
    \/ Take \/ Encode \/ EncodeEmpty \/ Fail \/ Rearm \/ Panic
    \/ Turn

(***************************************************************************)
(* The loop ticks at the target rate and the thread runs whenever it has a *)
(* frame; which frames change, what breaks and who asks is not fair.       *)
(***************************************************************************)
Spec ==
    /\ Init /\ [][Next]_vars
    /\ WF_vars(Tick) /\ WF_vars(Replace)
    /\ WF_vars(Take) /\ WF_vars(Encode \/ Fail) /\ WF_vars(Rearm)

--------------------------------------------------------------------------------

(***************************************************************************)
(* "An unserved request stays armed": an owed key frame is in the flag, or *)
(* with the frame in flight, or with a thread that ended, whose            *)
(* replacement arms one; across errors, recoveries, restarts and panics.   *)
(***************************************************************************)
KeyArmed ==
    owed => \/ force
            \/ requested /\ at \in {"encode", "recycled"}
            \/ session = NoSession
            \/ at \in {"ended", "panicked"}

(***************************************************************************)
(* An owed key frame is delivered, on a still screen and with an engine    *)
(* that fails every encode for ever and still opens: a zero-copy session   *)
(* is given up, the readback one rebuilt and demoted.  A compositor loop   *)
(* that died delivers nothing.                                             *)
(***************************************************************************)
KeyServed == (owed /\ alive) ~> (~owed \/ ~alive)

(***************************************************************************)
(* Recovery: "rebuild it once with the startup selection, then demote...   *)
(* otherwise the stream would rebuild in a loop": between two successes a  *)
(* thread opens the engine again at most once.  It holds while software    *)
(* encodes; a full-frame software session that fails too is rebuilt with   *)
(* the engine allowed, again and again.                                    *)
(***************************************************************************)
RebuildOnce == rebuilds <= 1

(***************************************************************************)
(* render_node_tick: "A dead encode thread (a panic, a zero-copy session   *)
(* given up) cannot drain its pool... A readback path is rebuilt in place":*)
(* a panic of the encode thread leaves the loop running.  A restart before *)
(* the next tick unwraps the poisoned lock and takes the loop with it.     *)
(***************************************************************************)
LoopOutlivesPanic == alive

=============================================================================
