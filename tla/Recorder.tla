------------------------------- MODULE Recorder -------------------------------
(***************************************************************************)
(* The MP4 recorder (recorder/mod.rs): start and stop, called from Python, *)
(* the REST server and the exit hook at once, over three statics, the       *)
(* thread that feeds a recording and the one that writes it.               *)
(*                                                                         *)
(* A recording taps the live Wayland capture of a client, or a capture of  *)
(* its own, on Wayland by the same tap or on X11.  What an MP4 holds is    *)
(* left out; the writer runs until the last sender of its queue is gone,   *)
(* and who still holds one is what the module is about.                    *)
(***************************************************************************)
EXTENDS Naturals, Sequences

CONSTANTS
    Callers,        \* threads that start and stop recordings
    QueueCap,       \* QUEUE_CAP
    MaxRecordings,  \* bounds: recordings started,
    MaxFrames       \*   frames offered
None == 0

RecorderAssumption == QueueCap \in Nat /\ MaxRecordings \in Nat /\ MaxFrames \in Nat

Recordings == 1 .. MaxRecordings
Modes == {"attached", "own", "x11"}

VARIABLES
    active,     \* ACTIVE: the recording in it, or None
    lock,       \* who holds its mutex over a start, <<>> without
    armed,      \* WL_TAP_ARMED
    tap,        \* WL_TAP: the recording it feeds, or None
    pc, of,     \* per caller: where its call is, and the recording it is about
    mode,       \* per recording, chosen by its start
    feeding,    \* the Wayland encode thread: the tap it has cloned, or None
    capturing,  \* per recording: its own X11 capture runs
    audio,      \* its audio thread runs
    queue,      \* frames and packets in its queue
    writer,     \* its writer: "none", "running", "ended"
    started, offered  \* the bounded counters

vars == <<active, lock, armed, tap, pc, of, mode, feeding, capturing, audio, queue,
          writer, started, offered>>
statics == <<active, lock, armed, tap>>
threads == <<feeding, capturing, audio, queue, writer>>

TypeOK ==
    /\ {active, tap, feeding} \subseteq 0 .. started
    /\ lock \in {<<>>} \cup {<<k>> : k \in Callers} /\ armed \in BOOLEAN
    /\ pc \in [Callers -> {"idle", "fed", "taken", "disarmed", "joining"}]
    /\ of \in [Callers -> 0 .. started]
    /\ mode \in [Recordings -> Modes]
    /\ {capturing, audio} \subseteq [Recordings -> BOOLEAN]
    /\ queue \in [Recordings -> 0 .. QueueCap]
    /\ writer \in [Recordings -> {"none", "running", "ended"}]
    /\ started \in 0 .. MaxRecordings /\ offered \in 0 .. MaxFrames

Init ==
    /\ active = None /\ lock = <<>> /\ armed = FALSE /\ tap = None
    /\ pc = [k \in Callers |-> "idle"] /\ of = [k \in Callers |-> None]
    /\ mode = [r \in Recordings |-> "attached"]
    /\ feeding = None /\ capturing = [r \in Recordings |-> FALSE]
    /\ audio = [r \in Recordings |-> FALSE] /\ queue = [r \in Recordings |-> 0]
    /\ writer = [r \in Recordings |-> "none"] /\ started = 0 /\ offered = 0

-----------------------------------------------------------------------------
(* start, under the lock of ACTIVE throughout.                             *)

At(k, from, to) == pc[k] = from /\ pc' = [pc EXCEPT ![k] = to]

\* The feed comes up first: the tap, or the recording's own X11 capture.
Feed(k) ==
    /\ lock = <<>> /\ active = None /\ started < MaxRecordings
    /\ At(k, "idle", "fed")
    /\ lock' = <<k>> /\ started' = started + 1 /\ of' = [of EXCEPT ![k] = started + 1]
    /\ \E as \in Modes :
        /\ mode' = [mode EXCEPT ![started + 1] = as]
        /\ capturing' = [capturing EXCEPT ![started + 1] = (as = "x11")]
        /\ IF as = "x11" THEN UNCHANGED <<armed, tap>>
           ELSE armed' = TRUE /\ tap' = started + 1
    /\ UNCHANGED <<active, feeding, audio, queue, writer, offered>>

\* Mutant of Disarmed: the tap is told to rest and stays where it is.
DisarmedOnly == armed' = FALSE /\ UNCHANGED tap

\* disarm_tap.
Disarmed == armed' = FALSE /\ tap' = None

\* The capture does not come up: an own Wayland one in three seconds, or the
\* X11 one, whose thread has ended.
Fail(k) ==
    /\ At(k, "fed", "idle")
    /\ mode[of[k]] # "attached"
    /\ IF mode[of[k]] = "own" THEN Disarmed ELSE UNCHANGED <<armed, tap>>
    /\ capturing' = [capturing EXCEPT ![of[k]] = FALSE]
    /\ lock' = <<>> /\ of' = [of EXCEPT ![k] = None]
    /\ UNCHANGED <<active, mode, feeding, audio, queue, writer, started, offered>>

\* The audio thread, where there is a source, the writer, and the handle.
Activate(k) ==
    /\ At(k, "fed", "idle")
    /\ active' = of[k] /\ lock' = <<>> /\ of' = [of EXCEPT ![k] = None]
    /\ writer' = [writer EXCEPT ![of[k]] = "running"]
    /\ \E sound \in BOOLEAN : audio' = [audio EXCEPT ![of[k]] = sound]
    /\ UNCHANGED <<armed, tap, mode, feeding, capturing, queue, started, offered>>

-----------------------------------------------------------------------------
(* stop, which lets the lock go with the handle taken.                     *)

Take(k) ==
    /\ lock = <<>> /\ active # None
    /\ At(k, "idle", "taken")
    /\ of' = [of EXCEPT ![k] = active] /\ active' = None
    /\ UNCHANGED <<lock, armed, tap, mode, threads, started, offered>>

Disarm(k) ==
    /\ At(k, "taken", "disarmed")
    /\ Disarmed
    /\ UNCHANGED <<active, lock, of, mode, threads, started, offered>>

\* The recording's own capture is stopped, its audio thread joined, and the
\* handle's sender dropped.
Quiet(k) ==
    /\ At(k, "disarmed", "joining")
    /\ capturing' = [capturing EXCEPT ![of[k]] = FALSE]
    /\ audio' = [audio EXCEPT ![of[k]] = FALSE]
    /\ UNCHANGED <<statics, of, mode, feeding, queue, writer, started, offered>>

\* The writer joined, and the last status read.
Return(k) ==
    /\ At(k, "joining", "idle")
    /\ writer[of[k]] = "ended"
    /\ of' = [of EXCEPT ![k] = None]
    /\ UNCHANGED <<statics, mode, threads, started, offered>>

-----------------------------------------------------------------------------
(* The threads of a recording.                                             *)

Frame == offered < MaxFrames /\ offered' = offered + 1

\* Mutant of Offer: a full queue takes more.
OfferOver(r) == queue' = [queue EXCEPT ![r] = @ + 1]

\* offer_frame, or a packet: dropped at a full queue and where no writer is left.
Offer(r) ==
    queue' = [queue EXCEPT ![r] =
                IF @ < QueueCap /\ writer[r] # "ended" THEN @ + 1 ELSE @]

\* wayland_tap clones the tap of the encode thread's frame, then offers it.
CloneTap ==
    /\ armed /\ tap # None /\ feeding = None
    /\ Frame
    /\ feeding' = tap
    /\ UNCHANGED <<statics, pc, of, mode, capturing, audio, queue, writer, started>>

OfferTap ==
    /\ feeding # None /\ feeding' = None
    /\ Offer(feeding)
    /\ UNCHANGED <<statics, pc, of, mode, capturing, audio, writer, started, offered>>

\* The recording's own X11 capture, or its audio thread, offers to it.
OfferOwn(r) ==
    /\ capturing[r] \/ audio[r]
    /\ Frame /\ Offer(r)
    /\ UNCHANGED <<statics, pc, of, mode, feeding, capturing, audio, writer, started>>

\* Whoever can still send to the recording's queue.
Sender(r) ==
    \/ r \in {active, tap, feeding} \/ capturing[r] \/ audio[r]
    \/ \E k \in Callers : of[k] = r /\ pc[k] # "joining"

Write(r) ==
    /\ writer[r] = "running" /\ queue[r] > 0
    /\ queue' = [queue EXCEPT ![r] = @ - 1]
    /\ UNCHANGED <<statics, pc, of, mode, feeding, capturing, audio, writer, started,
                   offered>>

\* The file is finished once every sender is gone and the queue is empty.
Finish(r) ==
    /\ writer[r] = "running" /\ queue[r] = 0 /\ ~Sender(r)
    /\ writer' = [writer EXCEPT ![r] = "ended"]
    /\ UNCHANGED <<statics, pc, of, mode, feeding, capturing, audio, queue, started, offered>>

\* A write to the file fails: the queue goes with the writer.
Break(r) ==
    /\ writer[r] = "running"
    /\ writer' = [writer EXCEPT ![r] = "ended"] /\ queue' = [queue EXCEPT ![r] = 0]
    /\ UNCHANGED <<statics, pc, of, mode, feeding, capturing, audio, started, offered>>

-----------------------------------------------------------------------------
StopStep(k) == Disarm(k) \/ Quiet(k) \/ Return(k)
Writing(r) == Write(r) \/ Finish(r)

\* What goes on by itself.
Going ==
    \/ \E k \in Callers : StopStep(k)
    \/ OfferTap
    \/ \E r \in Recordings : Writing(r)

Next ==
    \/ \E k \in Callers : Feed(k) \/ Fail(k) \/ Activate(k) \/ Take(k)
    \/ CloneTap \/ Going
    \/ \E r \in Recordings : OfferOwn(r) \/ Break(r)

\* A stop goes on, an offer under way ends, and a writer writes.
Fairness ==
    /\ \A k \in Callers : WF_vars(StopStep(k))
    /\ WF_vars(OfferTap)
    /\ \A r \in Recordings : WF_vars(Writing(r))

Spec == Init /\ [][Next]_vars /\ Fairness

-----------------------------------------------------------------------------
(* Properties.                                                             *)

\* Every stop returns: whatever another caller started or stopped in the
\* meantime, no sender of its recording is left to keep the writer waiting.
StopsReturned == \A k \in Callers : pc[k] \notin {"taken", "disarmed", "joining"}
StopReturns == []<>StopsReturned

=============================================================================
