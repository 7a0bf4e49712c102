---------------------------- MODULE MCEncodeThread ----------------------------
(***************************************************************************)
(* What stands around an encode thread, one of the four at a time: the     *)
(* buffers it is handed (WlFramePool), the encoder it drives with its      *)
(* recovery, on X11 (X11Pipeline) and on Wayland (WaylandEncode), and the  *)
(* pacing of the frames that come to it (FramePace).  The variables of the *)
(* other three keep the values they were given.                            *)
(***************************************************************************)
EXTENDS WlFramePool, EncoderLadder

CONSTANTS Breakable, MaxTurns, MaxRequests, MaxStarts, MaxPanics, MaxReshapes, Resends,
          X11Codec, X11Threshold, WaylandCodec, WaylandThreshold,
          Loops, Slack,
          Rates, HostRates,  \* the frame periods of four loops, and of the host's
          Late, HostLate     \* how late the four may come, and the host's

VARIABLES
    kind,  \* which of the four runs; never changes
    \* X11Pipeline and WaylandEncode
    codec, session, streak, rebuilt, broken, turns, requests, owed, rebuilds,
    \* X11Pipeline
    late, useCpu, seen, resends, fresh, inside, pending, reshapes, demotions,
    \* WaylandEncode
    mode, ready, force, at, frame, requested, out, poisoned, alive, starts, panics,
    \* FramePace
    loop, streaming, target, period, pace, wake, change, busy, queue, note, lateness,
    level, debt, lapsed, waited, spun

X11 == INSTANCE X11Pipeline WITH Requested <- X11Codec, Threshold <- X11Threshold

\* On Wayland, what fails and mends is the engine.
Wayland == INSTANCE WaylandEncode WITH
    Requested <- WaylandCodec, Threshold <- WaylandThreshold, Breakable <- {"engine"},
    MaxRequests <- 1

Periods == [l \in Loops |-> IF l = "host" THEN HostRates ELSE Rates]
Lateness == [l \in Loops |-> IF l = "host" THEN HostLate ELSE Late]

Pace == INSTANCE FramePace WITH pending <- change, late <- lateness, MaxLate <- Lateness

ASSUME PacingAssumption == Pace!PaceAssumption
ASSUME EncoderAssumption == X11!PipelineAssumption /\ Wayland!EncodeAssumption

-----------------------------------------------------------------------------
X11Off ==
    /\ late = FALSE /\ useCpu = FALSE /\ seen = FALSE /\ pending = FALSE
    /\ fresh = TRUE /\ inside = "none"
    /\ resends = Resends /\ reshapes = 0 /\ demotions = 0

WaylandOff ==
    /\ mode = "zero" /\ ready = "none" /\ force = TRUE /\ at = "take"
    /\ frame = "none" /\ requested = FALSE /\ out = FALSE
    /\ poisoned = FALSE /\ alive = TRUE
    /\ starts = 0 /\ panics = 0

PaceOff ==
    /\ loop = "undamaged" /\ streaming = TRUE
    /\ period = 4 /\ target = 4
    /\ pace = Pace!Fresh /\ wake = 0 /\ change = FALSE /\ busy = FALSE
    /\ queue = "none" /\ note = FALSE /\ lateness = 0
    /\ level = 0 /\ debt = 0 /\ lapsed = FALSE /\ waited = 0 /\ spun = {}

BothOff ==
    /\ codec = "JPEG" /\ session = Striped("JPEG")
    /\ streak = 0 /\ rebuilt = FALSE /\ broken = {} /\ turns = 0
    /\ requests = 0 /\ owed = FALSE /\ rebuilds = 0
    /\ X11Off /\ WaylandOff

MCInit ==
    /\ Init
    /\ \/ kind = "pool" /\ BothOff
       \/ kind = "x11" /\ X11!Init /\ WaylandOff
       \/ kind = "wayland" /\ Wayland!Init /\ X11Off
       \/ kind = "pace" /\ BothOff
    /\ IF kind = "pace" THEN Pace!Init ELSE PaceOff

EncoderOnly == <<codec, session, streak, rebuilt, broken, turns, requests, owed, rebuilds>>
X11Only == <<late, useCpu, seen, resends, fresh, inside, pending, reshapes, demotions>>
WaylandOnly == <<mode, ready, force, at, frame, requested, out, poisoned, alive, starts, panics>>
PaceOnly ==
    <<loop, streaming, target, period, pace, wake, change, busy, queue, note, lateness,
      level, debt, lapsed, waited, spun>>

MCNext ==
    /\ UNCHANGED kind
    /\ \/ kind = "pool" /\ Next
          /\ UNCHANGED <<EncoderOnly, X11Only, WaylandOnly, PaceOnly>>
       \/ kind = "x11" /\ X11!Next /\ UNCHANGED <<vars, WaylandOnly, PaceOnly>>
       \/ kind = "wayland" /\ Wayland!Next /\ UNCHANGED <<vars, X11Only, PaceOnly>>
       \/ kind = "pace" /\ Pace!Next
          /\ UNCHANGED <<vars, EncoderOnly, X11Only, WaylandOnly>>

\* The fairness of each module's own specification.
MCSpec ==
    /\ MCInit
    /\ [][MCNext]_<<kind, vars, EncoderOnly, X11Only, WaylandOnly, PaceOnly>>
    /\ WF_vars(kind = "pool" /\ EncodeStep)
    /\ WF_vars(kind = "pool" /\ (NotifyPublish \/ NotifyShutdown))
    /\ \A picture \in {"cleanup", "still"} :
           /\ WF_(X11!vars)(kind = "x11" /\ X11!Encode(picture))
           /\ WF_(X11!vars)(kind = "x11" /\ X11!Fail(picture))
    /\ WF_(Wayland!vars)(kind = "wayland" /\ Wayland!Tick)
    /\ WF_(Wayland!vars)(kind = "wayland" /\ Wayland!Replace)
    /\ WF_(Wayland!vars)(kind = "wayland" /\ Wayland!Take)
    /\ WF_(Wayland!vars)(kind = "wayland" /\ (Wayland!Encode \/ Wayland!Fail))
    /\ WF_(Wayland!vars)(kind = "wayland" /\ Wayland!Rearm)

-----------------------------------------------------------------------------
\* The TypeOK of whichever runs, the pool's at all times.
Types ==
    /\ TypeOK
    /\ kind = "x11" => X11!TypeOK
    /\ kind = "wayland" => Wayland!TypeOK
    /\ kind = "pace" => Pace!TypeOK

\* FramePace: the rate is the one set, and the timer does not spin.
PaceHolds == kind = "pace" => Pace!PaceHolds

\* FramePace: a change is published at once or as the next window opens.
ChangeIsShown == kind = "pace" => Pace!ChangeIsShown

\* WlFramePool: no wakeup is lost, so that every frame published is taken and a
\* shutdown ends the thread.
NoWakeupLost == PublishedIsTaken /\ ShutdownEnds

\* X11Pipeline and WaylandEncode: between two successes the engine is opened
\* again at most once, and on X11 a demotion holds for the pipeline's life.
RecoveryEnds == rebuilds <= 1 /\ (kind = "x11" => X11!DemotionHolds)

\* X11Pipeline and WaylandEncode: a key frame that is owed stays armed until it
\* is out, across errors, recoveries, panics and restarts.
KeyArmed ==
    /\ [](kind = "wayland" => Wayland!KeyArmed)
    /\ [][kind = "x11" /\ owed /\ X11!Armed => ~owed' \/ X11!Armed' \/ ~seen']_(X11!vars)

\* X11Pipeline and WaylandEncode: an armed key frame comes out in the end, on a
\* still screen and with an engine that fails every encode for ever.
KeyServed ==
    /\ X11!ArmedIsServed
    /\ (kind = "wayland" /\ owed /\ alive) ~> (~owed \/ ~alive)

=============================================================================
