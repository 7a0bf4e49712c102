------------------------------ MODULE StillScreen ------------------------------
(***************************************************************************)
(* The cleanup of a still screen (pipeline.rs: cleanup_due, lost_frame,    *)
(* withheld_frame, decide_constant_quality, and process around them) with  *)
(* the content hash it reads its damage from (software.rs, dirty_by), for  *)
(* a full-frame X11 session of constant quality whose paint-over quality   *)
(* is finer than its own.                                                  *)
(*                                                                         *)
(* The screen is a few hash bands of two contents each, so that it may go  *)
(* back to what it was.  The consumer holds a picture, decodes nothing     *)
(* from a frame it did not get until the encoder was told, and a report    *)
(* may come any time later.  Key frames come on request only.              *)
(***************************************************************************)
EXTENDS Naturals, FiniteSets

CONSTANTS
    Bands,        \* the bands of the content hash
    SmallBands,   \* how many of them are SMALL_AREA of the screen
    Caret,        \* as many of them or fewer, in which a caret may blink
    Threshold,    \* damage_block_threshold
    Duration,     \* damage_block_duration
    Trigger,      \* paint_over_trigger()
    Burst,        \* video_paintover_burst_frames
    MaxMoves,     \* bounds: other changes of the screen,
    MaxEvents     \*   frames lost or withheld, encodes that fail and key frames
                  \*   requested

LowMotionTriggers == 4  \* LOW_MOTION_TRIGGERS; LOW_MOTION_SHARE is a quarter
Whole == 16             \* the share of motion in sixteenths, rounded down
Unhashed == 2           \* what no content hashes to

StillScreenAssumption ==
    /\ IsFiniteSet(Bands)
    /\ {SmallBands, Threshold, Duration, Trigger, Burst} \subseteq Nat
    /\ Duration > 0 /\ Trigger > 0 /\ Burst > 0

VARIABLES
    turbo, reopens,  \* video_streaming_mode, EncoderQuality::reopens; never change
    screen,          \* what is on it
    bands,           \* X11Pipeline::bands
    turboDirty,      \* X11Pipeline::turbo_dirty
    still,           \* StripeState: no_motion_frame_count,
    cleaned,         \*   paint_over_sent,
    unclean,         \*   unclean_frames,
    motion,          \*   motion,
    burst,           \*   h264_burst_frames_remaining,
    cleanQuality,    \*   clean_quality
    pending,         \* pending_force_idr
    report,          \* what the consumer has yet to report: "none", "Lost", "Withheld"
    shown,           \* history: the picture the consumer holds,
    coarse,          \*   not at the paint-over quality,
    broken,          \*   and not to be gone on from
    gaveUp,          \* history: an encode failed, and nothing fine came since
    coded,           \* history: the last frame, and how the screen differed from
    before,          \*   the one at the frame before it
    moves, events    \* the bounded counters

region == <<still, cleaned, unclean, motion, burst, cleanQuality>>
hashes == <<bands, turboDirty>>
consumer == <<report, shown, coarse, broken>>
bounds == <<moves, events>>
vars == <<turbo, reopens, screen, hashes, region, pending, consumer, gaveUp, coded,
          before, bounds>>

Band == [last : {0, 1, Unhashed}, changes : 0 .. Threshold, block : 0 .. Duration]

TypeOK ==
    /\ {turbo, reopens, cleaned, cleanQuality, pending, coarse, broken, gaveUp} \subseteq BOOLEAN
    /\ {screen, before} \subseteq [Bands -> {0, 1}] /\ shown \in [Bands -> {0, 1, Unhashed}]
    /\ bands \in [Bands -> Band] /\ turboDirty \subseteq Bands
    /\ still \in 0 .. Trigger /\ unclean \in 0 .. Trigger * LowMotionTriggers
    /\ motion \in 0 .. Whole /\ burst \in 0 .. Burst
    /\ report \in {"none", "Lost", "Withheld"}
    /\ coded \in [sent : BOOLEAN, fine : BOOLEAN, changed : SUBSET Bands]

Init ==
    /\ turbo \in BOOLEAN /\ reopens \in BOOLEAN
    /\ screen = [b \in Bands |-> 0] /\ before = screen
    /\ shown = [b \in Bands |-> Unhashed]
    /\ bands = [b \in Bands |-> [last |-> Unhashed, changes |-> 0, block |-> 0]]
    /\ turboDirty = Bands  \* none hashed yet is all new
    /\ still = 0 /\ cleaned = FALSE /\ unclean = 0 /\ motion = 0 /\ burst = 0
    /\ cleanQuality = FALSE /\ pending = FALSE
    /\ report = "none" /\ coarse = TRUE /\ broken = FALSE
    /\ gaveUp = FALSE /\ coded = [sent |-> FALSE, fine |-> FALSE, changed |-> {}]
    /\ moves = 0 /\ events = 0

-----------------------------------------------------------------------------
(* The content hash.                                                       *)

Differs(old) == {b \in Bands : screen[b] # old[b]}

IsMotion(damage) == Cardinality(damage) > SmallBands

\* A mutant of IsDirty: a damage block's frames are read by their hash.
IsDirtyByHash(band, content) == content # band.last

\* dirty_by: a band in a damage block is dirty without being read.
IsDirty(band, content) == band.block > 0 \/ content # band.last

Dirty == {b \in Bands : IsDirty(bands[b], screen[b])}

\* What dirty_by leaves: in a block the last two frames are hashed, and two
\* that differ renew it.
Hashed(band, content) ==
    CASE band.block > 2 -> [band EXCEPT !.block = @ - 1]
      [] band.block = 2 -> [band EXCEPT !.block = 1, !.last = content]
      [] band.block = 1 /\ content # band.last ->
             [band EXCEPT !.block = Duration, !.last = content]
      [] band.block = 1 /\ content = band.last ->
             [last |-> content, changes |-> 0, block |-> 0]
      [] band.block = 0 /\ content # band.last ->
             IF band.changes + 1 >= Threshold
             THEN [last |-> content, changes |-> Threshold, block |-> Duration]
             ELSE [last |-> content, changes |-> band.changes + 1, block |-> 0]
      [] OTHER -> [band EXCEPT !.changes = 0]

\* The damage a frame is decided on: Turbo's is the frame before's.
Damage == IF turbo THEN turboDirty ELSE Dirty

-----------------------------------------------------------------------------
(* cleanup_due: the bookkeeping of a frame, and whether it is due.         *)

Upto(bound, n) == IF n < bound THEN n ELSE bound

StillNow == IF Damage # {} THEN 0 ELSE Upto(Trigger, still + 1)

CleanNow == cleaned /\ Damage = {}

UncleanNow ==
    IF CleanNow THEN unclean ELSE Upto(Trigger * LowMotionTriggers, unclean + 1)

MotionNow ==
    LET frames == Trigger * LowMotionTriggers
    IN  (motion * (frames - 1) + IF IsMotion(Damage) THEN Whole ELSE 0) \div frames

LowMotion == UncleanNow >= Trigger * LowMotionTriggers /\ MotionNow * 4 <= Whole

\* A mutant of Due: a region that keeps changing a little is never due.
DueStillOnly == ~CleanNow /\ StillNow >= Trigger

Due == ~CleanNow /\ (StillNow >= Trigger \/ LowMotion)

\* lost_frame: a cleanup that may be among what was lost is due again.
LostFrame ==
    /\ cleaned' = FALSE
    /\ burst' = IF cleaned THEN 0 ELSE burst

\* A mutant of TakesReport: a withheld frame never makes the cleanup due again.
TakesReportOfLosses == report = "Lost"

\* take_report: a frame withheld from a burst is coded past by its next ones.
TakesReport == report = "Lost" \/ burst = 0

-----------------------------------------------------------------------------
(* decide_constant_quality, and process.                                   *)

StillClean == cleanQuality /\ ~IsMotion(Damage)

\* A refresh that opens the session again is its key frame.
IsKey == pending \/ (Due /\ reopens /\ ~StillClean)

Bursts == Damage = {} /\ ~Due /\ ~pending /\ burst > 0

Sends == turbo \/ Damage # {} \/ Due \/ pending \/ Bursts

DecidedFine == Bursts \/ (IF pending THEN Due ELSE Due \/ StillClean)

\* A mutant of Moved: no frame is hashed ahead of its encode.
MovedUnseen == FALSE

\* A Turbo frame decided at the paint-over quality is hashed ahead of its
\* encode, and coded as motion is where it moved.
Moved == turbo /\ DecidedFine /\ IsMotion(Dirty)

Fine == DecidedFine /\ ~Moved

CodedAsKey == IF Moved THEN pending ELSE IsKey

\* A mutant of BurstLeft: the burst is never counted down.
BurstLeftForever ==
    IF Damage # {} THEN 0
    ELSE IF Due \/ pending THEN Burst ELSE burst

BurstLeft ==
    IF Damage # {} THEN 0
    ELSE IF Due \/ pending THEN Burst
    ELSE IF burst > 0 THEN burst - 1 ELSE 0

Decide ==
    /\ still' = StillNow
    /\ cleaned' = (CleanNow \/ Due)
    /\ unclean' = IF Due THEN 0 ELSE UncleanNow
    /\ motion' = MotionNow
    /\ cleanQuality' = (StillClean \/ Due)
    /\ burst' = BurstLeft

\* What every call of process does, whatever becomes of its encode.
Process ==
    /\ Decide
    /\ bands' = [b \in Bands |-> Hashed(bands[b], screen[b])]
    /\ turboDirty' = Dirty
    /\ before' = screen
    /\ coded' = [sent |-> Sends, fine |-> Sends /\ Fine, changed |-> Differs(before)]
    /\ UNCHANGED <<turbo, reopens, screen, moves>>

\* A frame that comes to the consumer, or that is not sent.  Without the frames
\* it goes on from, only a key frame is decoded.
Frame ==
    /\ Process
    /\ pending' = FALSE
    /\ IF Sends /\ (CodedAsKey \/ ~broken)
       THEN /\ shown' = screen /\ coarse' = ~Fine /\ broken' = FALSE
            /\ gaveUp' = (gaveUp /\ ~Fine)
       ELSE UNCHANGED <<shown, coarse, broken, gaveUp>>
    /\ UNCHANGED <<report, events>>

\* A frame lost on its way, or withheld by a gate ahead of it.
Lose(kind) ==
    /\ Sends /\ report = "none" /\ events < MaxEvents
    /\ events' = events + 1
    /\ Process
    /\ pending' = FALSE
    /\ report' = kind /\ coarse' = TRUE /\ broken' = TRUE
    /\ UNCHANGED <<shown, gaveUp>>

\* An encode that fails: the request stays armed, and the hash and the region
\* have taken the picture in all the same.
Fail ==
    /\ Sends /\ events < MaxEvents
    /\ events' = events + 1
    /\ Process
    /\ gaveUp' = TRUE
    /\ UNCHANGED <<pending, consumer>>

-----------------------------------------------------------------------------
(* What comes from outside.                                                *)

\* take_report, and what the next frame predicts from: past the loss, or it is
\* a key frame where the encoder cannot.
Report(taken) ==
    /\ report # "none"
    /\ report' = "none" /\ broken' = FALSE
    /\ pending' = (pending \/ ~taken)
    /\ IF TakesReport THEN LostFrame ELSE UNCHANGED <<cleaned, burst>>
    /\ UNCHANGED <<turbo, reopens, screen, hashes, still, unclean, motion, cleanQuality,
                   shown, coarse, gaveUp, coded, before, bounds>>

\* request_idr.
RequestIdr ==
    /\ events < MaxEvents
    /\ events' = events + 1
    /\ pending' = TRUE
    /\ UNCHANGED <<turbo, reopens, screen, hashes, region, consumer, gaveUp, coded,
                   before, moves>>

\* The screen ahead of the next frame: a caret blinks, for ever if it likes, or
\* it changes in any other way.
Change ==
    /\ screen = before
    /\ screen' \in [Bands -> {0, 1}] \ {screen}
    /\ IF {b \in Bands : screen'[b] # screen[b]} \subseteq Caret
       THEN UNCHANGED moves ELSE moves < MaxMoves /\ moves' = moves + 1
    /\ UNCHANGED <<turbo, reopens, hashes, region, pending, consumer, gaveUp, coded,
                   before, events>>

Captured == Frame \/ Fail \/ \E kind \in {"Lost", "Withheld"} : Lose(kind)
Reported == \E taken \in BOOLEAN : Report(taken)

Next == Captured \/ Reported \/ RequestIdr \/ Change

\* Frames are captured at their rate, and a loss is reported in the end.
Spec == Init /\ [][Next]_vars /\ WF_vars(Captured) /\ WF_vars(Reported)

-----------------------------------------------------------------------------
(* Properties.                                                             *)

\* A change is sent, and "a change landing on" a frame the cleanup codes at its
\* own quality "is coded at the session's", through the damage blocks in which
\* nothing is read.
ChangeLands ==
    /\ coded.changed # {} => coded.sent
    /\ turbo /\ IsMotion(coded.changed) => ~coded.fine

\* What is left out: the region counts as clean by a frame whose encode failed,
\* and those of its burst failed too, of which process tells it nothing.
Excused == gaveUp /\ cleaned

\* Whatever is lost, withheld or asked for, the consumer comes to hold the
\* picture at the paint-over quality, and a caret that goes on blinking does not
\* take it from there; and a screen that stays still is not sent for ever.
SettlesClean ==
    /\ <>[](~coarse \/ Excused)
    /\ []<>(shown = screen \/ Excused)
    /\ []<>(turbo \/ screen # before \/ ~coded.sent)

=============================================================================
