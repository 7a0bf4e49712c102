----------------------------- MODULE MCReference -----------------------------
(***************************************************************************)
(* ReferenceSession for the three windows the encoders make: H.264's, one  *)
(* anchor beside a frame_num (the constants of the configuration), the one *)
(* of H.265 and AV1, two anchors that lend their share of the buffer, and  *)
(* the plain one, with recent frames only; and ReferenceSlots for VP8's    *)
(* buffers and VP9's.  The window stays empty where the slots are used.    *)
(* Beside them StillScreen, the cleanup the same reports make due again;   *)
(* its variables keep their values elsewhere.                              *)
(***************************************************************************)
EXTENDS ReferenceSession

\* StillScreen's; the configuration has two hash bands, in one of which a caret
\* blinks.
CONSTANTS Bands, SmallBands, Caret, Threshold, Duration, Trigger, Burst, MaxMoves, MaxBothers

VARIABLES
    kind,   \* what the session predicts from, or "still"; never changes
    slots,  \* its ReferenceSlots
    \* StillScreen
    turbo, reopens, screen, bands, turboDirty, still, cleaned, unclean, motion, burst,
    cleanQuality, pending, report, shown, coarse, broken, gaveUp, picture, before, moves,
    bothers

Two == INSTANCE ReferenceSession WITH
    AnchorCount <- 2, Lends <- TRUE, FrameNumRange <- 0, Buffers <- {4}

Plain == INSTANCE ReferenceSession WITH
    AnchorCount <- 0, FrameNumRange <- 0, Buffers <- {2, 3}, RecentFrames <- 4,
    MaxFrames <- 5

Vp8 == INSTANCE ReferenceSlots WITH
    s <- slots, IsVp9 <- FALSE, Ring <- 2, Period <- 4, RecentFrames <- 4

Vp9 == INSTANCE ReferenceSlots WITH
    s <- slots, IsVp9 <- TRUE, Ring <- 2, Period <- 4, RecentFrames <- 4

Still == INSTANCE StillScreen WITH
    MaxEvents <- MaxBothers, coded <- picture, events <- bothers

ASSUME EachAssumption ==
    /\ WindowAssumption /\ SessionAssumption
    /\ Two!WindowAssumption /\ Two!SessionAssumption
    /\ Plain!WindowAssumption /\ Plain!SessionAssumption
    /\ Vp8!SlotsAssumption /\ Vp9!SlotsAssumption
    /\ Still!StillScreenAssumption

SessionInit ==
    \/ /\ slots = NoFrame
       /\ \/ kind = "h264" /\ Init
          \/ kind = "two" /\ Two!Init
          \/ kind = "plain" /\ Plain!Init
    \/ /\ w = NewWindow(3, FALSE)
       /\ \/ kind \in {"vp8", "still"} /\ Vp8!Init
          \/ kind = "vp9" /\ Vp9!Init

MCInit ==
    /\ SessionInit /\ Still!Init
    \* An encoder that a change of quality opens again is tried without Turbo.
    /\ IF kind = "still" THEN ~(turbo /\ reopens) ELSE ~turbo /\ ~reopens

StillOnly ==
    <<turbo, reopens, screen, bands, turboDirty, still, cleaned, unclean, motion, burst,
      cleanQuality, pending, report, shown, coarse, broken, gaveUp, picture, before, moves,
      bothers>>

MCNext ==
    /\ UNCHANGED kind
    /\ \/ /\ UNCHANGED <<slots, StillOnly>>
          /\ \/ kind = "h264" /\ Next
             \/ kind = "two" /\ Two!Next
             \/ kind = "plain" /\ Plain!Next
       \/ /\ UNCHANGED <<w, StillOnly>>
          /\ \/ kind = "vp8" /\ Vp8!Next
             \/ kind = "vp9" /\ Vp9!Next
       \/ kind = "still" /\ Still!Next /\ UNCHANGED <<vars, slots>>

\* The fairness of StillScreen; the sessions need none.
MCSpec ==
    /\ MCInit /\ [][MCNext]_<<kind, vars, slots, StillOnly>>
    /\ WF_StillOnly(kind = "still" /\ Still!Captured)
    /\ WF_StillOnly(kind = "still" /\ Still!Reported)

\* TypeOK, for what the session has.
Types ==
    /\ kind = "h264" => TypeOK
    /\ kind = "two" => Two!TypeOK
    /\ kind = "plain" => Plain!TypeOK
    /\ kind = "vp8" => Vp8!TypeOK
    /\ kind = "vp9" => Vp9!TypeOK
    /\ kind = "still" => Still!TypeOK

\* NoPredictionThroughLoss of ReferenceSlots: no buffer left in the predictions
\* holds a frame that depends on a lost one, a key frame coded twice aside, whose
\* loss invalidate ignores.
SlotsPredictPastLoss ==
    /\ kind = "vp8" => Vp8!NoPredictionThroughLoss
    /\ kind = "vp9" => Vp9!NoPredictionThroughLoss

\* WithinBuffer, for the windows with anchors beside the recent frames.
WithinBuffers ==
    /\ kind = "h264" => WithinBuffer
    /\ kind = "two" => Two!WithinBuffer

\* RepeatedReport, for every window: a loss reported again costs nothing.
RepeatedReports ==
    /\ kind = "h264" => RepeatedReport
    /\ kind = "two" => Two!RepeatedReport
    /\ kind = "plain" => Plain!RepeatedReport

\* The anchor every consumer holds (PinnedStep) stays, in the window and in the
\* slots, and spares the window a key frame (PinnedSparesKey).
PinnedStays ==
    /\ [](kind = "two" => Two!PinnedSparesKey)
    /\ [][/\ kind = "two" => Two!PinnedStep
          /\ kind = "vp8" => Vp8!PinnedStep
          /\ kind = "vp9" => Vp9!PinnedStep]_<<kind, vars, slots>>

\* What the device is told to predict from (NamedStep), and what a decoder
\* still has of it (KeptStep), for the windows with anchors.
PredictsFromKept ==
    [][/\ kind = "h264" => NamedStep /\ KeptStep
       /\ kind = "two" => Two!NamedStep]_<<kind, vars, slots>>

\* StillScreen: a change is sent, and what lands on a cleanup is not coded as one.
ChangeLands == kind = "still" => Still!ChangeLands

\* StillScreen: the consumer comes to hold the picture at the paint-over
\* quality, and a still screen is not sent for ever.
SettlesClean == kind = "still" => Still!SettlesClean

=============================================================================
