---------------------------- MODULE ReferenceProofs ----------------------------
(***************************************************************************)
(* The sessions of MCReference, each by the proofs of its component for    *)
(* the constants it is given: no frame predicted from depends on one       *)
(* reported lost, the window keeps to its buffer, a report repeated costs  *)
(* nothing and the anchor every consumer holds stays.  And StillScreen     *)
(* sends every change, whatever its bands and thresholds.                  *)
(***************************************************************************)
EXTENDS MCReference, ReferenceSessionProofs

\* The sessions of MCReference, with the proofs of their components.
TwoP == INSTANCE ReferenceSessionProofs WITH
    AnchorCount <- 2, Lends <- TRUE, FrameNumRange <- 0, Buffers <- {4}

PlainP == INSTANCE ReferenceSessionProofs WITH
    AnchorCount <- 0, FrameNumRange <- 0, Buffers <- {2, 3}, RecentFrames <- 4,
    MaxFrames <- 5

Vp8P == INSTANCE ReferenceSlotsProofs WITH
    s <- slots, IsVp9 <- FALSE, Ring <- 2, Period <- 4, RecentFrames <- 4

Vp9P == INSTANCE ReferenceSlotsProofs WITH
    s <- slots, IsVp9 <- TRUE, Ring <- 2, Period <- 4, RecentFrames <- 4

-----------------------------------------------------------------------------
(* An instance with the proofs says what the one without them says.        *)

LEMMA EachAssumed ==
  /\ WindowAssumption /\ SessionAssumption
  /\ TwoP!WindowAssumption /\ TwoP!SessionAssumption
  /\ PlainP!WindowAssumption /\ PlainP!SessionAssumption
  /\ Vp8P!SlotsAssumption /\ Vp9P!SlotsAssumption
  /\ Still!StillScreenAssumption
BY EachAssumption
   DEF Two!WindowAssumption, TwoP!WindowAssumption, Two!SessionAssumption,
       TwoP!SessionAssumption, Two!Frame, TwoP!Frame, Two!Ids, TwoP!Ids,
       Plain!WindowAssumption, PlainP!WindowAssumption, Plain!SessionAssumption,
       PlainP!SessionAssumption, Plain!Frame, PlainP!Frame, Plain!Ids, PlainP!Ids,
       Vp8!SlotsAssumption, Vp8P!SlotsAssumption, Vp8!SlotFrame, Vp8P!SlotFrame,
       Vp8!Ids, Vp8P!Ids, Vp9!SlotsAssumption, Vp9P!SlotsAssumption, Vp9!SlotFrame,
       Vp9P!SlotFrame, Vp9!Ids, Vp9P!Ids

LEMMA SameTwo ==
  /\ Two!Init = TwoP!Init
  /\ (Two!Next <=> TwoP!Next)
  /\ (UNCHANGED Two!vars <=> UNCHANGED TwoP!vars)
  /\ (Two!TypeOK <=> TwoP!TypeOK)
  /\ (Two!WithinBuffer <=> TwoP!WithinBuffer)
  /\ (Two!RepeatedReport <=> TwoP!RepeatedReport)
  /\ (Two!PinnedSparesKey <=> TwoP!PinnedSparesKey)
  /\ (Two!PinnedStep <=> TwoP!PinnedStep)
  /\ (Two!NamedStep <=> TwoP!NamedStep)
<1>1. \A win, id : Two!Invalidate(win, id) = TwoP!Invalidate(win, id)
  BY DEF Two!AnchorFrames, TwoP!AnchorFrames, Two!AnchorSlots, TwoP!AnchorSlots,
     Two!Anchored, TwoP!Anchored, Two!Answer, TwoP!Answer, Two!Behind, TwoP!Behind,
     Two!Dated, TwoP!Dated, Two!First, TwoP!First, Two!HasReference,
     TwoP!HasReference, Two!Held, TwoP!Held, Two!Ignored, TwoP!Ignored,
     Two!Invalidate, TwoP!Invalidate, Two!InvalidateAnchored, TwoP!InvalidateAnchored,
     Two!InvalidateRecent, TwoP!InvalidateRecent, Two!Last, TwoP!Last, Two!Leave,
     TwoP!Leave, Two!LostFrom, TwoP!LostFrom, Two!MarkAnchors, TwoP!MarkAnchors,
     Two!MarkLost, TwoP!MarkLost, Two!Multiple, TwoP!Multiple, Two!Named, TwoP!Named,
     Two!SinceKey, TwoP!SinceKey, Two!Valid, TwoP!Valid, Two!WrapCovered,
     TwoP!WrapCovered, Two!WrappingSub, TwoP!WrappingSub
<1>2. \A win, n :
        /\ Two!Trim(win) = TwoP!Trim(win)
        /\ Two!Newest(win, n) = TwoP!Newest(win, n)
  BY DEF Two!AnchorSlots, TwoP!AnchorSlots, Two!Newest, TwoP!Newest,
     Two!RecentCapacity, TwoP!RecentCapacity, Two!Trim, TwoP!Trim, Two!Cardinality,
     TwoP!Cardinality
<1>3. \A win, id, key, slot :
        Two!Record(win, id, key, slot) = TwoP!Record(win, id, key, slot)
  BY <1>2
     DEF Two!AnchorSlots, TwoP!AnchorSlots, Two!Record, TwoP!Record, Two!WrappingSub,
        TwoP!WrappingSub
<1>4. \A win, key :
        /\ Two!PlanAnchor(win, key) = TwoP!PlanAnchor(win, key)
        /\ Two!PredictingAnchor(win, key) = TwoP!PredictingAnchor(win, key)
  BY DEF Two!AnchorFrames, TwoP!AnchorFrames, Two!AnchorPeriod, TwoP!AnchorPeriod,
     Two!AnchorSlots, TwoP!AnchorSlots, Two!Anchored, TwoP!Anchored,
     Two!CommonAnchors, TwoP!CommonAnchors, Two!HasReference, TwoP!HasReference,
     Two!Held, TwoP!Held, Two!HeldBack, TwoP!HeldBack, Two!IsCommon, TwoP!IsCommon,
     Two!IsShared, TwoP!IsShared, Two!Kept, TwoP!Kept, Two!Max, TwoP!Max, Two!Min,
     TwoP!Min, Two!Multiple, TwoP!Multiple, Two!NewestValid, TwoP!NewestValid,
     Two!NoSlot, TwoP!NoSlot, Two!Pending, TwoP!Pending, Two!PinnedAnchor,
     TwoP!PinnedAnchor, Two!PlanAnchor, TwoP!PlanAnchor, Two!PredictingAnchor,
     TwoP!PredictingAnchor, Two!RankBefore, TwoP!RankBefore, Two!ReachesBack,
     TwoP!ReachesBack, Two!Scheduled, TwoP!Scheduled, Two!SinceKey, TwoP!SinceKey,
     Two!Valid, TwoP!Valid, Two!WrapsNext, TwoP!WrapsNext, Two!Cardinality,
     TwoP!Cardinality
<1>5. \A win, p :
        /\ Two!Candidates(win) = TwoP!Candidates(win)
        /\ Two!HasReference(win) = TwoP!HasReference(win)
        /\ Two!NewestValid(win) = TwoP!NewestValid(win)
        /\ Two!Usable(win, p) = TwoP!Usable(win, p)
        /\ Two!After(win, p) = TwoP!After(win, p)
        /\ Two!Near(win, p) = TwoP!Near(win, p)
        /\ Two!Last(win) = TwoP!Last(win)
        /\ Two!First(win) = TwoP!First(win)
        /\ Two!Ignored(win) = TwoP!Ignored(win)
  BY DEF Two!After, TwoP!After, Two!AnchorFrames, TwoP!AnchorFrames, Two!AnchorPeriod,
     TwoP!AnchorPeriod, Two!Answer, TwoP!Answer, Two!Candidates, TwoP!Candidates,
     Two!First, TwoP!First, Two!HasReference, TwoP!HasReference, Two!Held, TwoP!Held,
     Two!Ignored, TwoP!Ignored, Two!IsCommon, TwoP!IsCommon, Two!IsShared,
     TwoP!IsShared, Two!Kept, TwoP!Kept, Two!Last, TwoP!Last, Two!Multiple,
     TwoP!Multiple, Two!Near, TwoP!Near, Two!Newest, TwoP!Newest, Two!NewestValid,
     TwoP!NewestValid, Two!Pts, TwoP!Pts, Two!SinceKey, TwoP!SinceKey, Two!Usable,
     TwoP!Usable, Two!Valid, TwoP!Valid, Two!WrapsNext, TwoP!WrapsNext,
     Two!Cardinality, TwoP!Cardinality
<1>6. \A win : Two!Settle(win) = TwoP!Settle(win)
  BY <1>1, <1>5
     DEF Two!Settle, TwoP!Settle
<1>7. \A win : Two!ForgetStale(win) = TwoP!ForgetStale(win)
  BY <1>1
     DEF Two!After, TwoP!After, Two!AnchorFrames, TwoP!AnchorFrames, Two!Anchored,
        TwoP!Anchored, Two!Answer, TwoP!Answer, Two!First, TwoP!First,
        Two!ForgetStale, TwoP!ForgetStale, Two!HasReference, TwoP!HasReference,
        Two!Held, TwoP!Held, Two!Ignored, TwoP!Ignored, Two!IsCommon, TwoP!IsCommon,
        Two!IsShared, TwoP!IsShared, Two!Kept, TwoP!Kept, Two!Last, TwoP!Last,
        Two!Multiple, TwoP!Multiple, Two!NewestValid, TwoP!NewestValid, Two!SinceKey,
        TwoP!SinceKey, Two!Valid, TwoP!Valid
<1>8. \A refuses : Two!Prepared(refuses) = TwoP!Prepared(refuses)
  BY <1>4, <1>5, <1>6, <1>7
     DEF Two!Applied, TwoP!Applied, Two!NoSlot, TwoP!NoSlot, Two!Prepared,
        TwoP!Prepared, Two!Refreshed, TwoP!Refreshed, Two!Settled, TwoP!Settled,
        Two!Stage, TwoP!Stage
<1>9. \A log, win, key, named, sent :
        Two!Logged(log, win, key, named, sent) = TwoP!Logged(log, win, key, named, sent)
  BY DEF Two!AnchorFrames, TwoP!AnchorFrames, Two!AnchorSlots, TwoP!AnchorSlots,
     Two!HasReference, TwoP!HasReference, Two!Held, TwoP!Held, Two!InSlot,
     TwoP!InSlot, Two!Logged, TwoP!Logged, Two!NewestValid, TwoP!NewestValid,
     Two!NextCoded, TwoP!NextCoded, Two!Source, TwoP!Source, Two!Valid, TwoP!Valid
<1>10. \A win, id, b :
        /\ Two!CanRetract(win) = TwoP!CanRetract(win)
        /\ Two!TakenBack(win, b) = TwoP!TakenBack(win, b)
        /\ Two!Acknowledge(win, id, b) = TwoP!Acknowledge(win, id, b)
        /\ Two!Reset(win) = TwoP!Reset(win)
  BY DEF Two!Acknowledge, TwoP!Acknowledge, Two!AnchorFrames, TwoP!AnchorFrames,
     Two!AnchorSlots, TwoP!AnchorSlots, Two!CanRetract, TwoP!CanRetract, Two!Held,
     TwoP!Held, Two!Last, TwoP!Last, Two!LostFrom, TwoP!LostFrom, Two!MarkAnchors,
     TwoP!MarkAnchors, Two!MarkLost, TwoP!MarkLost, Two!Multiple, TwoP!Multiple,
     Two!Named, TwoP!Named, Two!NewestPts, TwoP!NewestPts, Two!Reset, TwoP!Reset,
     Two!Retract, TwoP!Retract, Two!SetAcknowledged, TwoP!SetAcknowledged,
     Two!SinceKey, TwoP!SinceKey, Two!TakenBack, TwoP!TakenBack, Two!Valid,
     TwoP!Valid, Two!Cardinality, TwoP!Cardinality
<1>11. \A win, buffer : Two!SetCapacity(win, buffer) = TwoP!SetCapacity(win, buffer)
  BY <1>2
     DEF Two!Beside, TwoP!Beside, Two!SetCapacity, TwoP!SetCapacity
<1>12. Two!EncodeAgain <=> TwoP!EncodeAgain
  BY <1>3, <1>4, <1>8, <1>9, <1>10
     DEF Two!EncodeAgain, TwoP!EncodeAgain, Two!Event, TwoP!Event, Two!Id, TwoP!Id
<1>13. Two!Next <=> TwoP!Next
  <2>1. Two!EncodeFrame <=> TwoP!EncodeFrame
    BY <1>3, <1>4, <1>8, <1>9
       DEF Two!EncodeFrame, TwoP!EncodeFrame, Two!Id, TwoP!Id
  <2>2. Two!EncodeOwnKey <=> TwoP!EncodeOwnKey
    BY <1>3, <1>4, <1>8, <1>9
       DEF Two!EncodeOwnKey, TwoP!EncodeOwnKey, Two!Event, TwoP!Event, Two!Id,
          TwoP!Id, Two!NoSlot, TwoP!NoSlot
  <2>3. Two!EncodeAgain <=> TwoP!EncodeAgain
    BY <1>12
  <2>4. Two!EncodeAgainFails <=> TwoP!EncodeAgainFails
    BY <1>3, <1>4, <1>8, <1>9, <1>10
       DEF Two!EncodeAgainFails, TwoP!EncodeAgainFails, Two!Event, TwoP!Event, Two!Id,
          TwoP!Id
  <2>5. Two!EncodeFails <=> TwoP!EncodeFails
    BY <1>8
       DEF Two!EncodeFails, TwoP!EncodeFails, Two!Event, TwoP!Event
  <2>6. /\ (Two!SkipFrame <=> TwoP!SkipFrame)
        /\ (Two!RequestIdr <=> TwoP!RequestIdr)
    BY <1>5
       DEF Two!Event, TwoP!Event, Two!RequestIdr, TwoP!RequestIdr, Two!SkipFrame,
          TwoP!SkipFrame
  <2>7. Two!ReportLost <=> TwoP!ReportLost
    BY <1>1
       DEF Two!Event, TwoP!Event, Two!Id, TwoP!Id, Two!ReportLost, TwoP!ReportLost,
          Two!Reportable, TwoP!Reportable
  <2>8. Two!ReportHeld <=> TwoP!ReportHeld
    BY <1>10
       DEF Two!AnchorFrames, TwoP!AnchorFrames, Two!Event, TwoP!Event, Two!Held,
          TwoP!Held, Two!Id, TwoP!Id, Two!ReportHeld, TwoP!ReportHeld, Two!Reportable,
          TwoP!Reportable
  <2>9. Two!ResetStream <=> TwoP!ResetStream
    BY <1>10, <1>11
       DEF Two!Event, TwoP!Event, Two!ResetStream, TwoP!ResetStream
  <2>10. QED
    BY <2>1, <2>2, <2>3, <2>4, <2>5, <2>6, <2>7, <2>8, <2>9
       DEF Two!Next, TwoP!Next
<1>14. Two!Init = TwoP!Init /\ (UNCHANGED Two!vars <=> UNCHANGED TwoP!vars)
  BY DEF Two!AnchorSlots, TwoP!AnchorSlots, Two!Beside, TwoP!Beside, Two!Init,
     TwoP!Init, Two!NewWindow, TwoP!NewWindow, Two!vars, TwoP!vars
<1>15. Two!TypeOK <=> TwoP!TypeOK
  BY DEF Two!AnchorSlots, TwoP!AnchorSlots, Two!Coded, TwoP!Coded, Two!Frame,
     TwoP!Frame, Two!Ids, TwoP!Ids, Two!TypeOK, TwoP!TypeOK, Two!Window, TwoP!Window
<1>16. Two!WithinBuffer <=> TwoP!WithinBuffer
  BY DEF Two!AnchorFrames, TwoP!AnchorFrames, Two!WithinBuffer, TwoP!WithinBuffer,
     Two!Cardinality, TwoP!Cardinality
<1>17. Two!PinnedSparesKey <=> TwoP!PinnedSparesKey
  BY DEF Two!AnchorFrames, TwoP!AnchorFrames, Two!AnchorSlots, TwoP!AnchorSlots,
     Two!Anchored, TwoP!Anchored, Two!Answer, TwoP!Answer, Two!Behind, TwoP!Behind,
     Two!CommonAnchors, TwoP!CommonAnchors, Two!Dated, TwoP!Dated, Two!First,
     TwoP!First, Two!HasReference, TwoP!HasReference, Two!Held, TwoP!Held, Two!Id,
     TwoP!Id, Two!Ignored, TwoP!Ignored, Two!Invalidate, TwoP!Invalidate,
     Two!InvalidateAnchored, TwoP!InvalidateAnchored, Two!InvalidateRecent,
     TwoP!InvalidateRecent, Two!IsCommon, TwoP!IsCommon, Two!Kept, TwoP!Kept,
     Two!Last, TwoP!Last, Two!Leave, TwoP!Leave, Two!LostFrom, TwoP!LostFrom,
     Two!MarkAnchors, TwoP!MarkAnchors, Two!MarkLost, TwoP!MarkLost, Two!Multiple,
     TwoP!Multiple, Two!Named, TwoP!Named, Two!NoSlot, TwoP!NoSlot, Two!PinnedAnchor,
     TwoP!PinnedAnchor, Two!PinnedPts, TwoP!PinnedPts, Two!PinnedSparesKey,
     TwoP!PinnedSparesKey, Two!Pts, TwoP!Pts, Two!Reportable, TwoP!Reportable,
     Two!SinceKey, TwoP!SinceKey, Two!Valid, TwoP!Valid, Two!WrapCovered,
     TwoP!WrapCovered, Two!WrappingSub, TwoP!WrappingSub
<1>18. Two!PinnedStep <=> TwoP!PinnedStep
  BY DEF Two!AnchorFrames, TwoP!AnchorFrames, Two!AnchorSlots, TwoP!AnchorSlots,
     Two!CommonAnchors, TwoP!CommonAnchors, Two!Held, TwoP!Held, Two!IsCommon,
     TwoP!IsCommon, Two!Kept, TwoP!Kept, Two!Multiple, TwoP!Multiple, Two!NoSlot,
     TwoP!NoSlot, Two!PinnedAnchor, TwoP!PinnedAnchor, Two!PinnedPts, TwoP!PinnedPts,
     Two!PinnedStep, TwoP!PinnedStep, Two!Pts, TwoP!Pts, Two!SinceKey, TwoP!SinceKey,
     Two!Cardinality, TwoP!Cardinality
<1>19. Two!RepeatedReport <=> TwoP!RepeatedReport
  BY DEF Two!AnchorFrames, TwoP!AnchorFrames, Two!AnchorSlots, TwoP!AnchorSlots,
     Two!Anchored, TwoP!Anchored, Two!Answer, TwoP!Answer, Two!Behind, TwoP!Behind,
     Two!Dated, TwoP!Dated, Two!First, TwoP!First, Two!HasReference,
     TwoP!HasReference, Two!Held, TwoP!Held, Two!Id, TwoP!Id, Two!Ignored,
     TwoP!Ignored, Two!Invalidate, TwoP!Invalidate, Two!InvalidateAnchored,
     TwoP!InvalidateAnchored, Two!InvalidateRecent, TwoP!InvalidateRecent, Two!Last,
     TwoP!Last, Two!Leave, TwoP!Leave, Two!LostFrom, TwoP!LostFrom, Two!MarkAnchors,
     TwoP!MarkAnchors, Two!MarkLost, TwoP!MarkLost, Two!Multiple, TwoP!Multiple,
     Two!Named, TwoP!Named, Two!RepeatedReport, TwoP!RepeatedReport, Two!Reportable,
     TwoP!Reportable, Two!SinceKey, TwoP!SinceKey, Two!Valid, TwoP!Valid,
     Two!WrapCovered, TwoP!WrapCovered, Two!WrappingSub, TwoP!WrappingSub
<1>20. Two!NamedStep <=> TwoP!NamedStep
  BY <1>12 DEF Two!NamedStep, TwoP!NamedStep
<1>21. QED
  BY <1>13, <1>14, <1>15, <1>16, <1>17, <1>18, <1>19, <1>20

LEMMA SamePlain ==
  /\ Plain!Init = PlainP!Init
  /\ (Plain!Next <=> PlainP!Next)
  /\ (UNCHANGED Plain!vars <=> UNCHANGED PlainP!vars)
  /\ (Plain!TypeOK <=> PlainP!TypeOK)
  /\ (Plain!RepeatedReport <=> PlainP!RepeatedReport)
<1>1. \A win, id : Plain!Invalidate(win, id) = PlainP!Invalidate(win, id)
  BY DEF Plain!AnchorFrames, PlainP!AnchorFrames, Plain!AnchorSlots,
     PlainP!AnchorSlots, Plain!Anchored, PlainP!Anchored, Plain!Answer, PlainP!Answer,
     Plain!Behind, PlainP!Behind, Plain!Dated, PlainP!Dated, Plain!First,
     PlainP!First, Plain!HasReference, PlainP!HasReference, Plain!Held, PlainP!Held,
     Plain!Ignored, PlainP!Ignored, Plain!Invalidate, PlainP!Invalidate,
     Plain!InvalidateAnchored, PlainP!InvalidateAnchored, Plain!InvalidateRecent,
     PlainP!InvalidateRecent, Plain!Last, PlainP!Last, Plain!Leave, PlainP!Leave,
     Plain!LostFrom, PlainP!LostFrom, Plain!MarkAnchors, PlainP!MarkAnchors,
     Plain!MarkLost, PlainP!MarkLost, Plain!Multiple, PlainP!Multiple, Plain!Named,
     PlainP!Named, Plain!SinceKey, PlainP!SinceKey, Plain!Valid, PlainP!Valid,
     Plain!WrapCovered, PlainP!WrapCovered, Plain!WrappingSub, PlainP!WrappingSub
<1>2. \A win, n :
        /\ Plain!Trim(win) = PlainP!Trim(win)
        /\ Plain!Newest(win, n) = PlainP!Newest(win, n)
  BY DEF Plain!AnchorSlots, PlainP!AnchorSlots, Plain!Newest, PlainP!Newest,
     Plain!RecentCapacity, PlainP!RecentCapacity, Plain!Trim, PlainP!Trim,
     Plain!Cardinality, PlainP!Cardinality
<1>3. \A win, id, key, slot :
        Plain!Record(win, id, key, slot) = PlainP!Record(win, id, key, slot)
  BY <1>2
     DEF Plain!AnchorSlots, PlainP!AnchorSlots, Plain!Record, PlainP!Record,
        Plain!WrappingSub, PlainP!WrappingSub
<1>4. \A win, key :
        /\ Plain!PlanAnchor(win, key) = PlainP!PlanAnchor(win, key)
        /\ Plain!PredictingAnchor(win, key) = PlainP!PredictingAnchor(win, key)
  BY DEF Plain!AnchorFrames, PlainP!AnchorFrames, Plain!AnchorPeriod,
     PlainP!AnchorPeriod, Plain!AnchorSlots, PlainP!AnchorSlots, Plain!Anchored,
     PlainP!Anchored, Plain!CommonAnchors, PlainP!CommonAnchors, Plain!HasReference,
     PlainP!HasReference, Plain!Held, PlainP!Held, Plain!HeldBack, PlainP!HeldBack,
     Plain!IsCommon, PlainP!IsCommon, Plain!IsShared, PlainP!IsShared, Plain!Kept,
     PlainP!Kept, Plain!Max, PlainP!Max, Plain!Min, PlainP!Min, Plain!Multiple,
     PlainP!Multiple, Plain!NewestValid, PlainP!NewestValid, Plain!NoSlot,
     PlainP!NoSlot, Plain!Pending, PlainP!Pending, Plain!PinnedAnchor,
     PlainP!PinnedAnchor, Plain!PlanAnchor, PlainP!PlanAnchor, Plain!PredictingAnchor,
     PlainP!PredictingAnchor, Plain!RankBefore, PlainP!RankBefore, Plain!ReachesBack,
     PlainP!ReachesBack, Plain!Scheduled, PlainP!Scheduled, Plain!SinceKey,
     PlainP!SinceKey, Plain!Valid, PlainP!Valid, Plain!WrapsNext, PlainP!WrapsNext,
     Plain!Cardinality, PlainP!Cardinality
<1>5. \A win, p :
        /\ Plain!Candidates(win) = PlainP!Candidates(win)
        /\ Plain!HasReference(win) = PlainP!HasReference(win)
        /\ Plain!NewestValid(win) = PlainP!NewestValid(win)
        /\ Plain!Usable(win, p) = PlainP!Usable(win, p)
        /\ Plain!After(win, p) = PlainP!After(win, p)
        /\ Plain!Near(win, p) = PlainP!Near(win, p)
        /\ Plain!Last(win) = PlainP!Last(win)
        /\ Plain!First(win) = PlainP!First(win)
        /\ Plain!Ignored(win) = PlainP!Ignored(win)
  BY DEF Plain!After, PlainP!After, Plain!AnchorFrames, PlainP!AnchorFrames,
     Plain!AnchorPeriod, PlainP!AnchorPeriod, Plain!Answer, PlainP!Answer,
     Plain!Candidates, PlainP!Candidates, Plain!First, PlainP!First,
     Plain!HasReference, PlainP!HasReference, Plain!Held, PlainP!Held, Plain!Ignored,
     PlainP!Ignored, Plain!IsCommon, PlainP!IsCommon, Plain!IsShared, PlainP!IsShared,
     Plain!Kept, PlainP!Kept, Plain!Last, PlainP!Last, Plain!Multiple,
     PlainP!Multiple, Plain!Near, PlainP!Near, Plain!Newest, PlainP!Newest,
     Plain!NewestValid, PlainP!NewestValid, Plain!Pts, PlainP!Pts, Plain!SinceKey,
     PlainP!SinceKey, Plain!Usable, PlainP!Usable, Plain!Valid, PlainP!Valid,
     Plain!WrapsNext, PlainP!WrapsNext, Plain!Cardinality, PlainP!Cardinality
<1>6. \A win : Plain!Settle(win) = PlainP!Settle(win)
  BY <1>1, <1>5
     DEF Plain!Settle, PlainP!Settle
<1>7. \A win : Plain!ForgetStale(win) = PlainP!ForgetStale(win)
  BY <1>1
     DEF Plain!After, PlainP!After, Plain!AnchorFrames, PlainP!AnchorFrames,
        Plain!Anchored, PlainP!Anchored, Plain!Answer, PlainP!Answer, Plain!First,
        PlainP!First, Plain!ForgetStale, PlainP!ForgetStale, Plain!HasReference,
        PlainP!HasReference, Plain!Held, PlainP!Held, Plain!Ignored, PlainP!Ignored,
        Plain!IsCommon, PlainP!IsCommon, Plain!IsShared, PlainP!IsShared, Plain!Kept,
        PlainP!Kept, Plain!Last, PlainP!Last, Plain!Multiple, PlainP!Multiple,
        Plain!NewestValid, PlainP!NewestValid, Plain!SinceKey, PlainP!SinceKey,
        Plain!Valid, PlainP!Valid
<1>8. \A refuses : Plain!Prepared(refuses) = PlainP!Prepared(refuses)
  BY <1>4, <1>5, <1>6, <1>7
     DEF Plain!Applied, PlainP!Applied, Plain!NoSlot, PlainP!NoSlot, Plain!Prepared,
        PlainP!Prepared, Plain!Refreshed, PlainP!Refreshed, Plain!Settled,
        PlainP!Settled, Plain!Stage, PlainP!Stage
<1>9. \A log, win, key, named, sent :
        Plain!Logged(log, win, key, named, sent) = PlainP!Logged(log, win, key, named, sent)
  BY DEF Plain!AnchorFrames, PlainP!AnchorFrames, Plain!AnchorSlots,
     PlainP!AnchorSlots, Plain!HasReference, PlainP!HasReference, Plain!Held,
     PlainP!Held, Plain!InSlot, PlainP!InSlot, Plain!Logged, PlainP!Logged,
     Plain!NewestValid, PlainP!NewestValid, Plain!NextCoded, PlainP!NextCoded,
     Plain!Source, PlainP!Source, Plain!Valid, PlainP!Valid
<1>10. \A win, id, b :
        /\ Plain!CanRetract(win) = PlainP!CanRetract(win)
        /\ Plain!TakenBack(win, b) = PlainP!TakenBack(win, b)
        /\ Plain!Acknowledge(win, id, b) = PlainP!Acknowledge(win, id, b)
        /\ Plain!Reset(win) = PlainP!Reset(win)
  BY DEF Plain!Acknowledge, PlainP!Acknowledge, Plain!AnchorFrames,
     PlainP!AnchorFrames, Plain!AnchorSlots, PlainP!AnchorSlots, Plain!CanRetract,
     PlainP!CanRetract, Plain!Held, PlainP!Held, Plain!Last, PlainP!Last,
     Plain!LostFrom, PlainP!LostFrom, Plain!MarkAnchors, PlainP!MarkAnchors,
     Plain!MarkLost, PlainP!MarkLost, Plain!Multiple, PlainP!Multiple, Plain!Named,
     PlainP!Named, Plain!NewestPts, PlainP!NewestPts, Plain!Reset, PlainP!Reset,
     Plain!Retract, PlainP!Retract, Plain!SetAcknowledged, PlainP!SetAcknowledged,
     Plain!SinceKey, PlainP!SinceKey, Plain!TakenBack, PlainP!TakenBack, Plain!Valid,
     PlainP!Valid, Plain!Cardinality, PlainP!Cardinality
<1>11. \A win, buffer :
        Plain!SetCapacity(win, buffer) = PlainP!SetCapacity(win, buffer)
  BY <1>2
     DEF Plain!Beside, PlainP!Beside, Plain!SetCapacity, PlainP!SetCapacity
<1>12. Plain!Next <=> PlainP!Next
  <2>1. Plain!EncodeFrame <=> PlainP!EncodeFrame
    BY <1>3, <1>4, <1>8, <1>9
       DEF Plain!EncodeFrame, PlainP!EncodeFrame, Plain!Id, PlainP!Id
  <2>2. Plain!EncodeOwnKey <=> PlainP!EncodeOwnKey
    BY <1>3, <1>4, <1>8, <1>9
       DEF Plain!EncodeOwnKey, PlainP!EncodeOwnKey, Plain!Event, PlainP!Event,
          Plain!Id, PlainP!Id, Plain!NoSlot, PlainP!NoSlot
  <2>3. Plain!EncodeAgain <=> PlainP!EncodeAgain
    BY <1>3, <1>4, <1>8, <1>9, <1>10
       DEF Plain!EncodeAgain, PlainP!EncodeAgain, Plain!Event, PlainP!Event, Plain!Id,
          PlainP!Id
  <2>4. Plain!EncodeAgainFails <=> PlainP!EncodeAgainFails
    BY <1>3, <1>4, <1>8, <1>9, <1>10
       DEF Plain!EncodeAgainFails, PlainP!EncodeAgainFails, Plain!Event, PlainP!Event,
          Plain!Id, PlainP!Id
  <2>5. Plain!EncodeFails <=> PlainP!EncodeFails
    BY <1>8
       DEF Plain!EncodeFails, PlainP!EncodeFails, Plain!Event, PlainP!Event
  <2>6. /\ (Plain!SkipFrame <=> PlainP!SkipFrame)
        /\ (Plain!RequestIdr <=> PlainP!RequestIdr)
    BY <1>5
       DEF Plain!Event, PlainP!Event, Plain!RequestIdr, PlainP!RequestIdr,
          Plain!SkipFrame, PlainP!SkipFrame
  <2>7. Plain!ReportLost <=> PlainP!ReportLost
    BY <1>1
       DEF Plain!Event, PlainP!Event, Plain!Id, PlainP!Id, Plain!ReportLost,
          PlainP!ReportLost, Plain!Reportable, PlainP!Reportable
  <2>8. Plain!ReportHeld <=> PlainP!ReportHeld
    BY <1>10
       DEF Plain!AnchorFrames, PlainP!AnchorFrames, Plain!Event, PlainP!Event,
          Plain!Held, PlainP!Held, Plain!Id, PlainP!Id, Plain!ReportHeld,
          PlainP!ReportHeld, Plain!Reportable, PlainP!Reportable
  <2>9. Plain!ResetStream <=> PlainP!ResetStream
    BY <1>10, <1>11
       DEF Plain!Event, PlainP!Event, Plain!ResetStream, PlainP!ResetStream
  <2>10. QED
    BY <2>1, <2>2, <2>3, <2>4, <2>5, <2>6, <2>7, <2>8, <2>9
       DEF Plain!Next, PlainP!Next
<1>13. Plain!Init = PlainP!Init /\ (UNCHANGED Plain!vars <=> UNCHANGED PlainP!vars)
  BY DEF Plain!AnchorSlots, PlainP!AnchorSlots, Plain!Beside, PlainP!Beside,
     Plain!Init, PlainP!Init, Plain!NewWindow, PlainP!NewWindow, Plain!vars,
     PlainP!vars
<1>14. Plain!TypeOK <=> PlainP!TypeOK
  BY DEF Plain!AnchorSlots, PlainP!AnchorSlots, Plain!Coded, PlainP!Coded,
     Plain!Frame, PlainP!Frame, Plain!Ids, PlainP!Ids, Plain!TypeOK, PlainP!TypeOK,
     Plain!Window, PlainP!Window
<1>15. Plain!RepeatedReport <=> PlainP!RepeatedReport
  BY DEF Plain!AnchorFrames, PlainP!AnchorFrames, Plain!AnchorSlots,
     PlainP!AnchorSlots, Plain!Anchored, PlainP!Anchored, Plain!Answer, PlainP!Answer,
     Plain!Behind, PlainP!Behind, Plain!Dated, PlainP!Dated, Plain!First,
     PlainP!First, Plain!HasReference, PlainP!HasReference, Plain!Held, PlainP!Held,
     Plain!Id, PlainP!Id, Plain!Ignored, PlainP!Ignored, Plain!Invalidate,
     PlainP!Invalidate, Plain!InvalidateAnchored, PlainP!InvalidateAnchored,
     Plain!InvalidateRecent, PlainP!InvalidateRecent, Plain!Last, PlainP!Last,
     Plain!Leave, PlainP!Leave, Plain!LostFrom, PlainP!LostFrom, Plain!MarkAnchors,
     PlainP!MarkAnchors, Plain!MarkLost, PlainP!MarkLost, Plain!Multiple,
     PlainP!Multiple, Plain!Named, PlainP!Named, Plain!RepeatedReport,
     PlainP!RepeatedReport, Plain!Reportable, PlainP!Reportable, Plain!SinceKey,
     PlainP!SinceKey, Plain!Valid, PlainP!Valid, Plain!WrapCovered,
     PlainP!WrapCovered, Plain!WrappingSub, PlainP!WrappingSub
<1>16. QED
  BY <1>12, <1>13, <1>14, <1>15

LEMMA SameVp8 ==
  /\ Vp8!Init = Vp8P!Init
  /\ (Vp8!Next <=> Vp8P!Next)
  /\ (UNCHANGED Vp8!vars <=> UNCHANGED Vp8P!vars)
  /\ (Vp8!TypeOK <=> Vp8P!TypeOK)
  /\ (Vp8!NoPredictionThroughLoss <=> Vp8P!NoPredictionThroughLoss)
  /\ (Vp8!PinnedStep <=> Vp8P!PinnedStep)
<1>1. Vp8!Init = Vp8P!Init /\ (UNCHANGED Vp8!vars <=> UNCHANGED Vp8P!vars)
  BY DEF Vp8!Init, Vp8P!Init, Vp8!Slots, Vp8P!Slots, Vp8!vars, Vp8P!vars
<1>2. Vp8!Next <=> Vp8P!Next
  BY DEF Vp8!Acknowledged, Vp8P!Acknowledged, Vp8!AcknowledgedRefresh,
     Vp8P!AcknowledgedRefresh, Vp8!AnchorSlots, Vp8P!AnchorSlots, Vp8!AnchorTarget,
     Vp8P!AnchorTarget, Vp8!Behind, Vp8P!Behind, Vp8!Chain, Vp8P!Chain,
     Vp8!CommonSlots, Vp8P!CommonSlots, Vp8!Cut, Vp8P!Cut, Vp8!Dated, Vp8P!Dated,
     Vp8!Coding, Vp8P!Coding, Vp8!EncodeKeyAgain, Vp8P!EncodeKeyAgain,
     Vp8!EncodeKeyAgainFails, Vp8P!EncodeKeyAgainFails,
     Vp8!Encode, Vp8P!Encode, Vp8!EncodeFrame, Vp8P!EncodeFrame, Vp8!EncodeOwnKey,
     Vp8P!EncodeOwnKey, Vp8!Event, Vp8P!Event, Vp8!First, Vp8P!First,
     Vp8!HasReference, Vp8P!HasReference, Vp8!Id, Vp8P!Id, Vp8!Invalidated,
     Vp8P!Invalidated, Vp8!IsCommon, Vp8P!IsCommon, Vp8!IsShared, Vp8P!IsShared,
     Vp8!Key, Vp8P!Key, Vp8!Last, Vp8P!Last, Vp8!MarkFrom, Vp8P!MarkFrom, Vp8!Max,
     Vp8P!Max, Vp8!Min, Vp8P!Min, Vp8!Named, Vp8P!Named, Vp8!NewestPts,
     Vp8P!NewestPts, Vp8!Next, Vp8P!Next, Vp8!Pending, Vp8P!Pending, Vp8!Pinned,
     Vp8P!Pinned, Vp8!PlainRefresh, Vp8P!PlainRefresh, Vp8!Recorded, Vp8P!Recorded,
     Vp8!Refresh, Vp8P!Refresh, Vp8!RefreshedBefore, Vp8P!RefreshedBefore,
     Vp8!ReportHeld, Vp8P!ReportHeld, Vp8!ReportLost, Vp8P!ReportLost, Vp8!Reportable,
     Vp8P!Reportable, Vp8!RequestIdr, Vp8P!RequestIdr, Vp8!Scheduled, Vp8P!Scheduled,
     Vp8!SinceKey, Vp8P!SinceKey, Vp8!SkipFrame, Vp8P!SkipFrame, Vp8!SlotAnchorEvery,
     Vp8P!SlotAnchorEvery, Vp8!Slots, Vp8P!Slots, Vp8!Source, Vp8P!Source, Vp8!Valid,
     Vp8P!Valid, Vp8!Cardinality, Vp8P!Cardinality
<1>3. Vp8!TypeOK <=> Vp8P!TypeOK
  BY DEF Vp8!Ids, Vp8P!Ids, Vp8!SlotFrame, Vp8P!SlotFrame, Vp8!Slots, Vp8P!Slots,
     Vp8!State, Vp8P!State, Vp8!Coded, Vp8P!Coded, Vp8!TypeOK, Vp8P!TypeOK
<1>4. Vp8!NoPredictionThroughLoss <=> Vp8P!NoPredictionThroughLoss
  BY DEF Vp8!NoPredictionThroughLoss, Vp8P!NoPredictionThroughLoss, Vp8!Slots,
     Vp8P!Slots, Vp8!Valid, Vp8P!Valid, Vp8!CodedTwice, Vp8P!CodedTwice
<1>5. Vp8!PinnedStep <=> Vp8P!PinnedStep
  BY DEF Vp8!AnchorSlots, Vp8P!AnchorSlots, Vp8!CommonSlots, Vp8P!CommonSlots,
     Vp8!IsCommon, Vp8P!IsCommon, Vp8!Max, Vp8P!Max, Vp8!Pinned, Vp8P!Pinned,
     Vp8!PinnedStep, Vp8P!PinnedStep, Vp8!Slots, Vp8P!Slots, Vp8!Valid, Vp8P!Valid,
     Vp8!Cardinality, Vp8P!Cardinality
<1>6. QED
  BY <1>1, <1>2, <1>3, <1>4, <1>5

LEMMA SameVp9 ==
  /\ Vp9!Init = Vp9P!Init
  /\ (Vp9!Next <=> Vp9P!Next)
  /\ (UNCHANGED Vp9!vars <=> UNCHANGED Vp9P!vars)
  /\ (Vp9!TypeOK <=> Vp9P!TypeOK)
  /\ (Vp9!NoPredictionThroughLoss <=> Vp9P!NoPredictionThroughLoss)
  /\ (Vp9!PinnedStep <=> Vp9P!PinnedStep)
<1>1. Vp9!Init = Vp9P!Init /\ (UNCHANGED Vp9!vars <=> UNCHANGED Vp9P!vars)
  BY DEF Vp9!Init, Vp9P!Init, Vp9!Slots, Vp9P!Slots, Vp9!vars, Vp9P!vars
<1>2. Vp9!Next <=> Vp9P!Next
  BY DEF Vp9!Acknowledged, Vp9P!Acknowledged, Vp9!AcknowledgedRefresh,
     Vp9P!AcknowledgedRefresh, Vp9!AnchorSlots, Vp9P!AnchorSlots, Vp9!AnchorTarget,
     Vp9P!AnchorTarget, Vp9!Behind, Vp9P!Behind, Vp9!Chain, Vp9P!Chain,
     Vp9!CommonSlots, Vp9P!CommonSlots, Vp9!Cut, Vp9P!Cut, Vp9!Dated, Vp9P!Dated,
     Vp9!Coding, Vp9P!Coding, Vp9!EncodeKeyAgain, Vp9P!EncodeKeyAgain,
     Vp9!EncodeKeyAgainFails, Vp9P!EncodeKeyAgainFails,
     Vp9!Encode, Vp9P!Encode, Vp9!EncodeFrame, Vp9P!EncodeFrame, Vp9!EncodeOwnKey,
     Vp9P!EncodeOwnKey, Vp9!Event, Vp9P!Event, Vp9!First, Vp9P!First,
     Vp9!HasReference, Vp9P!HasReference, Vp9!Id, Vp9P!Id, Vp9!Invalidated,
     Vp9P!Invalidated, Vp9!IsCommon, Vp9P!IsCommon, Vp9!IsShared, Vp9P!IsShared,
     Vp9!Key, Vp9P!Key, Vp9!Last, Vp9P!Last, Vp9!MarkFrom, Vp9P!MarkFrom, Vp9!Max,
     Vp9P!Max, Vp9!Min, Vp9P!Min, Vp9!Named, Vp9P!Named, Vp9!NewestPts,
     Vp9P!NewestPts, Vp9!Next, Vp9P!Next, Vp9!Pending, Vp9P!Pending, Vp9!Pinned,
     Vp9P!Pinned, Vp9!PlainRefresh, Vp9P!PlainRefresh, Vp9!Recorded, Vp9P!Recorded,
     Vp9!Refresh, Vp9P!Refresh, Vp9!RefreshedBefore, Vp9P!RefreshedBefore,
     Vp9!ReportHeld, Vp9P!ReportHeld, Vp9!ReportLost, Vp9P!ReportLost, Vp9!Reportable,
     Vp9P!Reportable, Vp9!RequestIdr, Vp9P!RequestIdr, Vp9!Scheduled, Vp9P!Scheduled,
     Vp9!SinceKey, Vp9P!SinceKey, Vp9!SkipFrame, Vp9P!SkipFrame, Vp9!SlotAnchorEvery,
     Vp9P!SlotAnchorEvery, Vp9!Slots, Vp9P!Slots, Vp9!Source, Vp9P!Source, Vp9!Valid,
     Vp9P!Valid, Vp9!Cardinality, Vp9P!Cardinality
<1>3. Vp9!TypeOK <=> Vp9P!TypeOK
  BY DEF Vp9!Ids, Vp9P!Ids, Vp9!SlotFrame, Vp9P!SlotFrame, Vp9!Slots, Vp9P!Slots,
     Vp9!State, Vp9P!State, Vp9!Coded, Vp9P!Coded, Vp9!TypeOK, Vp9P!TypeOK
<1>4. Vp9!NoPredictionThroughLoss <=> Vp9P!NoPredictionThroughLoss
  BY DEF Vp9!NoPredictionThroughLoss, Vp9P!NoPredictionThroughLoss, Vp9!Slots,
     Vp9P!Slots, Vp9!Valid, Vp9P!Valid, Vp9!CodedTwice, Vp9P!CodedTwice
<1>5. Vp9!PinnedStep <=> Vp9P!PinnedStep
  BY DEF Vp9!AnchorSlots, Vp9P!AnchorSlots, Vp9!CommonSlots, Vp9P!CommonSlots,
     Vp9!IsCommon, Vp9P!IsCommon, Vp9!Max, Vp9P!Max, Vp9!Pinned, Vp9P!Pinned,
     Vp9!PinnedStep, Vp9P!PinnedStep, Vp9!Slots, Vp9P!Slots, Vp9!Valid, Vp9P!Valid,
     Vp9!Cardinality, Vp9P!Cardinality
<1>6. QED
  BY <1>1, <1>2, <1>3, <1>4, <1>5

-----------------------------------------------------------------------------
(* StillScreen: a change is sent.                                          *)

\* A band out of a damage block was hashed with the screen of the frame before,
\* or never; so what changed since is dirty, whatever the block leaves unread.
StillInv ==
    /\ Still!TypeOK
    /\ \A b \in Bands : bands[b].block = 0 => bands[b].last \in {before[b], Still!Unhashed}
    /\ Still!ChangeLands

\* The share of motion stays one: a frame's part of it is at most the whole.
LEMMA MotionShare ==
  ASSUME NEW m \in 0 .. 16, NEW f \in Nat \ {0}, NEW x \in {0, 16}
  PROVE  (m * (f - 1) + x) \div f \in 0 .. 16
<1> DEFINE k == m * (f - 1) + x
           q == k \div f
<1>1. m * (f - 1) \in Nat /\ m * (f - 1) <= 16 * (f - 1)
  OBVIOUS
<1>2. k \in Nat /\ k <= 16 * f
  BY <1>1
<1> HIDE DEF k
<1>3. q \in Nat /\ f * q <= k
  BY <1>2
<1> HIDE DEF q
<1>4. q <= 16
  <2>1. SUFFICES ASSUME q >= 17 PROVE FALSE
    BY <1>3
  <2>2. f * q >= f * 17
    BY <1>3, <2>1
  <2>3. QED
    BY <1>2, <1>3, <2>2
<1>5. QED
  BY <1>3, <1>4 DEF k, q

LEMMA StillHashed ==
  ASSUME Still!StillScreenAssumption, NEW band \in Still!Band, NEW content \in {0, 1}
  PROVE  /\ Still!Hashed(band, content) \in Still!Band
         /\ Still!Hashed(band, content).block = 0 =>
                Still!Hashed(band, content).last = content
<1>1. /\ Duration \in Nat /\ Threshold \in Nat /\ Duration > 0
  BY DEF Still!StillScreenAssumption
<1>2. /\ band.block \in 0 .. Duration /\ band.changes \in 0 .. Threshold
      /\ band.last \in {0, 1, 2}
      /\ band = [last |-> band.last, changes |-> band.changes, block |-> band.block]
  BY DEF Still!Band, Still!Unhashed
<1>3. CASE band.block > 2
  <2>1. Still!Hashed(band, content) = [band EXCEPT !.block = band.block - 1]
    BY <1>3 DEF Still!Hashed
  <2>2. band.block - 1 \in 1 .. Duration
    BY <1>1, <1>2, <1>3
  <2>3. QED
    BY <2>1, <2>2 DEF Still!Band
<1>4. CASE band.block = 2
  <2>1. Still!Hashed(band, content) = [band EXCEPT !.block = 1, !.last = content]
    BY <1>4 DEF Still!Hashed
  <2>2. 1 \in 0 .. Duration /\ content \in {0, 1, Still!Unhashed}
    BY <1>1
  <2>3. QED
    BY <2>1, <2>2 DEF Still!Band
<1>5. CASE band.block = 1 /\ content # band.last
  <2>1. Still!Hashed(band, content) = [band EXCEPT !.block = Duration, !.last = content]
    BY <1>5 DEF Still!Hashed
  <2>2. Duration \in 0 .. Duration /\ content \in {0, 1, Still!Unhashed}
    BY <1>1
  <2>3. QED
    BY <1>1, <2>1, <2>2 DEF Still!Band
<1>6. CASE band.block = 1 /\ content = band.last
  <2>1. Still!Hashed(band, content) = [last |-> content, changes |-> 0, block |-> 0]
    BY <1>6 DEF Still!Hashed
  <2>2. 0 \in 0 .. Duration /\ 0 \in 0 .. Threshold /\ content \in {0, 1, Still!Unhashed}
    BY <1>1
  <2>3. QED
    BY <2>1, <2>2 DEF Still!Band
<1>7. CASE band.block = 0 /\ content # band.last
  <2>1. CASE band.changes + 1 >= Threshold
    <3>1. Still!Hashed(band, content)
              = [last |-> content, changes |-> Threshold, block |-> Duration]
      BY <1>7, <2>1 DEF Still!Hashed
    <3>2. /\ Duration \in 0 .. Duration /\ Threshold \in 0 .. Threshold
          /\ content \in {0, 1, Still!Unhashed}
      BY <1>1
    <3>3. QED
      BY <1>1, <3>1, <3>2 DEF Still!Band
  <2>2. CASE ~(band.changes + 1 >= Threshold)
    <3>1. Still!Hashed(band, content)
              = [last |-> content, changes |-> band.changes + 1, block |-> 0]
      BY <1>7, <2>2 DEF Still!Hashed
    <3>2. /\ 0 \in 0 .. Duration /\ band.changes + 1 \in 0 .. Threshold
          /\ content \in {0, 1, Still!Unhashed}
      BY <1>1, <1>2, <2>2
    <3>3. QED
      BY <3>1, <3>2 DEF Still!Band
  <2>3. QED
    BY <2>1, <2>2
<1>8. CASE band.block = 0 /\ content = band.last
  <2>1. Still!Hashed(band, content) = [band EXCEPT !.changes = 0]
    BY <1>8 DEF Still!Hashed
  <2>2. 0 \in 0 .. Threshold
    BY <1>1
  <2>3. QED
    BY <1>8, <2>1, <2>2 DEF Still!Band
<1>9. QED
  BY <1>2, <1>3, <1>4, <1>5, <1>6, <1>7, <1>8

\* What differs from the frame before is dirty.
LEMMA ChangedIsDirty ==
  ASSUME StillInv
  PROVE  Still!Differs(before) \subseteq Still!Dirty
<1>1. /\ screen \in [Bands -> {0, 1}] /\ before \in [Bands -> {0, 1}]
      /\ bands \in [Bands -> Still!Band]
  BY DEF StillInv, Still!TypeOK
<1>2. ASSUME NEW b \in Bands, screen[b] # before[b]
      PROVE  Still!IsDirty(bands[b], screen[b])
  <2>1. bands[b].block \in Nat
    BY <1>1 DEF Still!Band
  <2>2. bands[b].block = 0 => bands[b].last \in {before[b], 2}
    BY DEF StillInv, Still!Unhashed
  <2>3. screen[b] \in {0, 1}
    BY <1>1
  <2>4. QED
    BY <1>2, <2>1, <2>2, <2>3 DEF Still!IsDirty
<1>3. QED
  BY <1>2 DEF Still!Differs, Still!Dirty

LEMMA MoreIsMotion ==
  ASSUME Still!StillScreenAssumption, NEW S \in SUBSET Bands, NEW T \in SUBSET Bands,
         S \subseteq T, Still!IsMotion(S)
  PROVE  Still!IsMotion(T)
<1>1. IsFiniteSet(T)
  BY FS_Subset DEF Still!StillScreenAssumption, Still!IsFiniteSet, IsFiniteSet
<1>2. Cardinality(S) <= Cardinality(T) /\ Cardinality(S) \in Nat /\ Cardinality(T) \in Nat
  BY <1>1, FS_Subset, FS_CardinalityType
<1>3. Still!Cardinality(S) = Cardinality(S) /\ Still!Cardinality(T) = Cardinality(T)
  BY DEF Still!Cardinality, Cardinality
<1>4. QED
  BY <1>2, <1>3 DEF Still!IsMotion, Still!StillScreenAssumption

\* The bookkeeping of a frame keeps its types.
LEMMA DecideTypes ==
  ASSUME Still!StillScreenAssumption, StillInv, Still!Decide
  PROVE  /\ still' \in 0 .. Trigger /\ unclean' \in 0 .. Trigger * Still!LowMotionTriggers
         /\ motion' \in 0 .. Still!Whole /\ burst' \in 0 .. Burst
         /\ {cleaned, cleanQuality}' \subseteq BOOLEAN
<1>1. /\ Trigger \in Nat \ {0} /\ Burst \in Nat \ {0}
      /\ Trigger * 4 \in Nat \ {0}
  BY DEF Still!StillScreenAssumption
<1>2. /\ still \in 0 .. Trigger /\ unclean \in 0 .. Trigger * 4
      /\ motion \in 0 .. 16 /\ burst \in 0 .. Burst
  BY DEF StillInv, Still!TypeOK, Still!LowMotionTriggers, Still!Whole
<1>3. still' \in 0 .. Trigger
  BY <1>1, <1>2 DEF Still!Decide, Still!StillNow, Still!Upto
<1>4. unclean' \in 0 .. Trigger * 4
  <2>1. unclean' \in {0, unclean, Still!Upto(Trigger * 4, unclean + 1)}
    BY DEF Still!Decide, Still!UncleanNow, Still!LowMotionTriggers
  <2> DEFINE n == Trigger * 4
  <2>2. n \in Nat /\ unclean \in 0 .. n
    BY <1>1, <1>2
  <2> HIDE DEF n
  <2>3. Still!Upto(n, unclean + 1) \in 0 .. n
    BY <2>2 DEF Still!Upto
  <2>4. QED
    BY <2>1, <2>2, <2>3 DEF n
<1>5. motion' \in 0 .. 16
  <2> DEFINE f == Trigger * 4
             x == IF Still!IsMotion(Still!Damage) THEN 16 ELSE 0
  <2>1. motion' = (motion * (f - 1) + x) \div f
    BY DEF Still!Decide, Still!MotionNow, Still!LowMotionTriggers, Still!Whole
  <2>2. f \in Nat \ {0} /\ x \in {0, 16}
    BY <1>1
  <2> HIDE DEF f, x
  <2>3. QED
    BY <1>2, <2>1, <2>2, MotionShare
<1>6. burst' \in 0 .. Burst
  BY <1>1, <1>2 DEF Still!Decide, Still!BurstLeft
<1>7. /\ cleaned' = (Still!CleanNow \/ Still!Due)
      /\ cleanQuality' = (Still!StillClean \/ Still!Due)
  BY DEF Still!Decide
<1>8. cleaned' \in BOOLEAN /\ cleanQuality' \in BOOLEAN
  BY <1>7, Zenon
<1>9. QED
  BY <1>3, <1>4, <1>5, <1>6, <1>8 DEF Still!LowMotionTriggers, Still!Whole

\* What a call of process does keeps the invariant: the frame it sends carries
\* what changed since the one before it.
LEMMA ProcessKeeps ==
  ASSUME Still!StillScreenAssumption, StillInv, Still!Process
  PROVE  /\ screen' \in [Bands -> {0, 1}] /\ before' \in [Bands -> {0, 1}]
         /\ bands' \in [Bands -> Still!Band] /\ turboDirty' \subseteq Bands
         /\ picture' \in [sent : BOOLEAN, fine : BOOLEAN, changed : SUBSET Bands]
         /\ \A b \in Bands :
                bands'[b].block = 0 => bands'[b].last \in {before'[b], Still!Unhashed}
         /\ Still!ChangeLands'
<1>1. /\ screen \in [Bands -> {0, 1}] /\ bands \in [Bands -> Still!Band]
  BY DEF StillInv, Still!TypeOK
<1>2. screen' = screen /\ before' = screen /\ turbo' = turbo /\ turboDirty' = Still!Dirty
  BY DEF Still!Process
<1>3. bands' = [b \in Bands |-> Still!Hashed(bands[b], screen[b])]
  BY DEF Still!Process
<1>4. \A b \in Bands :
          /\ Still!Hashed(bands[b], screen[b]) \in Still!Band
          /\ Still!Hashed(bands[b], screen[b]).block = 0 =>
                 Still!Hashed(bands[b], screen[b]).last = screen[b]
  BY <1>1, StillHashed
<1>5. Still!Dirty \subseteq Bands
  BY DEF Still!Dirty
<1>6. picture' = [sent |-> Still!Sends, fine |-> Still!Sends /\ Still!Fine,
                  changed |-> Still!Differs(before)]
  BY DEF Still!Process
<1>7. /\ Still!Differs(before) \subseteq Bands
      /\ Still!Sends \in BOOLEAN /\ (Still!Sends /\ Still!Fine) \in BOOLEAN
  <2>1. Still!Differs(before) \subseteq Bands
    BY DEF Still!Differs
  <2>2. Still!Sends \in BOOLEAN /\ (Still!Sends /\ Still!Fine) \in BOOLEAN
    BY Zenon DEF Still!Sends
  <2>3. QED
    BY <2>1, <2>2
<1>8. picture' \in [sent : BOOLEAN, fine : BOOLEAN, changed : SUBSET Bands]
  BY <1>6, <1>7
<1>9. ASSUME Still!Differs(before) # {} PROVE Still!Sends
  <2>1. Still!Dirty # {}
    BY <1>9, ChangedIsDirty
  <2>2. turbo \/ Still!Damage # {}
    BY <2>1 DEF Still!Damage
  <2>3. QED
    BY <2>2 DEF Still!Sends
<1>10. ASSUME turbo, Still!IsMotion(Still!Differs(before)) PROVE ~Still!Fine
  <2>1. Still!IsMotion(Still!Dirty)
    BY <1>5, <1>7, <1>10, ChangedIsDirty, MoreIsMotion
  <2>2. QED
    BY <1>10, <2>1 DEF Still!Fine, Still!Moved
<1>11. picture'.changed = Still!Differs(before) /\ (picture'.sent <=> Still!Sends)
       /\ (picture'.fine <=> Still!Sends /\ Still!Fine)
  BY <1>6, Zenon
<1>12. Still!ChangeLands'
  <2>1. picture'.changed # {} => picture'.sent
    BY <1>9, <1>11
  <2>2. turbo' /\ Still!IsMotion(picture'.changed) => ~picture'.fine
    BY <1>2, <1>10, <1>11
  <2>3. Still!IsMotion(picture.changed)' <=> Still!IsMotion(picture'.changed)
    BY DEF Still!IsMotion
  <2>4. QED
    BY <2>1, <2>2, <2>3 DEF Still!ChangeLands
<1>13. \A b \in Bands :
           bands'[b].block = 0 => bands'[b].last \in {before'[b], Still!Unhashed}
  BY <1>2, <1>3, <1>4
<1>14. bands' \in [Bands -> Still!Band]
  BY <1>3, <1>4
<1>15. QED
  BY <1>1, <1>2, <1>5, <1>8, <1>12, <1>13, <1>14

\* And every other step leaves alone what it is about.
LEMMA NextStillInv ==
  ASSUME Still!StillScreenAssumption, StillInv, [Still!Next]_(Still!vars)
  PROVE  StillInv'
<1>1. CASE Still!Captured
  <2>1. Still!Process
    BY <1>1 DEF Still!Captured, Still!Frame, Still!Fail, Still!Lose
  <2>2. Still!Decide
    BY <2>1 DEF Still!Process
  <2>3. /\ report' \in {"none", "Lost", "Withheld"}
        /\ shown' \in [Bands -> {0, 1, Still!Unhashed}]
    BY <1>1, <2>1 DEF Still!Captured, Still!Frame, Still!Fail, Still!Lose, StillInv,
       Still!TypeOK, Still!Process, Still!consumer
  <2>4. {turbo, reopens, pending, coarse, broken, gaveUp}' \subseteq BOOLEAN
    <3>1. turbo' = turbo /\ reopens' = reopens
      BY <2>1 DEF Still!Process
    <3>2. {turbo, reopens, pending, coarse, broken, gaveUp} \subseteq BOOLEAN
      BY DEF StillInv, Still!TypeOK
    <3>3. CASE Still!Frame
      BY <3>1, <3>2, <3>3, Zenon DEF Still!Frame
    <3>4. CASE Still!Fail
      BY <3>1, <3>2, <3>4, Zenon DEF Still!Fail, Still!consumer
    <3>5. CASE \E k \in {"Lost", "Withheld"} : Still!Lose(k)
      BY <3>1, <3>2, <3>5, Zenon DEF Still!Lose
    <3>6. QED
      BY <1>1, <3>3, <3>4, <3>5 DEF Still!Captured
  <2>5. QED
    BY <2>1, <2>2, <2>3, <2>4, ProcessKeeps, DecideTypes DEF StillInv, Still!TypeOK
<1>2. CASE Still!Reported \/ Still!RequestIdr \/ Still!Change \/ UNCHANGED Still!vars
  <2>1. /\ turbo' = turbo /\ UNCHANGED <<bands, before, picture>>
        /\ UNCHANGED <<reopens, turboDirty, still, unclean, motion, cleanQuality, gaveUp>>
        /\ screen' \in [Bands -> {0, 1}]
    BY <1>2 DEF Still!Reported, Still!Report, Still!RequestIdr, Still!Change, Still!vars,
       Still!region, Still!hashes, Still!consumer, Still!bounds, StillInv, Still!TypeOK
  <2>2. /\ report' \in {"none", "Lost", "Withheld"}
        /\ shown' \in [Bands -> {0, 1, Still!Unhashed}]
        /\ burst' \in 0 .. Burst
    BY <1>2 DEF Still!Reported, Still!Report, Still!RequestIdr, Still!Change, Still!vars,
       Still!region, Still!hashes, Still!consumer, Still!bounds, StillInv, Still!TypeOK,
       Still!LostFrame, Still!StillScreenAssumption
  <2>3. {cleaned, pending, coarse, broken}' \subseteq BOOLEAN
    <3>1. {cleaned, pending, coarse, broken} \subseteq BOOLEAN
      BY DEF StillInv, Still!TypeOK
    <3>2. CASE Still!Reported
      BY <3>1, <3>2, Zenon DEF Still!Reported, Still!Report, Still!LostFrame
    <3>3. CASE Still!RequestIdr \/ Still!Change \/ UNCHANGED Still!vars
      BY <3>1, <3>3, Zenon DEF Still!RequestIdr, Still!Change, Still!vars, Still!region,
         Still!hashes, Still!consumer, Still!bounds
    <3>4. QED
      BY <1>2, <3>2, <3>3
  <2>4. Still!ChangeLands'
    BY <2>1 DEF StillInv, Still!ChangeLands, Still!IsMotion
  <2>5. Still!TypeOK'
    BY <2>1, <2>2, <2>3 DEF StillInv, Still!TypeOK
  <2>6. QED
    BY <2>1, <2>4, <2>5 DEF StillInv
<1>3. QED
  BY <1>1, <1>2 DEF Still!Next

LEMMA InitStillInv ==
  ASSUME Still!StillScreenAssumption, Still!Init
  PROVE  StillInv
<1>1. /\ Duration \in Nat /\ Threshold \in Nat /\ Burst \in Nat /\ Trigger \in Nat
      /\ Trigger * 4 \in Nat
  BY DEF Still!StillScreenAssumption
<1>2. {turbo, reopens, cleaned, cleanQuality, pending, coarse, broken, gaveUp} \subseteq BOOLEAN
  BY Zenon DEF Still!Init
<1>3. bands \in [Bands -> Still!Band]
  <2>1. [last |-> Still!Unhashed, changes |-> 0, block |-> 0] \in Still!Band
    BY <1>1 DEF Still!Band
  <2>2. QED
    BY <2>1 DEF Still!Init
<1>4. /\ unclean \in 0 .. Trigger * 4 /\ still \in 0 .. Trigger /\ burst \in 0 .. Burst
      /\ motion \in 0 .. 16 /\ report \in {"none", "Lost", "Withheld"}
      /\ picture \in [sent : BOOLEAN, fine : BOOLEAN, changed : SUBSET Bands]
  BY <1>1 DEF Still!Init
<1>5. /\ {screen, before} \subseteq [Bands -> {0, 1}] /\ turboDirty \subseteq Bands
      /\ shown \in [Bands -> {0, 1, Still!Unhashed}]
  BY DEF Still!Init
<1>6. Still!TypeOK
  BY <1>2, <1>3, <1>4, <1>5 DEF Still!TypeOK, Still!LowMotionTriggers, Still!Whole
<1>7. \A b \in Bands : bands[b].last = Still!Unhashed
  BY DEF Still!Init
<1>8. Still!ChangeLands
  BY DEF Still!Init, Still!ChangeLands
<1>9. QED
  BY <1>6, <1>7, <1>8 DEF StillInv

-----------------------------------------------------------------------------
(* The sessions, each by its own proofs.                                   *)

mcvars == <<kind, vars, slots, StillOnly>>

\* What is true of the windows, and of the screen, whatever the ids.
WindowsInv ==
    /\ kind = "h264" => IInv /\ Bounded(w)
    /\ kind = "two" => TwoP!IInv /\ TwoP!Bounded(w) /\ TwoP!Noted(w)
    /\ kind = "plain" => PlainP!IInv
    /\ kind \in {"vp8", "vp9", "still"} => w = NewWindow(3, FALSE)
    /\ kind \in {"h264", "two", "plain", "vp8", "vp9", "still"}
    /\ StillInv

\* What is true of the slots where the frames remembered differ in their ids.
BuffersInv ==
    /\ kind = "vp8" => Vp8P!SlotsInv /\ Vp8P!Noted
    /\ kind = "vp9" => Vp9P!SlotsInv /\ Vp9P!Noted

\* The frames a VP8 or VP9 session remembers are told apart by their ids.
SlotIdsDiffer ==
    /\ kind = "vp8" => Vp8P!RecentIdsDiffer
    /\ kind = "vp9" => Vp9P!RecentIdsDiffer

LEMMA InitAll ==
  ASSUME MCInit
  PROVE  WindowsInv /\ BuffersInv
<1>1. StillInv
  BY EachAssumed, InitStillInv DEF MCInit
<1>2. CASE slots = NoFrame /\ kind = "h264" /\ Init
  <2>1. IInv /\ Bounded(w)
    BY <1>2, EachAssumed, InitIInv, InitBounded
  <2>2. QED
    BY <1>1, <1>2, <2>1 DEF WindowsInv, BuffersInv
<1>3. CASE slots = NoFrame /\ kind = "two" /\ Two!Init
  <2>1. TwoP!Init
    BY <1>3, SameTwo
  <2>2. TwoP!IInv /\ TwoP!Bounded(w) /\ TwoP!Noted(w)
    BY <2>1, EachAssumed, TwoP!InitIInv, TwoP!InitBounded, TwoP!InitIsNoted
  <2>3. QED
    BY <1>1, <1>3, <2>2 DEF WindowsInv, BuffersInv
<1>4. CASE slots = NoFrame /\ kind = "plain" /\ Plain!Init
  <2>1. PlainP!Init
    BY <1>4, SamePlain
  <2>2. PlainP!IInv
    BY <2>1, EachAssumed, PlainP!InitIInv
  <2>3. QED
    BY <1>1, <1>4, <2>2 DEF WindowsInv, BuffersInv
<1>5. CASE w = NewWindow(3, FALSE) /\ kind \in {"vp8", "still"} /\ Vp8!Init
  <2>1. Vp8P!Init
    BY <1>5, SameVp8
  <2>2. Vp8P!SlotsInv /\ Vp8P!Noted
    BY <2>1, EachAssumed, Vp8P!InitSlotsInv, Vp8P!InitNoted
  <2>3. QED
    BY <1>1, <1>5, <2>2 DEF WindowsInv, BuffersInv
<1>6. CASE w = NewWindow(3, FALSE) /\ kind = "vp9" /\ Vp9!Init
  <2>1. Vp9P!Init
    BY <1>6, SameVp9
  <2>2. Vp9P!SlotsInv /\ Vp9P!Noted
    BY <2>1, EachAssumed, Vp9P!InitSlotsInv, Vp9P!InitNoted
  <2>3. QED
    BY <1>1, <1>6, <2>2 DEF WindowsInv, BuffersInv
<1>7. QED
  BY <1>2, <1>3, <1>4, <1>5, <1>6 DEF MCInit, SessionInit

\* The step of a session is one of its component, or leaves it alone.
LEMMA StepOfEach ==
  ASSUME [MCNext]_mcvars
  PROVE  /\ kind' = kind
         /\ kind = "h264" => [Next]_vars
         /\ kind = "two" => [TwoP!Next]_(TwoP!vars)
         /\ kind = "plain" => [PlainP!Next]_(PlainP!vars)
         /\ kind = "vp8" => [Vp8P!Next]_(Vp8P!vars)
         /\ kind = "vp9" => [Vp9P!Next]_(Vp9P!vars)
         /\ kind \in {"vp8", "vp9", "still"} => w' = w
         /\ [Still!Next]_(Still!vars)
<1>1. UNCHANGED StillOnly => UNCHANGED Still!vars
  BY DEF StillOnly, Still!vars, Still!region, Still!hashes, Still!consumer, Still!bounds
<1>2. UNCHANGED <<vars, slots>> =>
          /\ w' = w /\ UNCHANGED vars /\ UNCHANGED TwoP!vars /\ UNCHANGED PlainP!vars
          /\ UNCHANGED Vp8P!vars /\ UNCHANGED Vp9P!vars
  BY DEF vars, TwoP!vars, PlainP!vars, Vp8P!vars, Vp9P!vars
<1>3. CASE MCNext
  <2>1. CASE /\ UNCHANGED <<kind, slots, StillOnly>>
             /\ \/ kind = "h264" /\ Next
                \/ kind = "two" /\ Two!Next
                \/ kind = "plain" /\ Plain!Next
    BY <1>1, <2>1, SameTwo, SamePlain, Zenon
  <2>2. CASE /\ UNCHANGED <<kind, w, StillOnly>>
             /\ \/ kind = "vp8" /\ Vp8!Next
                \/ kind = "vp9" /\ Vp9!Next
    BY <1>1, <2>2, SameVp8, SameVp9, Zenon
  <2>3. CASE UNCHANGED kind /\ kind = "still" /\ Still!Next /\ UNCHANGED <<vars, slots>>
    BY <1>2, <2>3
  <2>4. QED
    BY <1>3, <2>1, <2>2, <2>3 DEF MCNext
<1>4. CASE UNCHANGED mcvars
  <2>1. UNCHANGED <<vars, slots>> /\ kind' = kind /\ UNCHANGED StillOnly
    BY <1>4 DEF mcvars
  <2>2. QED
    BY <1>1, <1>2, <2>1
<1>5. QED
  BY <1>3, <1>4

LEMMA NextWindows ==
  ASSUME WindowsInv, [MCNext]_mcvars
  PROVE  WindowsInv'
<1>1. kind' = kind /\ (kind \in {"vp8", "vp9", "still"} => w' = w)
  BY StepOfEach
<1>2. StillInv'
  BY EachAssumed, StepOfEach, NextStillInv DEF WindowsInv
<1>3. ASSUME kind = "h264" PROVE IInv' /\ Bounded(w')
  <2>1. [Next]_vars /\ IInv /\ Bounded(w)
    BY <1>3, StepOfEach DEF WindowsInv
  <2>2. QED
    BY <2>1, EachAssumed, NextIInv, NextBounded
<1>4. ASSUME kind = "two" PROVE TwoP!IInv' /\ TwoP!Bounded(w') /\ TwoP!Noted(w')
  <2>1. [TwoP!Next]_(TwoP!vars) /\ TwoP!IInv /\ TwoP!Bounded(w) /\ TwoP!Noted(w)
    BY <1>4, StepOfEach DEF WindowsInv
  <2>2. QED
    BY <2>1, EachAssumed, TwoP!NextIInv, TwoP!NextBounded, TwoP!NextNoted
<1>5. ASSUME kind = "plain" PROVE PlainP!IInv'
  <2>1. [PlainP!Next]_(PlainP!vars) /\ PlainP!IInv
    BY <1>5, StepOfEach DEF WindowsInv
  <2>2. QED
    BY <2>1, EachAssumed, PlainP!NextIInv
<1>6. /\ Bounded(w)' <=> Bounded(w')
      /\ TwoP!Bounded(w)' <=> TwoP!Bounded(w')
      /\ TwoP!Noted(w)' <=> TwoP!Noted(w')
  OBVIOUS
<1>7. QED
  BY <1>1, <1>2, <1>3, <1>4, <1>5, <1>6 DEF WindowsInv

LEMMA NextBuffers ==
  ASSUME BuffersInv, SlotIdsDiffer, [MCNext]_mcvars
  PROVE  /\ BuffersInv'
         /\ kind = "vp8" => Vp8P!PinnedStep
         /\ kind = "vp9" => Vp9P!PinnedStep
<1>1. kind' = kind
  BY StepOfEach
<1>2. ASSUME kind = "vp8" PROVE Vp8P!SlotsInv' /\ Vp8P!Noted' /\ Vp8P!PinnedStep
  <2>1. /\ [Vp8P!Next]_(Vp8P!vars) /\ Vp8P!SlotsInv /\ Vp8P!Noted /\ Vp8P!RecentIdsDiffer
    BY <1>2, StepOfEach DEF BuffersInv, SlotIdsDiffer
  <2>2. Vp8P!SlotsInv'
    BY <2>1, EachAssumed, Vp8P!NextSlotsInv
  <2>3. QED
    BY <2>1, <2>2, EachAssumed, Vp8P!NextKeepsPinned
<1>3. ASSUME kind = "vp9" PROVE Vp9P!SlotsInv' /\ Vp9P!Noted' /\ Vp9P!PinnedStep
  <2>1. /\ [Vp9P!Next]_(Vp9P!vars) /\ Vp9P!SlotsInv /\ Vp9P!Noted /\ Vp9P!RecentIdsDiffer
    BY <1>3, StepOfEach DEF BuffersInv, SlotIdsDiffer
  <2>2. Vp9P!SlotsInv'
    BY <2>1, EachAssumed, Vp9P!NextSlotsInv
  <2>3. QED
    BY <2>1, <2>2, EachAssumed, Vp9P!NextKeepsPinned
<1>4. QED
  BY <1>1, <1>2, <1>3 DEF BuffersInv

-----------------------------------------------------------------------------
(* The properties of the run.                                              *)

LEMMA WindowsHold == MCSpec => []WindowsInv
<1>1. MCInit => WindowsInv
  BY InitAll
<1>2. WindowsInv /\ [MCNext]_mcvars => WindowsInv'
  BY NextWindows
<1>3. QED
  BY <1>1, <1>2, PTL DEF MCSpec, mcvars

LEMMA BuffersHold == MCSpec /\ []SlotIdsDiffer => []BuffersInv
<1>1. MCInit => BuffersInv
  BY InitAll
<1>2. BuffersInv /\ SlotIdsDiffer /\ [MCNext]_mcvars => BuffersInv'
  BY NextBuffers
<1>3. QED
  BY <1>1, <1>2, PTL DEF MCSpec, mcvars

\* A window that stays empty has nothing to predict from.
LEMMA EmptyWindow ==
  ASSUME w = NewWindow(3, FALSE)
  PROVE  Held(w) = {} /\ w.recent = {}
BY DEF NewWindow, Held, AnchorFrames

\* Whatever the session predicts from, every variable keeps its type.
THEOREM SessionsTyped == MCSpec /\ []SlotIdsDiffer => []Types
<1>1. WindowsInv /\ BuffersInv => Types
  <2> SUFFICES ASSUME WindowsInv, BuffersInv PROVE Types
    OBVIOUS
  <2>1. kind = "h264" => TypeOK
    BY DEF WindowsInv, IInv
  <2>2. kind = "two" => Two!TypeOK
    BY SameTwo DEF WindowsInv, TwoP!IInv
  <2>3. kind = "plain" => Plain!TypeOK
    BY SamePlain DEF WindowsInv, PlainP!IInv
  <2>4. (kind = "vp8" => Vp8!TypeOK) /\ (kind = "vp9" => Vp9!TypeOK)
    BY SameVp8, SameVp9 DEF BuffersInv, Vp8P!SlotsInv, Vp9P!SlotsInv
  <2>5. kind = "still" => Still!TypeOK
    BY DEF WindowsInv, StillInv
  <2>6. QED
    BY <2>1, <2>2, <2>3, <2>4, <2>5 DEF Types
<1>2. QED
  BY <1>1, WindowsHold, BuffersHold, PTL

\* No frame a window of H.264, of H.265 and AV1 or without anchors may predict
\* from depends on a frame reported lost.
THEOREM WindowsPredictPastLoss == MCSpec => []NoPredictionThroughLoss
<1>1. WindowsInv => NoPredictionThroughLoss
  <2> SUFFICES ASSUME WindowsInv PROVE NoPredictionThroughLoss
    OBVIOUS
  <2>1. CASE kind = "h264"
    BY <2>1 DEF WindowsInv, IInv, Clear, NoPredictionThroughLoss
  <2>2. CASE kind = "two"
    BY <2>2 DEF WindowsInv, TwoP!IInv, TwoP!Clear, NoPredictionThroughLoss, Valid, Held,
       AnchorFrames, TwoP!Valid, TwoP!Held, TwoP!AnchorFrames
  <2>3. CASE kind = "plain"
    BY <2>3 DEF WindowsInv, PlainP!IInv, PlainP!Clear, NoPredictionThroughLoss, Valid,
       Held, AnchorFrames, PlainP!Valid, PlainP!Held, PlainP!AnchorFrames
  <2>4. CASE kind \in {"vp8", "vp9", "still"}
    BY <2>4, EmptyWindow DEF WindowsInv, NoPredictionThroughLoss, Valid
  <2>5. QED
    BY <2>1, <2>2, <2>3, <2>4 DEF WindowsInv
<1>2. QED
  BY <1>1, WindowsHold, PTL

\* The frames remembered agree with the frames held about which are left out.
THEOREM WindowsAgree == MCSpec => []RecentAgrees
<1>1. WindowsInv => RecentAgrees
  <2> SUFFICES ASSUME WindowsInv PROVE RecentAgrees
    OBVIOUS
  <2>1. CASE kind = "h264"
    BY <2>1 DEF WindowsInv, IInv, WindowInv, NamesCoded, RecentAgrees
  <2>2. CASE kind = "two"
    BY <2>2 DEF WindowsInv, TwoP!IInv, TwoP!WindowInv, TwoP!NamesCoded, RecentAgrees,
       Held, AnchorFrames, TwoP!Held, TwoP!AnchorFrames
  <2>3. CASE kind = "plain"
    BY <2>3 DEF WindowsInv, PlainP!IInv, PlainP!WindowInv, PlainP!NamesCoded,
       RecentAgrees, Held, AnchorFrames, PlainP!Held, PlainP!AnchorFrames
  <2>4. CASE kind \in {"vp8", "vp9", "still"}
    BY <2>4, EmptyWindow DEF WindowsInv, RecentAgrees
  <2>5. QED
    BY <2>1, <2>2, <2>3, <2>4 DEF WindowsInv
<1>2. QED
  BY <1>1, WindowsHold, PTL

\* No buffer of a VP8 or VP9 session left in the predictions depends on a frame
\* reported lost, while the frames remembered are told apart by their ids.
THEOREM BuffersPredictPast == MCSpec /\ []SlotIdsDiffer => []SlotsPredictPastLoss
<1>1. BuffersInv => SlotsPredictPastLoss
  BY SameVp8, SameVp9
     DEF BuffersInv, Vp8P!SlotsInv, Vp9P!SlotsInv, SlotsPredictPastLoss
<1>2. QED
  BY <1>1, BuffersHold, PTL

\* The windows with anchors keep to the buffer they share.
THEOREM WindowsWithinBuffer == MCSpec => []WithinBuffers
<1>1. WindowsInv => WithinBuffers
  <2>1. ASSUME WindowsInv, kind = "h264" PROVE WithinBuffer
    BY <2>1 DEF WindowsInv, Bounded, ValidAnchors, WithinBuffer
  <2>2. ASSUME WindowsInv, kind = "two" PROVE TwoP!WithinBuffer
    BY <2>2 DEF WindowsInv, TwoP!Bounded, TwoP!ValidAnchors, TwoP!WithinBuffer
  <2>3. QED
    BY <2>1, <2>2, SameTwo DEF WithinBuffers
<1>2. QED
  BY <1>1, WindowsHold, PTL

\* A report for a frame left out already changes nothing.
THEOREM ReportsRepeat == MCSpec => []RepeatedReports
<1>1. ASSUME WindowsInv, kind = "h264" PROVE RepeatedReport
  BY <1>1, EachAssumed, RepeatsNothing DEF WindowsInv
<1>2. ASSUME WindowsInv, kind = "two" PROVE TwoP!RepeatedReport
  BY <1>2, EachAssumed, TwoP!RepeatsNothing DEF WindowsInv
<1>3. ASSUME WindowsInv, kind = "plain" PROVE PlainP!RepeatedReport
  BY <1>3, EachAssumed, PlainP!RepeatsNothing DEF WindowsInv
<1>4. WindowsInv => RepeatedReports
  BY <1>1, <1>2, <1>3, SameTwo, SamePlain DEF RepeatedReports
<1>5. QED
  BY <1>4, WindowsHold, PTL

\* The anchor every consumer holds stays, in the window of two anchors and in
\* the slots, and spares the window a key frame.
THEOREM AnchorsStay == MCSpec /\ []SlotIdsDiffer => PinnedStays
<1>1. ASSUME WindowsInv, kind = "two" PROVE TwoP!PinnedSparesKey
  BY <1>1, EachAssumed, TwoP!PinnedSpares DEF WindowsInv
<1>2. WindowsInv => (kind = "two" => Two!PinnedSparesKey)
  BY <1>1, SameTwo
<1>3. ASSUME WindowsInv, WindowsInv', BuffersInv, SlotIdsDiffer, [MCNext]_mcvars
      PROVE  /\ kind = "two" => Two!PinnedStep
             /\ kind = "vp8" => Vp8!PinnedStep
             /\ kind = "vp9" => Vp9!PinnedStep
  <2>1. ASSUME kind = "two" PROVE TwoP!PinnedStep
    <3>1. TwoP!IInv /\ TwoP!Noted(w) /\ [TwoP!Next]_(TwoP!vars)
      BY <1>3, <2>1, StepOfEach DEF WindowsInv
    <3>2. TwoP!IInv'
      BY <3>1, EachAssumed, TwoP!NextIInv
    <3>3. QED
      BY <3>1, <3>2, EachAssumed, TwoP!NextKeepsPinned
  <2>2. QED
    BY <1>3, <2>1, NextBuffers, SameTwo, SameVp8, SameVp9
<1>4. WindowsInv /\ WindowsInv' /\ BuffersInv /\ SlotIdsDiffer /\ [MCNext]_mcvars =>
          [/\ kind = "two" => Two!PinnedStep
           /\ kind = "vp8" => Vp8!PinnedStep
           /\ kind = "vp9" => Vp9!PinnedStep]_<<kind, vars, slots>>
  BY <1>3
<1>5. QED
  BY <1>2, <1>4, WindowsHold, BuffersHold, PTL DEF MCSpec, mcvars, PinnedStays

\* The device is told of the anchor the next frame predicts from, and a decoder
\* still has what an H.264 frame predicts from: for a schedule that marks few
\* frames and a memory that outlasts the buffer, as the code's, and while no
\* frame is remembered for more than the ids last.
THEOREM PredictedIsKept ==
  ASSUME Paced
  PROVE  MCSpec /\ [](kind = "h264" => YoungIds) => PredictsFromKept
<1> DEFINE AllLaid == kind = "h264" /\ Anchored => Laid(w, coded)
<1>1. MCInit => AllLaid
  <2>1. ASSUME MCInit, kind = "h264" PROVE Init
    BY <2>1 DEF MCInit, SessionInit
  <2>2. QED
    BY <2>1, InitLaid
<1>2. ASSUME WindowsInv, AllLaid, [MCNext]_mcvars PROVE AllLaid'
  <2>1. SUFFICES ASSUME kind' = "h264", Anchored PROVE Laid(w', coded')
    OBVIOUS
  <2>2. kind = "h264" /\ [Next]_vars /\ IInv /\ Laid(w, coded)
    BY <1>2, <2>1, StepOfEach DEF WindowsInv
  <2>3. QED
    BY <2>1, <2>2, EachAssumed, NextLaid
<1>3. ASSUME WindowsInv, WindowsInv', AllLaid, kind = "h264" => YoungIds, [MCNext]_mcvars
      PROVE  /\ kind = "h264" => NamedStep /\ KeptStep
             /\ kind = "two" => Two!NamedStep
  <2>1. kind' = kind
    BY <1>3, StepOfEach
  <2>2. ASSUME kind = "h264" PROVE NamedStep /\ KeptStep
    <3>1. /\ [Next]_vars /\ IInv /\ IInv' /\ Bounded(w) /\ YoungIds
          /\ Anchored => Laid(w, coded)
      BY <1>3, <2>1, <2>2, StepOfEach DEF WindowsInv
    <3>2. QED
      BY <3>1, EachAssumed, NextNames, NextKept
  <2>3. ASSUME kind = "two" PROVE TwoP!NamedStep
    <3>1. [TwoP!Next]_(TwoP!vars) /\ TwoP!IInv /\ TwoP!IInv'
      BY <1>3, <2>1, <2>3, StepOfEach DEF WindowsInv
    <3>2. QED
      BY <3>1, EachAssumed, TwoP!NextNames
  <2>4. QED
    BY <2>2, <2>3, SameTwo
<1>4. WindowsInv /\ WindowsInv' /\ AllLaid /\ (kind = "h264" => YoungIds) /\ [MCNext]_mcvars =>
          AllLaid' /\ [/\ kind = "h264" => NamedStep /\ KeptStep
                       /\ kind = "two" => Two!NamedStep]_<<kind, vars, slots>>
  BY <1>2, <1>3
<1>5. QED
  BY <1>1, <1>4, WindowsHold, PTL DEF MCSpec, mcvars, PredictsFromKept

\* StillScreen: a change is sent, and what lands on a cleanup is not coded as
\* one, for every number of bands and every threshold.
THEOREM ChangesLand == MCSpec => []ChangeLands
<1>1. WindowsInv => ChangeLands
  BY DEF WindowsInv, StillInv, ChangeLands
<1>2. QED
  BY <1>1, WindowsHold, PTL

\* The hypothesis of the theorems about the slots holds while no more frames are
\* captured than there are ids, as in the checked run.
THEOREM SlotIdsDifferWhileFew ==
  ASSUME MaxFrames \in Nat, MaxEvents \in Nat, MaxFrames + MaxEvents <= IdMod
  PROVE  MCSpec => []SlotIdsDiffer
<1> DEFINE Few == /\ kind = "vp8" => Vp8P!FewCaptured
                  /\ kind = "vp9" => Vp9P!FewCaptured
<1>1. MCInit => BuffersInv /\ Few
  <2>1. SUFFICES ASSUME MCInit PROVE Few
    BY InitAll
  <2>2. ASSUME kind = "vp8" PROVE Vp8P!FewCaptured
    <3>1. Vp8P!Init
      BY <2>1, <2>2, SameVp8 DEF MCInit, SessionInit
    <3>2. QED
      BY <3>1, EachAssumed, Vp8P!InitFew
  <2>3. ASSUME kind = "vp9" PROVE Vp9P!FewCaptured
    <3>1. Vp9P!Init
      BY <2>1, <2>3, SameVp9 DEF MCInit, SessionInit
    <3>2. QED
      BY <3>1, EachAssumed, Vp9P!InitFew
  <2>4. QED
    BY <2>2, <2>3
<1>2. BuffersInv /\ Few => SlotIdsDiffer
  <2>1. SUFFICES ASSUME BuffersInv, Few PROVE SlotIdsDiffer
    OBVIOUS
  <2>2. kind = "vp8" => Vp8P!RecentIdsDiffer
    BY <2>1, EachAssumed, Vp8P!FewIdsDiffer DEF BuffersInv
  <2>3. kind = "vp9" => Vp9P!RecentIdsDiffer
    BY <2>1, EachAssumed, Vp9P!FewIdsDiffer DEF BuffersInv
  <2>4. QED
    BY <2>2, <2>3 DEF SlotIdsDiffer
<1>3. BuffersInv /\ Few /\ [MCNext]_mcvars => BuffersInv' /\ Few'
  <2>1. SUFFICES ASSUME BuffersInv, Few, [MCNext]_mcvars PROVE BuffersInv' /\ Few'
    OBVIOUS
  <2>2. BuffersInv' /\ kind' = kind
    BY <1>2, <2>1, NextBuffers, StepOfEach
  <2>3. ASSUME kind = "vp8" PROVE Vp8P!FewCaptured'
    BY <2>1, <2>3, StepOfEach, EachAssumed, Vp8P!NextFew DEF BuffersInv
  <2>4. ASSUME kind = "vp9" PROVE Vp9P!FewCaptured'
    BY <2>1, <2>4, StepOfEach, EachAssumed, Vp9P!NextFew DEF BuffersInv
  <2>5. QED
    BY <2>2, <2>3, <2>4
<1>4. QED
  BY <1>1, <1>2, <1>3, PTL DEF MCSpec, mcvars

=============================================================================
