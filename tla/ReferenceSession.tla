-------------------------- MODULE ReferenceSession --------------------------
(***************************************************************************)
(* A hardware encoder session that keeps a ReferenceWindow, and the        *)
(* reports of its consumers: NvencEncoder::submit_frame, take_report and   *)
(* the resets of pixelflux/src/encoders/nvenc.rs.                          *)
(*                                                                         *)
(* One encode thread owns the session and applies the reports it drained   *)
(* ahead of the next encode, so each is an action.  The capture numbers    *)
(* every frame it publishes and the session records only the ones coded    *)
(* (a frame with nothing to send is skipped), so the ids have gaps.        *)
(*                                                                         *)
(* What each coded frame depends on is a history variable: a frame decodes *)
(* only where every frame of its chain was received.                       *)
(***************************************************************************)
EXTENDS ReferenceWindow

CONSTANTS
    Buffers,       \* sizes of the decoded picture buffer the levels admit
    Reports,       \* the kinds of report the consumers make (ReferenceReport)
    FirstCount,    \* the capture's frame counter when the session opens
    MaxFrames,     \* bounds for model checking only: frames coded, and
    MaxEvents      \*   everything that is not the plain coding of a frame

SessionAssumption ==
    /\ Buffers \subseteq Nat /\ Buffers # {}
    /\ Reports \subseteq {"Lost", "Held", "Sent"}
    /\ FirstCount \in Nat /\ MaxFrames \in Nat /\ MaxEvents \in Nat

VARIABLES
    w,         \* the session's window
    count,     \* the capture's frame counter, not wrapped
    forceIdr,  \* the controls' force_idr
    coded,     \* history: each coded frame by pts (Coded)
    lost,      \* history: pts of the sent frames reported lost
    events     \* how many events there were, for MaxEvents

vars == <<w, count, forceIdr, coded, lost, events>>

\* A coded frame: its capture count, the frame the window has it predict from
\* (the device's too, but after a refusal and a failure in one: EncodeFails) and the one in the anchor the device is told to use (by pts, its own for
\* none), every frame it depends on, itself included, and whether it was sent.
Coded == [count : Nat, from : Nat, named : Nat, chain : SUBSET Nat, sent : BOOLEAN]

TypeOK ==
    /\ w \in Window
    /\ count \in Nat
    /\ forceIdr \in BOOLEAN
    /\ coded \in [0 .. w.nextPts - 1 -> Coded]
    /\ lost \subseteq 0 .. w.nextPts - 1
    /\ events \in Nat

Init ==
    /\ \E buffer \in Buffers, acknowledged \in BOOLEAN :
            w = NewWindow(buffer, acknowledged)
    /\ count = FirstCount
    /\ forceIdr = FALSE
    /\ coded = [p \in {} |-> 0]
    /\ lost = {}
    /\ events = 0

Id(c) == c % IdMod

-----------------------------------------------------------------------------
(* Encoding.                                                               *)

\* A window and whether the next frame is forced to a key frame.
Stage(win, key) == [w |-> win, key |-> key]

\* An invalidation passed to the device: a key frame where it is asked for,
\* or where the device refuses to forget.
Applied(a, refuses) ==
    Stage(a.w, a.asks = "KeyFrame" \/ (a.asks = "Forget" /\ refuses))

\* submit_frame up to the picture: settle before an anchor, then forget_stale.
Settled(win, key, refuses) ==
    IF key \/ PlanAnchor(win, FALSE) = NoSlot THEN Stage(win, key)
    ELSE Applied(Settle(win), refuses)

\* Mutant of Refreshed: a stale recent frame is predicted from all the same.
RefreshedNever(s, refuses) == s

Refreshed(s, refuses) ==
    IF s.key THEN s ELSE Applied(ForgetStale(s.w), refuses)
Prepared(refuses) ==
    Refreshed(Settled(w, forceIdr \/ ~HasReference(w), refuses), refuses)

\* The frame the next one predicts from, and the pts of what an anchor holds.
Source(win, key) ==
    IF key \/ ~HasReference(win) THEN win.nextPts ELSE NewestValid(win).pts
InSlot(win, slot) ==
    IF slot \in AnchorSlots /\ win.anchors[slot] # NoFrame
    THEN win.anchors[slot].pts ELSE win.nextPts

\* Mutant of PredictingAnchor: the newest anchor is named though a recent frame
\* is newer.
PredictingAnchorAlways(win, key) ==
    IF key \/ \A i \in AnchorSlots : win.anchors[i] \notin Valid(win) THEN NoSlot
    ELSE CHOOSE i \in AnchorSlots :
            /\ win.anchors[i] \in Valid(win)
            /\ \A j \in AnchorSlots : win.anchors[j] \in Valid(win) =>
                   win.anchors[j].pts <= win.anchors[i].pts

\* predicting_anchor, for a picture that is no key frame.
PredictingAnchor(win, key) ==
    IF key \/ ~HasReference(win) THEN NoSlot
    ELSE IF NewestValid(win) \in win.frames THEN NoSlot
    ELSE CHOOSE i \in AnchorSlots : win.anchors[i] = NewestValid(win)

\* The next frame of `win`, the device told of the anchor `named`.
NextCoded(log, win, key, named, sent) ==
    LET from == Source(win, key) IN
    [ count |-> count, from |-> from, named |-> InSlot(win, named), sent |-> sent,
      chain |-> {win.nextPts} \cup IF from < win.nextPts THEN log[from].chain ELSE {} ]

\* The log with the next frame of `win` in it.
Logged(log, win, key, named, sent) ==
    [p \in 0 .. win.nextPts |->
        IF p = win.nextPts THEN NextCoded(log, win, key, named, sent) ELSE log[p]]

Event == events < MaxEvents /\ events' = events + 1

\* One picture coded and recorded, and the session's delivery of it.
EncodeFrame ==
    /\ w.nextPts < MaxFrames
    /\ \E refuses \in BOOLEAN :
        LET s == Prepared(refuses)
        IN  /\ w' = Record(s.w, Id(count), s.key, PlanAnchor(s.w, s.key))
            /\ coded' = Logged(coded, s.w, s.key, PredictingAnchor(s.w, s.key), TRUE)
    /\ count' = count + 1
    /\ forceIdr' = FALSE
    /\ UNCHANGED <<lost, events>>

\* The device codes a key frame it was not asked for, in the anchor planned
\* for another frame.
EncodeOwnKey ==
    /\ w.nextPts < MaxFrames /\ Event
    /\ LET s == Prepared(FALSE)
       IN  /\ ~s.key
           /\ w' = Record(s.w, Id(count), TRUE, PlanAnchor(s.w, FALSE))
           /\ coded' = Logged(coded, s.w, TRUE, NoSlot, TRUE)
    /\ count' = count + 1
    /\ forceIdr' = FALSE
    /\ UNCHANGED lost

\* A picture coded over its budget, taken back before it is coded again: a
\* forced key frame is not asked back (retract_last).
TakenBack(first, key) == IF key THEN first ELSE Retract(first)

\* The second coding goes in the place of the first, under its id and with the
\* anchors planned and named for the first; only the second is sent.
EncodeAgain ==
    /\ w.nextPts + 1 < MaxFrames /\ Event
    /\ LET s == Prepared(FALSE)
           slot == PlanAnchor(s.w, s.key)
           named == PredictingAnchor(s.w, s.key)
           first == Record(s.w, Id(count), s.key, slot)
           back == TakenBack(first, s.key)
       IN  /\ s.key \/ CanRetract(first)
           /\ w' = Record(back, Id(count), s.key, slot)
           /\ coded' = Logged(Logged(coded, s.w, s.key, named, FALSE),
                             back, s.key, named, TRUE)
    /\ count' = count + 1
    /\ forceIdr' = FALSE
    /\ UNCHANGED lost

\* The second coding fails in the device: nothing is sent, and the request the
\* first one was to serve is armed again.
EncodeAgainFails ==
    /\ w.nextPts < MaxFrames /\ Event
    /\ LET s == Prepared(FALSE)
           first == Record(s.w, Id(count), s.key, PlanAnchor(s.w, s.key))
       IN  /\ s.key \/ CanRetract(first)
           /\ w' = TakenBack(first, s.key)
           /\ coded' = Logged(coded, s.w, s.key, PredictingAnchor(s.w, s.key), FALSE)
    /\ count' = count + 1
    /\ UNCHANGED <<forceIdr, lost>>

\* The picture fails in the device: what settle and forget_stale left out
\* stays left out, nothing is recorded, and a request for a key frame that was
\* not served is armed again.  A key frame forced because the device refused to
\* forget is not: `from` is then still the window's, while the device, which
\* forgot nothing, goes on predicting from a frame the window left out.
EncodeFails ==
    /\ Event
    /\ \E refuses \in BOOLEAN : w' = Prepared(refuses).w
    /\ count' = count + 1
    /\ UNCHANGED <<forceIdr, coded, lost>>

\* A published frame with nothing to send takes an id all the same.
SkipFrame ==
    /\ Event
    /\ count' = count + 1
    /\ UNCHANGED <<w, forceIdr, coded, lost>>

-----------------------------------------------------------------------------
(* Reports and requests.                                                   *)

\* A report is of a frame that was sent, and reaches the session before half
\* the ids have gone by since (nine minutes at 60 fps).
Reportable == {p \in DOMAIN coded :
                    coded[p].sent /\ count - coded[p].count < IdMod \div 2}

\* take_report of Lost or Withheld: where the device refuses, force_idr.
ReportLost ==
    /\ "Lost" \in Reports /\ Event
    /\ \E p \in Reportable, refuses \in BOOLEAN :
        LET a == Invalidate(w, Id(coded[p].count)) IN
        /\ w' = a.w
        /\ lost' = lost \cup {p}
        /\ forceIdr' = (forceIdr \/ (a.asks = "Forget" /\ refuses))
    /\ UNCHANGED <<count, coded>>

\* take_report of Held or Sent.
ReportHeld ==
    /\ Event
    /\ \E p \in Reportable, kind \in Reports \ {"Lost"} :
        w' = Acknowledge(w, Id(coded[p].count), kind = "Held")
    /\ UNCHANGED <<count, forceIdr, coded, lost>>

\* request_idr_frame, with a session that has something else to offer.
RequestIdr ==
    /\ Event
    /\ ~forceIdr /\ HasReference(w)
    /\ forceIdr' = TRUE
    /\ UNCHANGED <<w, count, coded, lost>>

\* The stream restarts with a key frame of its own: a resolution change
\* (set_capacity, then reset), a raised level, a frame_num not widened.
ResetStream ==
    /\ Event
    /\ \E buffer \in Buffers : w' = Reset(SetCapacity(w, buffer))
    /\ UNCHANGED <<count, forceIdr, coded, lost>>

-----------------------------------------------------------------------------
Next ==
    \/ EncodeFrame \/ EncodeOwnKey \/ EncodeAgain \/ EncodeAgainFails
    \/ EncodeFails \/ SkipFrame
    \/ ReportLost \/ ReportHeld \/ RequestIdr \/ ResetStream

Spec == Init /\ [][Next]_vars

-----------------------------------------------------------------------------
(* Properties.                                                             *)

\* What the whole scheme is for: no frame the next one may predict from
\* depends, however indirectly, on a frame a consumer reported lost, so the
\* next frame decodes there ("the frames after it stop predicting from it").
NoPredictionThroughLoss ==
    \A f \in Valid(w) : coded[f.pts].chain \cap lost = {}

\* The frames remembered agree with the frames held about which are left out:
\* invalidate answers from the one and changes the other.
RecentAgrees ==
    \A f \in Held(w), r \in w.recent : f.pts = r.pts => f = r

\* The window never counts on more frames than the decoder keeps: the recent
\* frames and the anchors in use share one buffer.
WithinBuffer ==
    Cardinality(w.frames) + Cardinality({a \in AnchorFrames(w) : ~a.lost})
        <= w.capacity + AnchorCount

\* A report for a frame already left out, still remembered, leaves the
\* recovered chain intact (the doc of invalidate).
RepeatedReport ==
    \A p \in lost :
        (\E r \in w.recent : r.pts = p /\ r.lost) /\ p \in Reportable
            => Invalidate(w, Id(coded[p].count)).w = w

\* The anchor every consumer holds: with two anchors it is given up only for a
\* newer one they hold, a key frame, a restart, a loss that reaches back to it
\* or is too old to be remembered, or as many newer frames they hold as are
\* noted, so the schedule never takes it away from a client that lags (plan_anchor).
PinnedPts(win) == win.anchors[PinnedAnchor(win)].pts
PinnedStep ==
    (AnchorCount = 2 /\ PinnedAnchor(w) # NoSlot) =>
        \/ PinnedAnchor(w') # NoSlot /\ PinnedPts(w') >= PinnedPts(w)
        \/ w'.keyPts > w.keyPts \/ Held(w') = {}
        \/ Cardinality({q \in w'.common : q > PinnedPts(w)}) >= RecentFrames
        \/ /\ UNCHANGED coded
           /\ \E p \in lost' : p <= PinnedPts(w) \/ p \notin Pts(w.recent)

\* A loss newer than the pinned anchor, of a frame still remembered, never
\* costs a key frame ("predicted past from the pinned anchor however deep the
\* loss (eight seconds of frames at 60 fps are remembered)", README).
PinnedSparesKey ==
    (FrameNumRange = 0 /\ PinnedAnchor(w) # NoSlot) =>
        \A p \in Reportable :
            p > PinnedPts(w) /\ p \in Pts(w.recent)
                => Invalidate(w, Id(coded[p].count)).asks # "KeyFrame"

\* The anchor the device is told to predict from is the one the window says
\* ("the anchor the next frame predicts from ... the encoder names it"), for a
\* frame coded once.
NamedStep ==
    EncodeAgain \/ \A p \in DOMAIN coded' \ DOMAIN coded :
                       coded'[p].named \in {p, coded'[p].from}

\* A client's decoder still has the recent frame an H.264 frame predicts from,
\* the pictures it missed since counted ("Before an H.264 frame: ..."), for a
\* frame coded once.
KeptStep ==
    EncodeAgain \/ ((FrameNumRange > 0 /\ Anchored /\ w'.nextPts > w.nextPts) =>
                       LET p == w'.nextPts - 1
                           from == coded'[p].from
                       IN  from \in Pts(AnchorFrames(w)) \/ p - from <= w.capacity)

\* A key frame the clients never got is coded again ("an IDR lost to an encode
\* error or skip would never self-heal").
LostKeyIsRepeated ==
    forceIdr \/ \A f \in Valid(w) : \A p \in coded[f.pts].chain : coded[p].sent
=============================================================================
