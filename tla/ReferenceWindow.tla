--------------------------- MODULE ReferenceWindow ---------------------------
(***************************************************************************)
(* Which frame a delivered frame predicts from, kept true across the       *)
(* frames clients report lost: struct ReferenceWindow of                   *)
(* pixelflux/src/encoders/reference.rs.  Its methods are operators on a    *)
(* window record; module ReferenceSession has the encoder session and the  *)
(* clients that call them.                                                 *)
(*                                                                         *)
(* A frame is the (id, pts, lost) triple of the code: the capture's frame  *)
(* id, which wraps at IdMod, the session's own count of encoded frames,    *)
(* which does not, and whether it is left out of the predictions.  Every   *)
(* queue of the code is ordered by pts, so a queue is a set of frames, its *)
(* front the frame of least pts, and keeping a queue short is Newest.      *)
(***************************************************************************)
EXTENDS Integers, FiniteSets, FiniteSetsExt

CONSTANTS
    IdMod,             \* how many values a frame id takes (2^16: u16)
    AnchorCount,       \* with_anchors(_, count): 0 for `new`, 1 or 2
    Lends,             \* lend_free_anchors was called
    FrameNumRange,     \* set_frame_num_range; 0 for a codec without frame_num
    AnchorEvery,       \* ANCHOR_EVERY
    AnchorAloneEvery,  \* ANCHOR_ALONE_EVERY
    SettleSlack,       \* SETTLE_SLACK
    SettleRecent,      \* SETTLE_RECENT
    PendingPeriods,    \* PENDING_PERIODS
    HoldLag,           \* HOLD_LAG
    HoldMax,           \* HOLD_MAX
    RecentFrames,      \* RECENT_FRAMES
    NoFrame            \* an anchor holding nothing

Ids == 0 .. IdMod - 1
Frame == [id : Ids, pts : Nat, lost : BOOLEAN]

WindowAssumption ==
    /\ IdMod \in Nat /\ IdMod >= 2
    /\ AnchorCount \in 0 .. 2
    /\ Lends \in BOOLEAN
    /\ FrameNumRange \in Nat
    /\ AnchorEvery \in Nat \ {0} /\ AnchorAloneEvery \in Nat \ {0}
    /\ SettleSlack \in Nat /\ SettleRecent \in Nat /\ PendingPeriods \in Nat
    /\ HoldLag \in Nat /\ HoldMax \in Nat
    /\ RecentFrames \in Nat \ {0}
    /\ NoFrame \notin Frame

AnchorSlots == 0 .. AnchorCount - 1
NoSlot == -1    \* no anchor: Option::None of a slot number
Anchored == AnchorCount > 0

Window ==
    [ frames       : SUBSET Frame,    \* the recent frames the decoder holds
      capacity     : Nat,             \* how many of them, the anchors apart
      anchors      : [AnchorSlots -> Frame \cup {NoFrame}],
      recent       : SUBSET Frame,    \* the frames remembered by id
      nextPts      : Nat,
      newest       : Ids,             \* KeyAge::newest
      sinceKey     : Nat,             \* KeyAge::since_key
      keyPts       : Nat,
      acknowledged : BOOLEAN,
      common       : SUBSET Nat,      \* pts of frames every consumer holds
      sent         : SUBSET Nat ]     \* and of those every consumer was sent

\* set_capacity's share of a buffer of `buffer` frames.
Beside(buffer) == IF buffer > AnchorCount + 1 THEN buffer - AnchorCount ELSE 1

\* new and with_anchors.
NewWindow(buffer, acknowledged) ==
    [ frames |-> {}, capacity |-> Beside(buffer),
      anchors |-> [i \in AnchorSlots |-> NoFrame], recent |-> {},
      nextPts |-> 0, newest |-> 0, sinceKey |-> 0, keyPts |-> 0,
      acknowledged |-> acknowledged, common |-> {}, sent |-> {} ]

-----------------------------------------------------------------------------
(* Reading the window.                                                     *)

\* u16::wrapping_sub.
WrappingSub(a, b) == (a - b) % IdMod

Multiple(n, d) == n % d = 0

Pts(S) == {f.pts : f \in S}

\* The n newest frames of S: what is left of a queue cut to n from its front.
Newest(S, n) == {f \in S : Cardinality({g \in S : g.pts > f.pts}) < n}

AnchorFrames(w) == {w.anchors[i] : i \in DOMAIN w.anchors} \ {NoFrame}
Held(w) == w.frames \cup AnchorFrames(w)
Valid(w) == {f \in Held(w) : ~f.lost}

HasReference(w) == Valid(w) # {}

\* newest_valid, where HasReference: the frame the next one predicts from.
NewestValid(w) == CHOOSE f \in Valid(w) : \A g \in Valid(w) : g.pts <= f.pts

\* recent_capacity: an anchor holding nothing valid lends its share.
RecentCapacity(w) ==
    w.capacity +
        IF Lends
        THEN Cardinality({i \in AnchorSlots :
                            w.anchors[i] = NoFrame \/ w.anchors[i].lost})
        ELSE 0

AnchorPeriod == IF AnchorCount = 1 THEN AnchorAloneEvery ELSE AnchorEvery

SinceKey(w, pts) == pts - w.keyPts

\* The next frame carries H.264 frame_num 0, the consumers acknowledging.
WrapsNext(w) ==
    /\ w.acknowledged /\ FrameNumRange > 0
    /\ Multiple(SinceKey(w, w.nextPts), FrameNumRange)

\* A frame a consumer sends every client of an H.264 stream.
Kept(w, pts) ==
    /\ FrameNumRange > 0 /\ pts > w.keyPts
    /\ Multiple(SinceKey(w, pts), FrameNumRange)

\* Every consumer holds the frame, or was sent it.
IsCommon(w, pts) ==
    pts = w.keyPts \/ (w.acknowledged /\ Kept(w, pts)) \/ pts \in w.common
IsShared(w, pts) == IsCommon(w, pts) \/ pts \in w.sent

\* The anchors that hold a frame every consumer holds, and the newest's slot.
CommonAnchors(w) ==
    {i \in AnchorSlots : /\ w.anchors[i] # NoFrame
                         /\ ~w.anchors[i].lost
                         /\ IsCommon(w, w.anchors[i].pts)}
PinnedAnchor(w) ==
    IF ~w.acknowledged \/ CommonAnchors(w) = {} THEN NoSlot
    ELSE CHOOSE i \in CommonAnchors(w) :
            \A j \in CommonAnchors(w) : w.anchors[j].pts <= w.anchors[i].pts

\* An anchor marked now would predict from an older one.
ReachesBack(w) ==
    /\ HasReference(w) /\ ~IsShared(w, NewestValid(w).pts)
    /\ \A f \in w.frames : f.lost \/ ~IsShared(w, f.pts)
    /\ \E a \in AnchorFrames(w) : ~a.lost /\ w.nextPts - a.pts < HoldMax

\* The lone anchor is held by all while frames sent to all go unheld.
HeldBack(w) ==
    LET a == w.anchors[0]
        held == Max(w.common \cup {w.keyPts})
        sent == Max(w.sent \cup {held})
    IN  /\ a # NoFrame /\ ~a.lost /\ IsCommon(w, a.pts)
        /\ sent - held > HoldLag /\ w.nextPts - a.pts < HoldMax

\* An anchor every consumer was sent and is yet to hold.
Pending(w, a) ==
    /\ a # NoFrame /\ ~a.lost
    /\ IsShared(w, a.pts) /\ ~IsCommon(w, a.pts)
    /\ w.nextPts - a.pts < PendingPeriods * AnchorPeriod

\* plan_anchor's rank: an empty or lost anchor first, then the older one.
RankBefore(a, b) ==
    LET valid(x) == IF x # NoFrame /\ ~x.lost THEN 1 ELSE 0
        pts(x) == IF x = NoFrame THEN 0 ELSE x.pts
    IN  \/ valid(a) < valid(b)
        \/ valid(a) = valid(b) /\ pts(a) <= pts(b)

Scheduled(w) == Multiple(SinceKey(w, w.nextPts), AnchorPeriod)

\* Mutant of PlanAnchor: the schedule marks over the pinned anchor too.
PlanAnchorOverPinned(w, key) ==
    IF ~Anchored THEN NoSlot
    ELSE IF key \/ ~HasReference(w) \/ AnchorFrames(w) = {} THEN 0
    ELSE LET open == {i \in AnchorSlots : ~Pending(w, w.anchors[i])}
         IN  IF ~Scheduled(w) \/ open = {} THEN NoSlot
             ELSE Min({i \in open : \A j \in open :
                            RankBefore(w.anchors[i], w.anchors[j])})

\* plan_anchor: the slot the next frame is marked into, NoSlot for none.
PlanAnchor(w, key) ==
    IF ~Anchored THEN NoSlot
    ELSE IF key \/ ~HasReference(w) \/ AnchorFrames(w) = {} THEN 0
    ELSE LET wraps == WrapsNext(w)
             kept == AnchorCount = 1 /\ w.acknowledged /\ ~wraps
             open == {i \in AnchorSlots :
                        /\ AnchorCount = 1 \/ i # PinnedAnchor(w)
                        /\ wraps \/ ~Pending(w, w.anchors[i])}
         IN  IF \/ ~Scheduled(w) /\ ~wraps
                \/ kept /\ (ReachesBack(w) \/ HeldBack(w))
                \/ open = {}
             THEN NoSlot
             ELSE Min({i \in open : \A j \in open :
                            RankBefore(w.anchors[i], w.anchors[j])})

\* KeyAge::behind: how many frames ago id went out, where it is dated.
Behind(w, id) == WrappingSub(w.newest, id)
Dated(w, id) == Behind(w, id) < IdMod \div 2 /\ Behind(w, id) <= w.sinceKey

\* The frames remembered under an id, and the newest of a set.
Named(S, id) == {f \in S : f.id = id}
Last(S) == CHOOSE f \in S : \A g \in S : g.pts <= f.pts
First(S) == CHOOSE f \in S : \A g \in S : f.pts <= g.pts

-----------------------------------------------------------------------------
(* Changing the window.                                                    *)

SetAcknowledged(w) == [w EXCEPT !.acknowledged = TRUE]

\* acknowledge: note that every consumer holds frame id, or was sent it; a
\* frame not remembered, lost or from before the key frame changes nothing
\* but `acknowledged`.  The notes are cut to RECENT_FRAMES as a queue is.
NewestPts(S, n) == {p \in S : Cardinality({q \in S : q > p}) < n}
Acknowledge(w, id, held) ==
    LET a == SetAcknowledged(w)
        named == Named(w.recent, id)
    IN  IF named = {} THEN a
        ELSE IF Last(named).lost \/ Last(named).pts < w.keyPts THEN a
        ELSE IF held
        THEN [a EXCEPT !.common =
                NewestPts(w.common \cup {Last(named).pts}, RecentFrames)]
        ELSE [a EXCEPT !.sent =
                NewestPts(w.sent \cup {Last(named).pts}, RecentFrames)]

\* Mutants: the frame lost stays in the predictions; the anchors do.
LostAfter(f, cut) == [f EXCEPT !.lost = f.lost \/ f.pts > cut]
MarkAnchorsNot(anchors, cut) == anchors

\* Leave out every frame of a set encoded at or after `cut`.
LostFrom(f, cut) == [f EXCEPT !.lost = f.lost \/ f.pts >= cut]
MarkLost(S, cut) == {LostFrom(f, cut) : f \in S}
MarkAnchors(anchors, cut) ==
    [i \in AnchorSlots |->
        IF anchors[i] = NoFrame THEN NoFrame ELSE LostFrom(anchors[i], cut)]

\* What an invalidation answers: the window after it, what it asks of the
\* encoder (Invalidation), and the frame a Forget names.
Answer(w, asks, pts) == [w |-> w, asks |-> asks, pts |-> pts]
Ignored(w) == Answer(w, "Ignored", 0)

\* Mutants of Leave: what is remembered goes from the loss even where all that
\* is held does; a key frame is asked for while an anchor is left.
LeaveRemembered(w, from, all) ==
    LET cut == IF all THEN 0 ELSE from
        gone == [w EXCEPT !.frames = MarkLost(w.frames, cut),
                          !.anchors = MarkAnchors(w.anchors, cut)]
    IN  Answer([gone EXCEPT !.recent = MarkLost(w.recent, from)],
               IF all \/ (Anchored /\ ~HasReference(gone)) THEN "KeyFrame" ELSE "Forget",
               from)
LeaveRecentOnly(w, from, all) ==
    LET cut == IF all THEN 0 ELSE from
        gone == [w EXCEPT !.frames = MarkLost(w.frames, cut),
                          !.anchors = MarkAnchors(w.anchors, cut)]
        key == all \/ (Anchored /\ \A f \in gone.frames : f.lost)
    IN  Answer([gone EXCEPT !.recent =
                    MarkLost(w.recent, IF key THEN w.keyPts ELSE from)],
               IF key THEN "KeyFrame" ELSE "Forget", from)

\* Every frame encoded from `from` on goes, or where `all` everything held.
\* `recent`, which invalidate marks after, goes from the cut or the key frame.
Leave(w, from, all) ==
    LET cut == IF all THEN 0 ELSE from
        gone == [w EXCEPT !.frames = MarkLost(w.frames, cut),
                          !.anchors = MarkAnchors(w.anchors, cut)]
        key == all \/ (Anchored /\ ~HasReference(gone))
    IN  Answer([gone EXCEPT !.recent =
                    MarkLost(w.recent, IF key THEN w.keyPts ELSE from)],
               IF key THEN "KeyFrame" ELSE "Forget", from)

\* invalidate_recent: a session with only recent references.
InvalidateRecent(w, id) ==
    LET named == Named(w.frames, id)
        from == Last(named).pts
        wraps == /\ FrameNumRange > 0
                 /\ \E f \in w.frames :
                        /\ f.pts >= from
                        /\ Multiple(SinceKey(w, f.pts), FrameNumRange)
    IN  IF w.frames = {} THEN Ignored(w)
        ELSE IF named # {} THEN Leave(w, from, wraps)
        ELSE IF Dated(w, id) /\ Behind(w, id) > Behind(w, First(w.frames).id)
        THEN Leave(w, w.keyPts, TRUE)
        ELSE Ignored(w)

\* The first frame at or after `from` to carry frame_num 0 was encoded.
WrapCovered(w, from) ==
    /\ FrameNumRange > 0
    /\ LET after == SinceKey(w, from)
           wrap == ((after + FrameNumRange - 1) \div FrameNumRange) * FrameNumRange
       IN  wrap <= SinceKey(w, IF w.nextPts = 0 THEN 0 ELSE w.nextPts - 1)

\* Mutant of InvalidateAnchored: a frame no longer remembered is ignored.
InvalidateAnchoredKnown(w, id) ==
    LET named == Named(w.recent, id)
        from == Last(named).pts
    IN  IF named = {} THEN Ignored(w)
        ELSE IF from < w.keyPts THEN Ignored(w)
        ELSE Leave(w, from, WrapCovered(w, from))

\* invalidate_anchored: the loss is dated by the frames remembered; one older
\* than all of them was predicted through by everything held.
InvalidateAnchored(w, id) ==
    LET named == Named(w.recent, id)
        forgotten == /\ w.recent # {}
                     /\ Dated(w, id)
                     /\ Behind(w, id) > Behind(w, First(w.recent).id)
        from == IF named = {} THEN w.keyPts ELSE Last(named).pts
    IN  IF named = {} /\ ~forgotten THEN Ignored(w)
        ELSE IF from < w.keyPts THEN Ignored(w)
        ELSE Leave(w, from, WrapCovered(w, from))

\* Mutant of Invalidate: a frame already left out is left out again.
InvalidateTwice(w, id) ==
    IF Anchored THEN InvalidateAnchored(w, id) ELSE InvalidateRecent(w, id)

\* invalidate: a frame an earlier invalidation left out changes nothing.
Invalidate(w, id) ==
    LET named == Named(w.recent, id) IN
    IF named # {} /\ Last(named).lost THEN Ignored(w)
    ELSE IF Anchored THEN InvalidateAnchored(w, id)
    ELSE InvalidateRecent(w, id)

\* The frames every consumer was sent, before a frame_num 0 those it holds, and
\* what is still predicted from after one of them.
Usable(w, pts) == IF WrapsNext(w) THEN IsCommon(w, pts) ELSE IsShared(w, pts)
Candidates(w) == {f \in Valid(w) : Usable(w, f.pts)}
After(w, pts) == {f \in w.recent : f.pts > pts /\ ~f.lost}

\* That frame is near enough to go back to.
Near(w, pts) ==
    WrapsNext(w) \/
        /\ w.nextPts - pts <= AnchorPeriod + SettleSlack
        /\ AnchorCount > 1 =>
            pts \in Pts(Newest({f \in w.frames : ~f.lost}, SettleRecent))

\* settle: before an anchor, forget what follows the newest frame every
\* consumer was sent, where that is near enough.
Settle(w) ==
    LET shared == Last(Candidates(w)).pts
        after == After(w, shared)
    IN  IF \/ ~w.acknowledged \/ ~HasReference(w)
           \/ Usable(w, NewestValid(w).pts) \/ Candidates(w) = {}
        THEN Ignored(w)
        ELSE IF ~Near(w, shared) \/ after = {} THEN Ignored(w)
        ELSE Invalidate(w, First(after).id)

\* forget_stale: before an H.264 frame that would predict from a recent frame
\* the decoder may have let go, forget what follows the newest anchor to use.
ForgetStale(w) ==
    LET newest == NewestValid(w)
        fresh == {f \in w.frames : ~f.lost}
        anchors == {a \in AnchorFrames(w) :
                        ~a.lost /\ (w.acknowledged => IsShared(w, a.pts))}
        after == IF anchors = {} THEN fresh ELSE After(w, Last(anchors).pts)
    IN  IF FrameNumRange = 0 \/ ~Anchored \/ ~HasReference(w) THEN Ignored(w)
        ELSE IF newest \notin fresh \/ w.nextPts - newest.pts <= w.capacity
        THEN Ignored(w)
        ELSE IF after = {} THEN Ignored(w)
        ELSE Invalidate(w, First(after).id)

\* Mutant of Trim: one frame more than the buffer holds.
TrimOver(w) == [w EXCEPT !.frames = Newest(w.frames, RecentCapacity(w) + 1)]

Trim(w) == [w EXCEPT !.frames = Newest(w.frames, RecentCapacity(w))]

\* reset, and set_capacity for a buffer of `buffer` frames.
Reset(w) ==
    [w EXCEPT !.frames = {}, !.anchors = [i \in AnchorSlots |-> NoFrame],
              !.recent = {}, !.common = {}, !.sent = {}]
SetCapacity(w, buffer) == Trim([w EXCEPT !.capacity = Beside(buffer)])

\* Mutant of Record: the key's age across a wrap of the ids.
RecordUnwrapped(w, id, key, slot) ==
    LET f == [id |-> id, pts |-> w.nextPts, lost |-> FALSE]
        keyed == IF key
                 THEN [w EXCEPT !.frames = {},
                                !.anchors = [i \in AnchorSlots |-> NoFrame],
                                !.common = {}, !.sent = {},
                                !.keyPts = w.nextPts, !.sinceKey = 0]
                 ELSE [w EXCEPT !.sinceKey = @ + id - w.newest]
        dated == [keyed EXCEPT !.newest = id, !.nextPts = @ + 1]
        put == IF slot \in AnchorSlots
               THEN [dated EXCEPT !.anchors[slot] = f]
               ELSE [dated EXCEPT !.frames = @ \cup {f}]
    IN  [Trim(put) EXCEPT !.recent = Newest(w.recent \cup {f}, RecentFrames)]

\* record_marked: the frame just encoded with next_pts, marked into `slot`.
\* It predicted from NewestValid(w) where it is no key frame.
Record(w, id, key, slot) ==
    LET f == [id |-> id, pts |-> w.nextPts, lost |-> FALSE]
        keyed == IF key
                 THEN [w EXCEPT !.frames = {},
                                !.anchors = [i \in AnchorSlots |-> NoFrame],
                                !.common = {}, !.sent = {},
                                !.keyPts = w.nextPts, !.sinceKey = 0]
                 ELSE [w EXCEPT !.sinceKey = @ + WrappingSub(id, w.newest)]
        dated == [keyed EXCEPT !.newest = id, !.nextPts = @ + 1]
        put == IF slot \in AnchorSlots
               THEN [dated EXCEPT !.anchors[slot] = f]
               ELSE [dated EXCEPT !.frames = @ \cup {f}]
    IN  [Trim(put) EXCEPT !.recent = Newest(w.recent \cup {f}, RecentFrames)]

\* Mutant of Retract: the frame stays remembered as one to predict from.
RetractHeld(w) ==
    [w EXCEPT !.frames = MarkLost(w.frames, w.nextPts - 1),
              !.anchors = MarkAnchors(w.anchors, w.nextPts - 1)]

\* retract: whether the frame just recorded can be taken back (the encoder may
\* yet refuse to forget it), and the window without it.
CanRetract(w) ==
    /\ w.nextPts > 0
    /\ \E f \in Valid(w) : f.pts < w.nextPts - 1
    /\ ~(FrameNumRange > 0 /\ Multiple(SinceKey(w, w.nextPts - 1), FrameNumRange))
Retract(w) ==
    [w EXCEPT !.frames = MarkLost(w.frames, w.nextPts - 1),
              !.anchors = MarkAnchors(w.anchors, w.nextPts - 1),
              !.recent = MarkLost(w.recent, w.nextPts - 1)]
=============================================================================
