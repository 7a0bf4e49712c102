---------------------------- MODULE ReferenceSlots ----------------------------
(***************************************************************************)
(* The buffers a VP8 or VP9 session predicts from: struct ReferenceSlots   *)
(* of pixelflux/src/encoders/reference.rs, under the session of            *)
(* encoders/vpx.rs and the reports of its consumers.                       *)
(*                                                                         *)
(* VP8 has LAST, GOLDEN and ALTREF (slots 0 to 2); VP9 has Ring recent     *)
(* slots and Ring anchors behind them.  A slot holds a frame as the code's *)
(* triple of id, pts and whether it was reported lost.                     *)
(***************************************************************************)
EXTENDS Integers, FiniteSets, FiniteSetsExt

CONSTANTS
    IdMod,           \* how many values a frame id takes (2^16: u16)
    IsVp9,           \* ReferenceSlots::vp9, else ReferenceSlots::new
    Ring,            \* RING
    Period,          \* ANCHOR_PERIOD
    PendingPeriods,  \* PENDING_PERIODS
    RecentFrames,    \* RECENT_FRAMES
    NoFrame,         \* a slot holding nothing
    FirstCount,      \* the capture's frame counter when the session opens
    MaxFrames,       \* bounds for model checking only: frames coded, and
    MaxEvents        \*   everything that is not the plain coding of a frame

Slots == IF IsVp9 THEN 0 .. 2 * Ring - 1 ELSE 0 .. 2
AnchorSlots == IF IsVp9 THEN Ring .. 2 * Ring - 1 ELSE 1 .. 2
SlotAnchorEvery == IF IsVp9 THEN Ring ELSE Period \div 2
Ids == 0 .. IdMod - 1
SlotFrame == [id : Ids, pts : Nat, lost : BOOLEAN]

SlotsAssumption ==
    /\ IdMod \in Nat /\ IdMod >= 2
    /\ IsVp9 \in BOOLEAN
    /\ Ring \in Nat \ {0} /\ Period \in Nat /\ Period >= 2
    /\ PendingPeriods \in Nat /\ RecentFrames \in Nat \ {0}
    /\ FirstCount \in Nat
    /\ NoFrame \notin SlotFrame

VARIABLES
    s,         \* the session's ReferenceSlots
    count,     \* the capture's frame counter, not wrapped
    forceIdr,  \* a key frame is asked for
    coded,     \* history: each coded frame by pts (Coded)
    lost,      \* history: pts of the sent frames reported lost
    events     \* how many events there were, for MaxEvents

vars == <<s, count, forceIdr, coded, lost, events>>

State ==
    [ slots        : [Slots -> SlotFrame \cup {NoFrame}],
      recent       : SUBSET [id : Ids, pts : Nat],
      nextPts      : Nat,
      newest       : Ids,             \* KeyAge::newest
      sinceKey     : Nat,             \* KeyAge::since_key
      keyPts       : Nat,
      acknowledged : BOOLEAN,
      common       : SUBSET Nat,      \* pts of frames every consumer holds
      sent         : SUBSET Nat ]     \* and of those every consumer was sent

\* A coded frame: its capture count, the frames it depends on, itself included,
\* and whether it was sent.
Coded == [count : Nat, chain : SUBSET Nat, sent : BOOLEAN]

TypeOK ==
    /\ s \in State
    /\ count \in Nat /\ events \in Nat /\ forceIdr \in BOOLEAN
    /\ coded \in [0 .. s.nextPts - 1 -> Coded]
    /\ lost \subseteq 0 .. s.nextPts - 1

Init ==
    /\ s = [ slots |-> [i \in Slots |-> NoFrame], recent |-> {}, nextPts |-> 0,
             newest |-> 0, sinceKey |-> 0, keyPts |-> 0,
             acknowledged |-> FALSE, common |-> {}, sent |-> {} ]
    /\ count = FirstCount
    /\ forceIdr = FALSE
    /\ coded = [p \in {} |-> 0]
    /\ lost = {}
    /\ events = 0

Id(c) == c % IdMod
Valid(i) == s.slots[i] # NoFrame /\ ~s.slots[i].lost
HasReference == \E i \in Slots : Valid(i)
NewestPts(S, n) == {p \in S : Cardinality({q \in S : q > p}) < n}

\* is_common and is_shared.
IsCommon(p) == p = s.keyPts \/ p \in s.common
IsShared(p) == IsCommon(p) \/ p \in s.sent

-----------------------------------------------------------------------------
(* The plan of the next frame.                                             *)

\* The anchor that holds the newest frame every consumer holds, if any.
CommonSlots == {i \in AnchorSlots : Valid(i) /\ IsCommon(s.slots[i].pts)}
Pinned ==
    {i \in CommonSlots : \A j \in CommonSlots : s.slots[j].pts <= s.slots[i].pts}

\* An anchor every consumer was sent and is yet to hold.
Pending(i) ==
    /\ Valid(i)
    /\ IsShared(s.slots[i].pts) /\ ~IsCommon(s.slots[i].pts)
    /\ s.nextPts - s.slots[i].pts < PendingPeriods * SlotAnchorEvery

\* An empty or lost anchor goes before the older one.
RefreshedBefore(i, j) ==
    LET valid(k) == IF Valid(k) THEN 1 ELSE 0
        pts(k) == IF s.slots[k] = NoFrame THEN 0 ELSE s.slots[k].pts
    IN  \/ valid(i) < valid(j)
        \/ valid(i) = valid(j) /\ pts(i) <= pts(j)

\* Mutant of AnchorTarget: the oldest anchor goes, pinned or not.
AnchorTargetOldest ==
    LET open == {i \in AnchorSlots : ~Pending(i)}
        first == {i \in open : \A j \in open : RefreshedBefore(i, j)}
    IN  IF open = {} THEN {} ELSE {Min(first)}

\* anchor_target, as the set of the slot refreshed.  Two slots may hold the
\* same newest frame; max_by_key pins the last of them.
AnchorTarget ==
    LET open == {i \in AnchorSlots : ~Pending(i) /\ (Pinned = {} \/ i # Max(Pinned))}
        first == {i \in open : \A j \in open : RefreshedBefore(i, j)}
    IN  IF open = {} THEN {} ELSE {Min(first)}

\* The slot predicted from: the newest the client has, the first where others
\* are as new.
Source ==
    Min({i \in Slots : Valid(i) /\ \A j \in Slots :
            Valid(j) => s.slots[j].pts <= s.slots[i].pts})

SinceKey == s.nextPts - s.keyPts
Scheduled == SinceKey % SlotAnchorEvery = 0

\* Where the consumers acknowledge: the recent slot, and an anchor on the
\* schedule or when one is predicted from.
AcknowledgedRefresh ==
    {IF IsVp9 THEN SinceKey % Ring ELSE 0}
        \cup IF Scheduled \/ Source \in AnchorSlots THEN AnchorTarget ELSE {}

\* Where they do not: VP9's by turns; VP8's GOLDEN and ALTREF by turns, and all
\* three when one of them is predicted from.
PlainRefresh ==
    IF IsVp9
    THEN {SinceKey % Ring}
            \cup IF Scheduled THEN {Ring + ((SinceKey \div Ring) % Ring)} ELSE {}
    ELSE IF Source # 0 THEN Slots
    ELSE {0} \cup (IF SinceKey % Period = 0 THEN {1} ELSE {})
             \cup (IF SinceKey % Period = Period \div 2 THEN {2} ELSE {})

\* plan, for a frame that is no key frame.
Refresh == IF s.acknowledged THEN AcknowledgedRefresh ELSE PlainRefresh

-----------------------------------------------------------------------------
(* Encoding.                                                               *)

Event == events < MaxEvents /\ events' = events + 1
Key == forceIdr \/ ~HasReference

\* record, in a session t: the frame goes into the slots its plan refreshes, all
\* for a key frame.  Every pts is remembered once, so the queue's limit is an age.
Recorded(t, key) ==
    LET f == [id |-> Id(count), pts |-> t.nextPts]
        held == [id |-> f.id, pts |-> f.pts, lost |-> FALSE]
    IN  [t EXCEPT
            !.slots = [i \in Slots |->
                IF key \/ i \in Refresh THEN held ELSE t.slots[i]],
            !.recent = {r \in t.recent \cup {f} : r.pts > t.nextPts - RecentFrames},
            !.nextPts = t.nextPts + 1, !.newest = f.id,
            !.sinceKey = IF key THEN 0 ELSE @ + ((f.id - t.newest) % IdMod),
            !.keyPts = IF key THEN t.nextPts ELSE @,
            !.common = IF key THEN {} ELSE @, !.sent = IF key THEN {} ELSE @]

Chain(key) == {s.nextPts} \cup IF key THEN {} ELSE coded[s.slots[Source].pts].chain

\* encode_frame: one coding of the capture's next frame.
Coding(key, sent) ==
    /\ s.nextPts < MaxFrames
    /\ s' = Recorded(s, key)
    /\ coded' = [p \in 0 .. s.nextPts |->
                    IF p = s.nextPts
                    THEN [count |-> count, chain |-> Chain(key), sent |-> sent]
                    ELSE coded[p]]
    /\ count' = count + 1
    /\ UNCHANGED lost

\* A key frame where it is asked for, where no reference is left, or where the
\* library codes one of its own accord (`own`).
Encode(own) == Coding(own \/ Key, TRUE) /\ forceIdr' = FALSE

EncodeFrame == Encode(FALSE) /\ UNCHANGED events
EncodeOwnKey == ~Key /\ Event /\ Encode(TRUE)

\* A key frame over its budget, asked for by a request or by the cleanup itself,
\* is coded again as the next frame, under the same id, and the second coding
\* alone is sent (encode_host).
EncodeKeyAgain ==
    /\ Event
    /\ s.nextPts + 1 < MaxFrames
    /\ s' = Recorded(Recorded(s, TRUE), TRUE)
    /\ coded' = [p \in 0 .. s.nextPts + 1 |->
                    IF p \in DOMAIN coded THEN coded[p]
                    ELSE [count |-> count, chain |-> {p}, sent |-> p > s.nextPts]]
    /\ count' = count + 1
    /\ forceIdr' = FALSE
    /\ UNCHANGED lost

\* The second coding fails: the first is held and was sent to no one, and a key
\* frame asked for is asked for again.
EncodeKeyAgainFails == Event /\ Coding(TRUE, FALSE) /\ UNCHANGED forceIdr

\* The frame is refused or has nothing to send: the plan is not recorded and a
\* key frame asked for is asked for again.
SkipFrame ==
    /\ Event
    /\ count' = count + 1
    /\ UNCHANGED <<s, forceIdr, coded, lost>>

-----------------------------------------------------------------------------
(* Reports and requests.                                                   *)

\* A report is of a frame that was sent, and reaches the session before half the
\* ids have gone by.
Reportable == {p \in DOMAIN coded :
                    coded[p].sent /\ count - coded[p].count < IdMod \div 2}

Behind(id) == (s.newest - id) % IdMod
Dated(id) == Behind(id) < IdMod \div 2 /\ Behind(id) <= s.sinceKey
Named(id) == {r \in s.recent : r.id = id}
First(S) == CHOOSE r \in S : \A q \in S : r.pts <= q.pts
Last(S) == CHOOSE r \in S : \A q \in S : q.pts <= r.pts

\* Mutant of Cut: a frame no longer remembered is ignored.
CutKnown(id) ==
    IF Named(id) # {}
    THEN IF First(Named(id)).pts >= s.keyPts THEN {First(Named(id)).pts} ELSE {}
    ELSE {}

\* The pts invalidate marks from, none where the report is ignored: a frame
\* older than every one remembered was predicted through by all that is held.
Cut(id) ==
    IF Named(id) # {}
    THEN IF First(Named(id)).pts >= s.keyPts THEN {First(Named(id)).pts} ELSE {}
    ELSE IF /\ s.recent # {} /\ Dated(id)
            /\ Behind(id) > Behind(First(s.recent).id)
    THEN {0} ELSE {}

\* invalidate: every slot that holds a frame coded at or after the cut is left
\* out, one coded past an earlier report of the same loss included.
MarkFrom(cut) ==
    [i \in Slots |->
        IF s.slots[i] = NoFrame THEN NoFrame
        ELSE [s.slots[i] EXCEPT !.lost = @ \/ s.slots[i].pts >= cut]]

Invalidated(id) ==
    IF Cut(id) = {} THEN s
    ELSE [s EXCEPT !.slots = MarkFrom(CHOOSE cut \in Cut(id) : TRUE)]

ReportLost ==
    /\ Event
    /\ \E p \in Reportable :
        /\ s' = Invalidated(Id(coded[p].count))
        /\ lost' = lost \cup {p}
    /\ UNCHANGED <<count, forceIdr, coded>>

\* acknowledge.
Acknowledged(id, held) ==
    LET named == Named(id)
        p == Last(named).pts
    IN  IF named = {} THEN [s EXCEPT !.acknowledged = TRUE]
        ELSE IF p < s.keyPts THEN [s EXCEPT !.acknowledged = TRUE]
        ELSE IF held
        THEN [s EXCEPT !.acknowledged = TRUE,
                       !.common = NewestPts(@ \cup {p}, RecentFrames)]
        ELSE [s EXCEPT !.acknowledged = TRUE,
                       !.sent = NewestPts(@ \cup {p}, RecentFrames)]

ReportHeld ==
    /\ Event
    /\ \E p \in Reportable, held \in BOOLEAN : s' = Acknowledged(Id(coded[p].count), held)
    /\ UNCHANGED <<count, forceIdr, coded, lost>>

RequestIdr ==
    /\ Event
    /\ ~Key
    /\ forceIdr' = TRUE
    /\ UNCHANGED <<s, count, coded, lost>>

-----------------------------------------------------------------------------
Next ==
    \/ EncodeFrame \/ EncodeOwnKey \/ EncodeKeyAgain \/ EncodeKeyAgainFails
    \/ SkipFrame
    \/ ReportLost \/ ReportHeld \/ RequestIdr

Spec == Init /\ [][Next]_vars

-----------------------------------------------------------------------------
(* Properties.                                                             *)

\* The second coding of a key frame.
CodedTwice(p) == p > 0 /\ coded[p - 1].count = coded[p].count

\* No buffer left in the predictions holds a frame that depends, however
\* indirectly, on one a consumer reported lost: the next frame decodes there.
\* A key frame coded twice is excepted: invalidate finds its first coding, which
\* is older than the key frame, and ignores the report.
NoPredictionThroughLoss ==
    \A i \in Slots : Valid(i) =>
        \A p \in coded[s.slots[i].pts].chain \cap lost : CodedTwice(p)

\* The newest frame every consumer holds stays in an anchor until a newer one
\* they hold is in another, a key frame, a loss that reaches back to it, or as
\* many newer frames held as are noted, none of them an anchor: the schedule
\* never takes it from a consumer that lags (anchor_target).
PinnedStep ==
    (s.acknowledged /\ Pinned # {}) =>
        LET pts == s.slots[Max(Pinned)].pts IN
        \/ Pinned' # {} /\ \E i \in Slots : i \in Pinned' /\ s'.slots[i].pts >= pts
        \/ s'.keyPts > s.keyPts
        \/ \E p \in lost' : p <= pts \/ \A r \in s.recent : r.pts # p
        \/ Cardinality({q \in s'.common : q > pts}) >= RecentFrames

\* A frame already left out, reported again, changes nothing ("The frame ...
\* was already removed", Invalidation::Ignored): a frame coded past the loss
\* stays in the predictions.
RepeatedIsIgnored ==
    \A p \in lost :
        (p \in Reportable /\ \E i \in Slots : Valid(i) /\ s.slots[i].pts > p)
            => Invalidated(Id(coded[p].count)) = s

=============================================================================
