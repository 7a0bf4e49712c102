----------------------- MODULE ReferenceSessionProofs -----------------------
(***************************************************************************)
(* That no frame a session may predict from depends on a frame reported    *)
(* lost, for every size of the buffer, every number of anchors, every      *)
(* period and every schedule of reports: theorem LossesArePredictedPast.   *)
(* That the device is told the anchor it predicts from, and that a decoder *)
(* still has the frame: NamesWhatItPredictsFrom, DecoderKeepsReference.    *)
(***************************************************************************)
EXTENDS ReferenceSession, FiniteSetTheorems, TLAPS

-----------------------------------------------------------------------------
(* What the operators of ReferenceWindow keep true of a window.            *)

\* A set of naturals has a least member.
LEMMA LeastNatural ==
  ASSUME NEW T \in SUBSET Nat, T # {}
  PROVE  \E m \in T : \A n \in T : m <= n
<1> DEFINE R == OpToRel(<, Nat)
<1>1. PICK m \in T : \A n \in T : ~(<<n, m>> \in R)
  BY NatLessThanWellFounded, WFMin, Zenon
<1>2. \A n \in T : ~(n < m)
  BY <1>1 DEF OpToRel
<1>3. QED
  BY <1>2

\* A set of frames has a first one and, bounded, a last one.
LEMMA FirstIsFirst ==
  ASSUME NEW S \in SUBSET Frame, S # {}
  PROVE  First(S) \in S /\ \A g \in S : First(S).pts <= g.pts
<1>1. PICK m \in Pts(S) : \A n \in Pts(S) : m <= n
  BY LeastNatural, Pts(S) \in SUBSET Nat, Pts(S) # {} DEF Pts, Frame
<1>2. \E f \in S : \A g \in S : f.pts <= g.pts
  BY <1>1 DEF Pts
<1>3. QED
  BY <1>2 DEF First

LEMMA LastIsLast ==
  ASSUME NEW S \in SUBSET Frame, S # {}, NEW n \in Nat, \A f \in S : f.pts < n
  PROVE  Last(S) \in S /\ \A g \in S : g.pts <= Last(S).pts
<1> DEFINE T == {n - f.pts : f \in S}
<1>1. T \in SUBSET Nat /\ T # {}
  BY DEF Frame
<1>2. PICK m \in T : \A k \in T : m <= k
  BY <1>1, LeastNatural
<1>3. PICK f \in S : m = n - f.pts
  OBVIOUS
<1>4. \A g \in S : g.pts <= f.pts
  <2> TAKE g \in S
  <2>1. n - g.pts \in T
    OBVIOUS
  <2>2. n - f.pts <= n - g.pts
    BY <1>2, <1>3, <2>1
  <2>3. QED
    BY <2>2 DEF Frame
<1>5. QED
  BY <1>4 DEF Last

-----------------------------------------------------------------------------
(* Leaving frames out.                                                     *)

LEMMA LostFromFrame ==
  ASSUME NEW f \in Frame, NEW cut \in Nat
  PROVE  /\ LostFrom(f, cut) \in Frame
         /\ LostFrom(f, cut).id = f.id
         /\ LostFrom(f, cut).pts = f.pts
         /\ LostFrom(f, cut).lost <=> f.lost \/ f.pts >= cut
         /\ ~LostFrom(f, cut).lost => LostFrom(f, cut) = f
         /\ f.lost => LostFrom(f, cut) = f
BY DEF LostFrom, Frame

LEMMA MarkLostFrames ==
  ASSUME NEW S \in SUBSET Frame, NEW cut \in Nat
  PROVE  /\ MarkLost(S, cut) \in SUBSET Frame
         /\ IsFiniteSet(S) => IsFiniteSet(MarkLost(S, cut))
<1>1. MarkLost(S, cut) \in SUBSET Frame
  BY LostFromFrame DEF MarkLost
<1>2. ASSUME IsFiniteSet(S) PROVE IsFiniteSet(MarkLost(S, cut))
  <2> DEFINE m == [f \in S |-> LostFrom(f, cut)]
  <2>1. m \in Surjection(S, MarkLost(S, cut))
    BY DEF Surjection, MarkLost
  <2>2. QED
    BY <1>2, <2>1, FS_Surjection
<1>3. QED
  BY <1>1, <1>2

\* The window `v` is `win` with every frame from `cut` on left out, and those
\* remembered from `rcut` on: the same frames, unless nothing held is left.
Left(v, win, cut, rcut) ==
    /\ v = [win EXCEPT !.frames = MarkLost(win.frames, cut),
                       !.anchors = MarkAnchors(win.anchors, cut),
                       !.recent = MarkLost(win.recent, rcut)]
    /\ cut = rcut \/ (rcut = win.keyPts /\ Valid(v) = {})

LEMMA MarkAnchorsType ==
  ASSUME NEW anchors \in [AnchorSlots -> Frame \cup {NoFrame}], NEW cut \in Nat
  PROVE  MarkAnchors(anchors, cut) \in [AnchorSlots -> Frame \cup {NoFrame}]
BY LostFromFrame DEF MarkAnchors

LEMMA LeftFields ==
  ASSUME NEW win \in Window, NEW cut \in Nat, NEW rcut \in Nat, NEW v,
         Left(v, win, cut, rcut)
  PROVE  /\ v \in Window
         /\ v.frames = MarkLost(win.frames, cut)
         /\ v.anchors = MarkAnchors(win.anchors, cut)
         /\ v.recent = MarkLost(win.recent, rcut)
         /\ v.nextPts = win.nextPts /\ v.keyPts = win.keyPts
         /\ v.newest = win.newest /\ v.sinceKey = win.sinceKey
         /\ v.capacity = win.capacity /\ v.acknowledged = win.acknowledged
         /\ v.common = win.common /\ v.sent = win.sent
<1>1. /\ MarkLost(win.frames, cut) \in SUBSET Frame
      /\ MarkLost(win.recent, rcut) \in SUBSET Frame
      /\ MarkAnchors(win.anchors, cut) \in [AnchorSlots -> Frame \cup {NoFrame}]
  BY MarkLostFrames, MarkAnchorsType DEF Window
<1>2. QED
  BY <1>1 DEF Left, Window

LEMMA LeftAnchors ==
  ASSUME WindowAssumption,
         NEW win \in Window, NEW v \in Window, NEW cut \in Nat,
         v.anchors = MarkAnchors(win.anchors, cut)
  PROVE  AnchorFrames(v) = MarkLost(AnchorFrames(win), cut)
<1>1. \A i \in AnchorSlots :
          /\ win.anchors[i] \in Frame \cup {NoFrame}
          /\ v.anchors[i] = IF win.anchors[i] = NoFrame THEN NoFrame
                            ELSE LostFrom(win.anchors[i], cut)
  BY DEF MarkAnchors, Window
<1>2. \A i \in AnchorSlots :
          win.anchors[i] # NoFrame => v.anchors[i] # NoFrame
  BY <1>1, LostFromFrame DEF WindowAssumption
<1>3. DOMAIN v.anchors = AnchorSlots /\ DOMAIN win.anchors = AnchorSlots
  BY DEF Window
<1>4. ASSUME NEW x \in AnchorFrames(v)
      PROVE  x \in MarkLost(AnchorFrames(win), cut)
  <2>1. PICK i \in AnchorSlots : x = v.anchors[i] /\ x # NoFrame
    BY <1>3 DEF AnchorFrames
  <2>2. win.anchors[i] # NoFrame /\ x = LostFrom(win.anchors[i], cut)
    BY <1>1, <2>1
  <2>3. win.anchors[i] \in AnchorFrames(win)
    BY <1>3, <2>2 DEF AnchorFrames
  <2>4. QED
    BY <2>2, <2>3 DEF MarkLost
<1>5. ASSUME NEW x \in MarkLost(AnchorFrames(win), cut)
      PROVE  x \in AnchorFrames(v)
  <2>1. PICK f \in AnchorFrames(win) : x = LostFrom(f, cut)
    BY DEF MarkLost
  <2>2. PICK i \in AnchorSlots : f = win.anchors[i] /\ f # NoFrame
    BY <1>3 DEF AnchorFrames
  <2>3. x = v.anchors[i] /\ x # NoFrame
    BY <1>1, <1>2, <2>1, <2>2
  <2>4. QED
    BY <1>3, <2>3 DEF AnchorFrames
<1>6. QED
  BY <1>4, <1>5

LEMMA LeftHeld ==
  ASSUME WindowAssumption,
         NEW win \in Window, NEW v \in Window, NEW cut \in Nat,
         v.frames = MarkLost(win.frames, cut),
         v.anchors = MarkAnchors(win.anchors, cut)
  PROVE  /\ Held(v) = MarkLost(Held(win), cut)
         /\ Valid(v) = {f \in Valid(win) : f.pts < cut}
<1>1. AnchorFrames(v) = MarkLost(AnchorFrames(win), cut)
  BY LeftAnchors
<1>2. Held(v) = MarkLost(Held(win), cut)
  BY <1>1 DEF Held, MarkLost
<1>3. Held(win) \in SUBSET Frame
  BY DEF Held, AnchorFrames, Window
<1>4. Valid(v) = {f \in Valid(win) : f.pts < cut}
  BY <1>2, <1>3, LostFromFrame DEF Valid, MarkLost, Frame
<1>5. QED
  BY <1>2, <1>4

LEMMA LeaveLeft ==
  ASSUME WindowAssumption,
         NEW win \in Window, NEW from \in Nat, NEW all \in BOOLEAN
  PROVE  \E cut, rcut \in Nat : Left(Leave(win, from, all).w, win, cut, rcut)
<1> DEFINE cut == IF all THEN 0 ELSE from
           gone == [win EXCEPT !.frames = MarkLost(win.frames, cut),
                               !.anchors = MarkAnchors(win.anchors, cut)]
           key == all \/ (Anchored /\ ~HasReference(gone))
           rcut == IF key THEN win.keyPts ELSE from
           v == Leave(win, from, all).w
<1>1. cut \in Nat /\ rcut \in Nat
  BY DEF Window
<1>2. v = [gone EXCEPT !.recent = MarkLost(win.recent, rcut)]
  BY DEF Leave, Answer
<1>3. v = [win EXCEPT !.frames = MarkLost(win.frames, cut),
                      !.anchors = MarkAnchors(win.anchors, cut),
                      !.recent = MarkLost(win.recent, rcut)]
  BY <1>2 DEF Window
<1> HIDE DEF v
<1>4. v.frames = gone.frames /\ v.anchors = gone.anchors
  BY <1>3 DEF Window
<1>5. Valid(v) = Valid(gone)
  BY <1>4 DEF Valid, Held, AnchorFrames
<1>6. ASSUME key PROVE Valid(v) = {}
  <2>1. CASE all
    <3>1. v \in Window
      BY <1>1, <1>3, MarkLostFrames, MarkAnchorsType DEF Window
    <3>2. v.frames = MarkLost(win.frames, 0) /\ v.anchors = MarkAnchors(win.anchors, 0)
      BY <2>1, <1>4 DEF Window
    <3>3. Valid(v) = {f \in Valid(win) : f.pts < 0}
      BY <3>1, <3>2, LeftHeld
    <3>4. Valid(win) \in SUBSET Frame
      BY DEF Valid, Held, AnchorFrames, Window
    <3>5. QED
      BY <3>3, <3>4 DEF Frame
  <2>2. CASE Anchored /\ ~HasReference(gone)
    BY <2>2, <1>5 DEF HasReference
  <2>3. QED
    BY <1>6, <2>1, <2>2
<1>7. Left(v, win, cut, rcut)
  BY <1>3, <1>6 DEF Left
<1>8. QED
  BY <1>1, <1>7 DEF v

LEMMA InvalidateLeft ==
  ASSUME WindowAssumption,
         NEW win \in Window, NEW id,
         \A f \in Held(win) \cup win.recent : f.pts < win.nextPts
  PROVE  \/ Invalidate(win, id).w = win
         \/ \E cut, rcut \in Nat : Left(Invalidate(win, id).w, win, cut, rcut)
<1> DEFINE v == Invalidate(win, id).w
<1>1. Ignored(win).w = win
  BY DEF Ignored, Answer
<1>2. /\ win.frames \in SUBSET Frame /\ win.recent \in SUBSET Frame
      /\ win.nextPts \in Nat /\ win.keyPts \in Nat
  BY DEF Window
<1>3. ASSUME NEW S \in (SUBSET win.frames) \cup (SUBSET win.recent), S # {}
      PROVE  Last(S).pts \in Nat
  <2>1. S \in SUBSET Frame /\ \A f \in S : f.pts < win.nextPts
    BY <1>2 DEF Held
  <2>2. Last(S) \in S
    BY <1>2, <1>3, <2>1, LastIsLast
  <2>3. QED
    BY <2>1, <2>2 DEF Frame
<1>4. CASE Anchored
  <2> DEFINE named == Named(win.recent, id)
             from == IF named = {} THEN win.keyPts ELSE Last(named).pts
             all == WrapCovered(win, from)
  <2>1. from \in Nat
    BY <1>2, <1>3 DEF Named
  <2>2. all \in BOOLEAN
    BY DEF WrapCovered
  <2>3. \E cut, rcut \in Nat : Left(Leave(win, from, all).w, win, cut, rcut)
    BY <2>1, <2>2, LeaveLeft
  <2>4. v \in {win, Leave(win, from, all).w}
    BY <1>1, <1>4 DEF Invalidate, InvalidateAnchored
  <2>5. QED
    BY <2>3, <2>4
<1>5. CASE ~Anchored
  <2> DEFINE named == Named(win.frames, id)
             from == Last(named).pts
             wraps == /\ FrameNumRange > 0
                      /\ \E f \in win.frames :
                            /\ f.pts >= from
                            /\ Multiple(SinceKey(win, f.pts), FrameNumRange)
  <2>1. \/ v = win
        \/ named # {} /\ v = Leave(win, from, wraps).w
        \/ v = Leave(win, win.keyPts, TRUE).w
    BY <1>1, <1>5 DEF Invalidate, InvalidateRecent
  <2>2. named # {} => from \in Nat
    BY <1>3 DEF Named
  <2>3. wraps \in BOOLEAN
    OBVIOUS
  <2> HIDE DEF named, from, wraps
  <2>4. QED
    BY <1>2, <2>1, <2>2, <2>3, LeaveLeft
<1>6. QED
  BY <1>4, <1>5

LEMMA SettleLeft ==
  ASSUME WindowAssumption,
         NEW win \in Window,
         \A f \in Held(win) \cup win.recent : f.pts < win.nextPts
  PROVE  /\ \/ Settle(win).w = win
            \/ \E cut, rcut \in Nat : Left(Settle(win).w, win, cut, rcut)
         /\ \/ ForgetStale(win).w = win
            \/ \E cut, rcut \in Nat : Left(ForgetStale(win).w, win, cut, rcut)
<1>1. Ignored(win).w = win
  BY DEF Ignored, Answer
<1>2. \E id : Settle(win).w \in {win, Invalidate(win, id).w}
  BY <1>1 DEF Settle
<1>3. \E id : ForgetStale(win).w \in {win, Invalidate(win, id).w}
  BY <1>1 DEF ForgetStale
<1>4. QED
  BY <1>2, <1>3, InvalidateLeft

LEMMA RetractLeft ==
  ASSUME NEW win \in Window, win.nextPts > 0
  PROVE  \E cut, rcut \in Nat : Left(Retract(win), win, cut, rcut)
<1>1. win.nextPts - 1 \in Nat
  BY DEF Window
<1>2. Left(Retract(win), win, win.nextPts - 1, win.nextPts - 1)
  BY DEF Left, Retract
<1>3. QED
  BY <1>1, <1>2

-----------------------------------------------------------------------------
(* Keeping a queue short.                                                  *)

LEMMA NewestOfSet ==
  ASSUME NEW S \in SUBSET Frame, IsFiniteSet(S), NEW n \in Int
  PROVE  /\ Newest(S, n) \in SUBSET S
         /\ IsFiniteSet(Newest(S, n))
         /\ \A f \in Newest(S, n), g \in S : g.pts >= f.pts => g \in Newest(S, n)
<1>1. Newest(S, n) \in SUBSET S
  BY DEF Newest
<1>2. ASSUME NEW f \in Newest(S, n), NEW g \in S, g.pts >= f.pts
      PROVE  g \in Newest(S, n)
  <2> DEFINE above(h) == {k \in S : k.pts > h.pts}
  <2>1. above(f) \in SUBSET S /\ above(g) \in SUBSET above(f)
    BY <1>1, <1>2 DEF Frame
  <2>2. IsFiniteSet(above(f))
    BY <2>1, FS_Subset
  <2>3. /\ Cardinality(above(f)) \in Nat /\ Cardinality(above(g)) \in Nat
        /\ Cardinality(above(g)) <= Cardinality(above(f))
    BY <2>1, <2>2, FS_Subset, FS_CardinalityType
  <2>4. Cardinality(above(f)) < n
    BY <1>2 DEF Newest
  <2>5. Cardinality(above(g)) < n
    BY <2>3, <2>4
  <2>6. QED
    BY <2>5 DEF Newest
<1>3. QED
  BY <1>1, <1>2, FS_Subset

LEMMA RecentCapacityType ==
  ASSUME WindowAssumption,
         NEW win \in Window
  PROVE  RecentCapacity(win) \in Nat
<1> DEFINE free == {i \in AnchorSlots : win.anchors[i] = NoFrame \/ win.anchors[i].lost}
<1>1. IsFiniteSet(AnchorSlots)
  BY FS_Interval DEF WindowAssumption, AnchorSlots
<1>2. Cardinality(free) \in Nat
  <2>1. free \in SUBSET AnchorSlots
    OBVIOUS
  <2>2. QED
    BY <1>1, <2>1, FS_Subset, FS_CardinalityType
<1> HIDE DEF free
<1>3. win.capacity \in Nat
  BY DEF Window
<1>4. RecentCapacity(win) = win.capacity + IF Lends THEN Cardinality(free) ELSE 0
  BY DEF RecentCapacity, free
<1>5. QED
  BY <1>2, <1>3, <1>4

-----------------------------------------------------------------------------
(* Ids that wrap.                                                          *)

LEMMA ModType ==
  ASSUME WindowAssumption,
         NEW a \in Int
  PROVE  a % IdMod \in Ids
BY DEF WindowAssumption, Ids

LEMMA ModOfSum ==
  ASSUME WindowAssumption,
         NEW q \in Int, NEW r \in Ids
  PROVE  (IdMod * q + r) % IdMod = r
BY DEF WindowAssumption, Ids

LEMMA Quotient ==
  ASSUME WindowAssumption,
         NEW a \in Nat
  PROVE  \E q \in Int : a = IdMod * q + (a % IdMod)
<1>1. a = IdMod * (a \div IdMod) + (a % IdMod) /\ a \div IdMod \in Int
  BY DEF WindowAssumption
<1>2. QED
  BY <1>1, Zenon

\* Two counts nearer than the ids wrap differ as their ids do.
LEMMA WrappingSubOfCounts ==
  ASSUME WindowAssumption,
         NEW a \in Nat, NEW b \in Nat, b <= a, a - b < IdMod
  PROVE  WrappingSub(a % IdMod, b % IdMod) = a - b
<1>1. PICK p \in Int : a = IdMod * p + (a % IdMod)
  BY Quotient
<1>2. PICK q \in Int : b = IdMod * q + (b % IdMod)
  BY Quotient
<1>3. /\ a % IdMod \in Ids /\ b % IdMod \in Ids /\ IdMod \in Nat
      /\ a % IdMod \in Int /\ b % IdMod \in Int
  BY ModType DEF WindowAssumption, Ids
<1> DEFINE r == a % IdMod
           s == b % IdMod
<1>4. r \in Int /\ s \in Int /\ a = IdMod * p + r /\ b = IdMod * q + s
  BY <1>1, <1>2, <1>3, Zenon
<1> HIDE DEF r, s
<1>5. r - s = IdMod * (q - p) + ((IdMod * p + r) - (IdMod * q + s))
  BY <1>3, <1>4
<1>6. r - s = IdMod * (q - p) + (a - b)
  BY <1>4, <1>5
<1>7. q - p \in Int /\ a - b \in Ids
  BY DEF WindowAssumption, Ids
<1>8. (r - s) % IdMod = a - b
  BY <1>6, <1>7, ModOfSum
<1>9. QED
  BY <1>8 DEF r, s, WrappingSub

-----------------------------------------------------------------------------
(* Recording a frame.                                                      *)

NextFrame(win, id) == [id |-> id, pts |-> win.nextPts, lost |-> FALSE]

\* The window `v` is `win` with the frame `id` recorded.
Recorded(v, win, id, key, slot) ==
    LET f == NextFrame(win, id)
        kept == IF key THEN {} ELSE win.frames
    IN  /\ v \in Window /\ f \in Frame
        /\ v.nextPts = win.nextPts + 1 /\ v.newest = id
        /\ v.capacity = win.capacity
        /\ \E S \in SUBSET (kept \cup {f}) : v.frames = Newest(S, RecentCapacity(v))
        /\ v.keyPts = IF key THEN win.nextPts ELSE win.keyPts
        /\ v.sinceKey = IF key THEN 0 ELSE win.sinceKey + WrappingSub(id, win.newest)
        /\ v.recent = Newest(win.recent \cup {f}, RecentFrames) /\ f \in v.recent
        /\ v.frames \in SUBSET (kept \cup {f}) /\ IsFiniteSet(v.frames)
        /\ slot \notin AnchorSlots =>
                \A g \in v.frames, h \in kept \cup {f} : h.pts >= g.pts => h \in v.frames
        /\ \A g \in v.frames, h \in kept : h.pts >= g.pts => h \in v.frames
        /\ AnchorFrames(v) \in
                SUBSET ((IF key THEN {} ELSE AnchorFrames(win)) \cup {f})
        /\ slot \in AnchorSlots => f \in AnchorFrames(v)
        /\ slot \notin AnchorSlots /\ ~key => AnchorFrames(v) = AnchorFrames(win)

LEMMA RecordFields ==
  ASSUME WindowAssumption,
         NEW win \in Window, IsFiniteSet(win.frames),
         \A r \in win.recent : r.pts < win.nextPts,
         NEW id \in Ids, NEW key \in BOOLEAN, NEW slot
  PROVE  Recorded(Record(win, id, key, slot), win, id, key, slot)
<1> DEFINE f == NextFrame(win, id)
           v == Record(win, id, key, slot)
           kept == IF key THEN {} ELSE win.frames
           anchors == IF key THEN [i \in AnchorSlots |-> NoFrame] ELSE win.anchors
           common == IF key THEN {} ELSE win.common
           sent == IF key THEN {} ELSE win.sent
           keyPts == IF key THEN win.nextPts ELSE win.keyPts
           since == IF key THEN 0 ELSE win.sinceKey + WrappingSub(id, win.newest)
           frames == IF slot \in AnchorSlots THEN kept ELSE kept \cup {f}
           slots == IF slot \in AnchorSlots THEN [anchors EXCEPT ![slot] = f] ELSE anchors
           put == [frames |-> frames, capacity |-> win.capacity, anchors |-> slots,
                   recent |-> win.recent, nextPts |-> win.nextPts + 1, newest |-> id,
                   sinceKey |-> since, keyPts |-> keyPts,
                   acknowledged |-> win.acknowledged, common |-> common, sent |-> sent]
           short == Newest(frames, RecentCapacity(put))
           recent == Newest(win.recent \cup {f}, RecentFrames)
<1>1. f \in Frame
  BY DEF NextFrame, Frame, Window
<1>2. since \in Nat
  BY ModType DEF Window, WrappingSub, Ids
<1>3. /\ frames \in SUBSET Frame /\ IsFiniteSet(frames)
      /\ slots \in [AnchorSlots -> Frame \cup {NoFrame}]
      /\ common \in SUBSET Nat /\ sent \in SUBSET Nat
      /\ keyPts \in Nat /\ win.nextPts + 1 \in Nat
  <2>1. kept \in SUBSET Frame /\ IsFiniteSet(kept)
    BY FS_EmptySet DEF Window
  <2>2. IsFiniteSet(kept \cup {f})
    BY <2>1, FS_AddElement
  <2>3. frames \in SUBSET Frame /\ IsFiniteSet(frames)
    BY <1>1, <2>1, <2>2
  <2>4. anchors \in [AnchorSlots -> Frame \cup {NoFrame}]
    BY DEF Window
  <2>5. slots \in [AnchorSlots -> Frame \cup {NoFrame}]
    BY <1>1, <2>4
  <2>6. common \in SUBSET Nat /\ sent \in SUBSET Nat /\ keyPts \in Nat /\ win.nextPts + 1 \in Nat
    BY DEF Window
  <2>7. QED
    BY <2>3, <2>5, <2>6
<1>4. v = [put EXCEPT !.frames = short, !.recent = recent]
  <2> DEFINE keyed == IF key
                      THEN [win EXCEPT !.frames = {},
                                       !.anchors = [i \in AnchorSlots |-> NoFrame],
                                       !.common = {}, !.sent = {},
                                       !.keyPts = win.nextPts, !.sinceKey = 0]
                      ELSE [win EXCEPT !.sinceKey = @ + WrappingSub(id, win.newest)]
             dated == [keyed EXCEPT !.newest = id, !.nextPts = @ + 1]
             placed == IF slot \in AnchorSlots
                       THEN [dated EXCEPT !.anchors[slot] = f]
                       ELSE [dated EXCEPT !.frames = @ \cup {f}]
  <2>1. v = [Trim(placed) EXCEPT !.recent = recent]
    BY DEF Record, NextFrame
  <2> HIDE DEF f
  <2>2. win = [frames |-> win.frames, capacity |-> win.capacity, anchors |-> win.anchors,
               recent |-> win.recent, nextPts |-> win.nextPts, newest |-> win.newest,
               sinceKey |-> win.sinceKey, keyPts |-> win.keyPts,
               acknowledged |-> win.acknowledged, common |-> win.common, sent |-> win.sent]
    BY DEF Window
  <2>3. keyed = [frames |-> kept, capacity |-> win.capacity, anchors |-> anchors,
               recent |-> win.recent, nextPts |-> win.nextPts, newest |-> win.newest,
               sinceKey |-> since, keyPts |-> keyPts,
               acknowledged |-> win.acknowledged, common |-> common, sent |-> sent]
    BY <2>2
  <2> HIDE DEF keyed, anchors
  <2>4. placed = put
    BY <2>3, ZenonT(60)
  <2>5. put.frames = frames
    OBVIOUS
  <2> HIDE DEF placed, dated, put, frames
  <2>6. placed = put /\ placed.frames = frames
    BY <2>4, <2>5
  <2>7. Trim(placed) = [put EXCEPT !.frames = short]
    BY <2>6 DEF Trim
  <2> HIDE DEF short, recent
  <2>8. v = [[put EXCEPT !.frames = short] EXCEPT !.recent = recent]
    BY <2>1, <2>7
  <2>9. QED
    BY <2>8
<1> HIDE DEF f, frames, slots, common, sent, keyPts, since
<1>5. put \in Window /\ put.frames = frames
  BY <1>2, <1>3 DEF Window
<1>6. RecentCapacity(put) \in Nat
  BY <1>5, RecentCapacityType
<1>7. /\ short \in SUBSET frames /\ IsFiniteSet(short)
      /\ \A g \in short, h \in frames : h.pts >= g.pts => h \in short
  BY <1>3, <1>6, NewestOfSet
<1>8. recent \in SUBSET Frame
  BY <1>1 DEF Newest, Window
<1>9. f \in recent
  <2>1. f.pts = win.nextPts
    BY DEF f, NextFrame
  <2>2. {g \in win.recent \cup {f} : g.pts > f.pts} = {}
    BY <1>1, <2>1 DEF Frame, Window
  <2>3. RecentFrames \in Nat \ {0}
    BY DEF WindowAssumption
  <2>4. QED
    BY <2>2, <2>3, FS_EmptySet DEF Newest
<1> HIDE DEF short, recent
<1>10. /\ put.nextPts = win.nextPts + 1 /\ put.newest = id /\ put.keyPts = keyPts
       /\ put.sinceKey = since /\ put.anchors = slots /\ put.capacity = win.capacity
  BY DEF Window
<1> HIDE DEF put
<1>11. /\ v \in Window
      /\ v.nextPts = win.nextPts + 1 /\ v.newest = id
      /\ v.keyPts = keyPts /\ v.sinceKey = since
      /\ v.recent = recent /\ v.frames = short /\ v.anchors = slots
      /\ v.capacity = win.capacity
  BY <1>3, <1>4, <1>5, <1>7, <1>8, <1>10, ZenonT(60) DEF Window
<1> HIDE DEF v
<1>12. /\ frames \in SUBSET (kept \cup {f}) /\ kept \in SUBSET frames
       /\ slot \notin AnchorSlots => frames = kept \cup {f}
  BY DEF frames
<1>13. AnchorFrames(v) \in SUBSET ((IF key THEN {} ELSE AnchorFrames(win)) \cup {f})
  <2>1. \A i \in AnchorSlots : v.anchors[i] \in {anchors[i], f}
    BY <1>11 DEF slots, Window
  <2>2. \A i \in AnchorSlots :
            anchors[i] \in {NoFrame} \cup (IF key THEN {} ELSE AnchorFrames(win))
    <3>1. DOMAIN win.anchors = AnchorSlots
      BY DEF Window
    <3>2. QED
      BY <3>1 DEF AnchorFrames
  <2>3. DOMAIN v.anchors = AnchorSlots
    BY <1>11 DEF Window
  <2>4. QED
    BY <2>1, <2>2, <2>3 DEF AnchorFrames
<1>14. \E S \in SUBSET (kept \cup {f}) : v.frames = Newest(S, RecentCapacity(v))
  <2>1. RecentCapacity(v) = RecentCapacity(put)
    BY <1>10, <1>11 DEF RecentCapacity
  <2>2. v.frames = Newest(frames, RecentCapacity(v))
    BY <1>11, <2>1 DEF short
  <2>3. QED
    BY <1>12, <2>2
<1>15. /\ slot \in AnchorSlots => f \in AnchorFrames(v)
       /\ slot \notin AnchorSlots /\ ~key => AnchorFrames(v) = AnchorFrames(win)
  <2>1. f # NoFrame
    BY <1>1 DEF WindowAssumption
  <2>2. anchors \in [AnchorSlots -> Frame \cup {NoFrame}]
    BY DEF Window
  <2>3. ASSUME slot \in AnchorSlots PROVE f \in AnchorFrames(v)
    <3>1. slot \in DOMAIN v.anchors /\ v.anchors[slot] = f
      BY <1>11, <2>2, <2>3 DEF slots
    <3>2. QED
      BY <2>1, <3>1 DEF AnchorFrames
  <2>4. ASSUME slot \notin AnchorSlots, ~key PROVE AnchorFrames(v) = AnchorFrames(win)
    BY <1>11, <2>4 DEF slots, AnchorFrames
  <2>5. QED
    BY <2>3, <2>4
<1>16. QED
  BY <1>1, <1>7, <1>9, <1>11, <1>12, <1>13, <1>14, <1>15
     DEF Recorded, v, f, keyPts, since, recent, short

-----------------------------------------------------------------------------
(* The inductive invariant, of a window `win` and the log of what it coded. *)

\* The frames the window names are the ones coded, each named once.
NamesCoded(win, log) ==
    /\ \A f \in Held(win) \cup win.recent :
            f.pts < win.nextPts /\ f.id = Id(log[f.pts].count)
    /\ \A f \in Held(win) : f.pts >= win.keyPts
    /\ \A r, s \in win.recent : r.pts = s.pts => r = s
    /\ \A f \in Held(win), r \in win.recent : f.pts = r.pts => f = r
    /\ IsFiniteSet(win.frames) /\ IsFiniteSet(win.recent)
    /\ win.keyPts <= win.nextPts

\* A queue that only lets its front go holds everything since its front.
Unbroken(S, next) ==
    \A f \in S, p \in 0 .. next - 1 : p >= f.pts => \E g \in S : g.pts = p

Queues(win) ==
    /\ Unbroken(win.recent, win.nextPts)
    /\ ~Anchored => Unbroken(win.frames, win.nextPts)
    /\ win.recent = {} => Held(win) = {}

\* A frame depends on itself and on frames from its key frame on.
Chains(win, log) ==
    /\ \A p \in 0 .. win.nextPts - 1 : p \in log[p].chain
    /\ \A p \in win.keyPts .. win.nextPts - 1 :
            log[p].chain \subseteq win.keyPts .. p

\* What is remembered as left out, nothing valid depends on.
LeftOut(win, log) ==
    \A r \in win.recent, f \in Valid(win) : r.lost => r.pts \notin log[f.pts].chain

WindowInv(win, log) ==
    /\ win \in Window
    /\ log \in [0 .. win.nextPts - 1 -> Coded]
    /\ NamesCoded(win, log)
    /\ Queues(win)
    /\ Chains(win, log)
    /\ LeftOut(win, log)

\* The ids are the capture's count, which grows from each frame sent to the
\* next frame coded, and the key's age is right for half the ids.
Dating(win, log) ==
    /\ \A p, q \in 0 .. win.nextPts - 1 :
            p < q => /\ log[p].count <= log[q].count
                     /\ log[p].sent => log[p].count < log[q].count
    /\ win.nextPts > 0 =>
        /\ win.newest = Id(log[win.nextPts - 1].count)
        /\ win.keyPts < win.nextPts
        /\ \A p \in win.keyPts .. win.nextPts - 1 :
            LET age == log[win.nextPts - 1].count - log[p].count
            IN  age < IdMod \div 2 => age <= win.sinceKey

\* The capture's count `now` is still to be coded under.
Due(win, log, now) ==
    \A p \in 0 .. win.nextPts - 1 :
        log[p].count <= now /\ (log[p].sent => log[p].count < now)

\* Nothing valid depends on a frame reported lost.
Clear(win, log, gone) ==
    \A f \in Valid(win) : log[f.pts].chain \cap gone = {}

IInv ==
    /\ TypeOK
    /\ WindowInv(w, coded)
    /\ Dating(w, coded)
    /\ \A p \in 0 .. w.nextPts - 1 : coded[p].count < count
    /\ Clear(w, coded, lost)

-----------------------------------------------------------------------------
(* Leaving frames out keeps the invariant and adds nothing to predict from. *)

LEMMA HeldFrames ==
  ASSUME NEW win \in Window
  PROVE  /\ Held(win) \in SUBSET Frame /\ Valid(win) \in SUBSET Frame
         /\ Valid(win) \in SUBSET Held(win)
         /\ win.recent \in SUBSET Frame /\ win.frames \in SUBSET Frame
         /\ win.nextPts \in Nat /\ win.keyPts \in Nat /\ win.sinceKey \in Nat
BY DEF Valid, Held, AnchorFrames, Window

\* `v` is the window `win` with some frames left out.
Less(v, win) ==
    /\ v.nextPts = win.nextPts /\ v.newest = win.newest
    /\ v.keyPts = win.keyPts /\ v.sinceKey = win.sinceKey
    /\ Valid(v) \subseteq Valid(win)

LEMMA LeftKeeps ==
  ASSUME WindowAssumption,
         NEW win, NEW log, WindowInv(win, log), NEW cut \in Nat, NEW rcut \in Nat,
         NEW v, Left(v, win, cut, rcut)
  PROVE  WindowInv(v, log) /\ Less(v, win)
<1>1. /\ win \in Window /\ NamesCoded(win, log) /\ Queues(win)
      /\ Chains(win, log) /\ LeftOut(win, log)
  BY DEF WindowInv
<1>2. /\ Held(win) \in SUBSET Frame /\ Valid(win) \in SUBSET Held(win)
      /\ win.recent \in SUBSET Frame /\ win.frames \in SUBSET Frame
      /\ win.nextPts \in Nat /\ win.keyPts \in Nat
  BY <1>1, HeldFrames
<1>3. /\ v \in Window
      /\ v.frames = MarkLost(win.frames, cut)
      /\ v.anchors = MarkAnchors(win.anchors, cut)
      /\ v.recent = MarkLost(win.recent, rcut)
      /\ v.nextPts = win.nextPts /\ v.keyPts = win.keyPts
      /\ v.newest = win.newest /\ v.sinceKey = win.sinceKey
  BY <1>1, LeftFields
<1>4. /\ Held(v) = MarkLost(Held(win), cut)
      /\ Valid(v) = {f \in Valid(win) : f.pts < cut}
  BY <1>1, <1>3, LeftHeld
<1>5. cut = rcut \/ (rcut = win.keyPts /\ Valid(v) = {})
  BY DEF Left
<1> DEFINE Was(f, g, c) == /\ f = LostFrom(g, c) /\ g \in Frame
                           /\ f.pts = g.pts /\ f.id = g.id
                           /\ (f.lost <=> g.lost \/ g.pts >= c)
<1>6. ASSUME NEW S \in SUBSET Frame, NEW c \in Nat
       PROVE  \A f \in MarkLost(S, c) : \E g \in S : Was(f, g, c)
  <2> SUFFICES ASSUME NEW f \in MarkLost(S, c) PROVE \E g \in S : Was(f, g, c)
    OBVIOUS
  <2>1. PICK g \in S : f = LostFrom(g, c)
    BY DEF MarkLost
  <2>2. Was(f, g, c)
    BY <2>1, LostFromFrame
  <2>3. QED
    BY <2>2
<1>7. /\ \A f \in Held(v) : \E g \in Held(win) : Was(f, g, cut)
      /\ \A r \in v.recent : \E s \in win.recent : Was(r, s, rcut)
  BY <1>2, <1>3, <1>4, <1>6
<1>8. NamesCoded(v, log)
  <2>1. /\ \A f \in Held(v) : \E g \in Held(win) : g.pts = f.pts /\ g.id = f.id
        /\ \A r \in v.recent : \E s \in win.recent : s.pts = r.pts /\ s.id = r.id
    BY <1>7
  <2>2. /\ \A f \in Held(v) \cup v.recent :
                f.pts < v.nextPts /\ f.id = Id(log[f.pts].count)
        /\ \A f \in Held(v) : f.pts >= v.keyPts
    BY <1>1, <1>3, <2>1 DEF NamesCoded
  <2>3. \A r, s \in v.recent : r.pts = s.pts => r = s
    BY <1>1, <1>7 DEF NamesCoded
  <2>4. ASSUME NEW f \in Held(v), NEW r \in v.recent, f.pts = r.pts
        PROVE  f = r
    <3>1. PICK g \in Held(win) : Was(f, g, cut)
      BY <1>7
    <3>2. PICK s \in win.recent : Was(r, s, rcut)
      BY <1>7
    <3>3. g = s /\ g \in Frame /\ g.pts >= win.keyPts
      BY <1>1, <2>4, <3>1, <3>2 DEF NamesCoded
    <3>4. CASE cut = rcut
      BY <3>1, <3>2, <3>3, <3>4
    <3>5. CASE rcut = win.keyPts /\ Valid(v) = {}
      <4>1. f.lost /\ r.lost
        BY <3>1, <3>2, <3>3, <3>5 DEF Valid
      <4>2. f = [g EXCEPT !.lost = TRUE] /\ r = [g EXCEPT !.lost = TRUE]
        BY <3>1, <3>2, <3>3, <4>1 DEF LostFrom, Frame
      <4>3. QED
        BY <4>2
    <3>6. QED
      BY <1>5, <3>4, <3>5
  <2>5. IsFiniteSet(v.frames) /\ IsFiniteSet(v.recent)
    BY <1>1, <1>2, <1>3, MarkLostFrames DEF NamesCoded
  <2>6. QED
    BY <1>1, <1>3, <2>2, <2>3, <2>4, <2>5 DEF NamesCoded
<1>9. Queues(v)
  <2>1. ASSUME NEW S \in SUBSET Frame, NEW n, NEW c \in Nat, Unbroken(S, n)
        PROVE  Unbroken(MarkLost(S, c), n)
    <3> SUFFICES ASSUME NEW f \in MarkLost(S, c), NEW p \in 0 .. n - 1, p >= f.pts
                 PROVE  \E g \in MarkLost(S, c) : g.pts = p
      BY DEF Unbroken
    <3>1. PICK h \in S : h.pts = f.pts
      BY <1>6
    <3>2. PICK k \in S : k.pts = p
      BY <2>1, <3>1 DEF Unbroken
    <3>3. LostFrom(k, c) \in MarkLost(S, c) /\ LostFrom(k, c).pts = p
      BY <3>2, LostFromFrame DEF MarkLost
    <3>4. QED
      BY <3>3
  <2>2. v.recent = {} => Held(v) = {}
    <3>1. v.recent = {} => win.recent = {}
      BY <1>3 DEF MarkLost
    <3>2. Held(win) = {} => Held(v) = {}
      BY <1>7
    <3>3. QED
      BY <1>1, <3>1, <3>2 DEF Queues
  <2>3. QED
    BY <1>1, <1>2, <1>3, <2>1, <2>2 DEF Queues
<1>10. Chains(v, log)
  BY <1>1, <1>3 DEF Chains
<1>11. LeftOut(v, log)
  <2> SUFFICES ASSUME NEW r \in v.recent, NEW f \in Valid(v), r.lost
               PROVE  r.pts \notin log[f.pts].chain
    BY DEF LeftOut
  <2>1. cut = rcut /\ f \in Valid(win) /\ f.pts < cut
    BY <1>4, <1>5
  <2>2. PICK s \in win.recent : Was(r, s, cut)
    BY <1>7, <2>1
  <2>3. CASE s.lost
    BY <1>1, <2>1, <2>2, <2>3 DEF LeftOut
  <2>4. CASE r.pts >= cut
    <3>1. f.pts \in win.keyPts .. win.nextPts - 1
      BY <1>1, <1>2, <2>1 DEF NamesCoded, Frame
    <3>2. log[f.pts].chain \subseteq win.keyPts .. f.pts
      BY <1>1, <3>1 DEF Chains
    <3>3. r.pts > f.pts /\ f.pts \in Nat
      BY <1>2, <2>1, <2>2, <2>4, <3>1 DEF Frame
    <3>4. QED
      BY <3>2, <3>3
  <2>5. QED
    BY <2>2, <2>3, <2>4
<1>12. QED
  BY <1>1, <1>3, <1>4, <1>8, <1>9, <1>10, <1>11 DEF WindowInv, Less

\* `v` is `win`, or `win` with some frames left out.
LEMMA KeptOrLeft ==
  ASSUME WindowAssumption,
         NEW win, NEW log, WindowInv(win, log), NEW v,
         v = win \/ \E cut, rcut \in Nat : Left(v, win, cut, rcut)
  PROVE  WindowInv(v, log) /\ Less(v, win)
<1>1. CASE v = win
  BY <1>1 DEF Less
<1>2. CASE \E cut, rcut \in Nat : Left(v, win, cut, rcut)
  BY <1>2, LeftKeeps
<1>3. QED
  BY <1>1, <1>2

LEMMA AnswersKeep ==
  ASSUME WindowAssumption,
         NEW win, NEW log, WindowInv(win, log)
  PROVE  /\ \A id : /\ WindowInv(Invalidate(win, id).w, log)
                    /\ Less(Invalidate(win, id).w, win)
         /\ WindowInv(Settle(win).w, log) /\ Less(Settle(win).w, win)
         /\ WindowInv(ForgetStale(win).w, log) /\ Less(ForgetStale(win).w, win)
         /\ win.nextPts > 0 => WindowInv(Retract(win), log) /\ Less(Retract(win), win)
<1>1. win \in Window /\ \A f \in Held(win) \cup win.recent : f.pts < win.nextPts
  BY DEF WindowInv, NamesCoded
<1>2. \A id : \/ Invalidate(win, id).w = win
              \/ \E cut, rcut \in Nat : Left(Invalidate(win, id).w, win, cut, rcut)
  BY <1>1, InvalidateLeft
<1>3. /\ \/ Settle(win).w = win
         \/ \E cut, rcut \in Nat : Left(Settle(win).w, win, cut, rcut)
      /\ \/ ForgetStale(win).w = win
         \/ \E cut, rcut \in Nat : Left(ForgetStale(win).w, win, cut, rcut)
  BY <1>1, SettleLeft
<1>4. win.nextPts > 0 =>
        \E cut, rcut \in Nat : Left(Retract(win), win, cut, rcut)
  BY <1>1, RetractLeft
<1>5. QED
  BY <1>2, <1>3, <1>4, KeptOrLeft

LEMMA LessTransitive ==
  ASSUME NEW u, NEW v, NEW x, Less(u, v), Less(v, x)
  PROVE  Less(u, x)
BY DEF Less

LEMMA PreparedKeeps ==
  ASSUME WindowAssumption,
         WindowInv(w, coded), forceIdr \in BOOLEAN, NEW refuses \in BOOLEAN
  PROVE  LET s == Prepared(refuses)
         IN  WindowInv(s.w, coded) /\ Less(s.w, w) /\ s.key \in BOOLEAN
<1> DEFINE key == forceIdr \/ ~HasReference(w)
           a == Settled(w, key, refuses)
           s == Prepared(refuses)
<1>1. Less(w, w)
  BY DEF Less
<1>2. WindowInv(a.w, coded) /\ Less(a.w, w) /\ a.key \in BOOLEAN
  <2>1. a.w \in {w, Settle(w).w} /\ a.key \in BOOLEAN
    BY DEF Settled, Applied, Stage
  <2>2. QED
    BY <1>1, <2>1, AnswersKeep
<1>3. s.w \in {a.w, ForgetStale(a.w).w} /\ s.key \in BOOLEAN
  BY <1>2 DEF Prepared, Refreshed, Applied, Stage
<1> HIDE DEF a, s
<1>4. WindowInv(ForgetStale(a.w).w, coded) /\ Less(ForgetStale(a.w).w, a.w)
  BY <1>2, AnswersKeep
<1>5. Less(ForgetStale(a.w).w, w)
  BY <1>2, <1>4, LessTransitive
<1>6. WindowInv(s.w, coded) /\ Less(s.w, w) /\ s.key \in BOOLEAN
  BY <1>2, <1>3, <1>4, <1>5
<1>7. QED
  BY <1>6 DEF s

-----------------------------------------------------------------------------
(* Coding a frame keeps the invariant.                                     *)

LEMMA NewestValidIsValid ==
  ASSUME NEW win, NEW log, WindowInv(win, log), HasReference(win)
  PROVE  NewestValid(win) \in Valid(win)
<1>1. /\ Valid(win) \in SUBSET Frame /\ Valid(win) # {} /\ win.nextPts \in Nat
      /\ \A f \in Valid(win) : f.pts < win.nextPts
  BY HeldFrames DEF WindowInv, NamesCoded, HasReference
<1>2. Last(Valid(win)) \in Valid(win)
  BY <1>1, LastIsLast
<1>3. QED
  BY <1>2 DEF Last, NewestValid

\* The next frame depends on itself and what one frame held depends on.
LEMMA NextChain ==
  ASSUME NEW win, NEW log, WindowInv(win, log), count \in Nat,
         NEW key \in BOOLEAN, NEW named, NEW sent \in BOOLEAN
  PROVE  LET c == NextCoded(log, win, key, named, sent)
         IN  /\ c \in Coded /\ c.count = count /\ c.sent = sent
             /\ \/ c.chain = {win.nextPts}
                \/ /\ ~key
                   /\ \E f \in Valid(win) : c.chain = {win.nextPts} \cup log[f.pts].chain
<1> DEFINE c == NextCoded(log, win, key, named, sent)
           from == Source(win, key)
<1>1. /\ win \in Window /\ win.nextPts \in Nat /\ Valid(win) \in SUBSET Frame
      /\ \A f \in Valid(win) : f.pts \in 0 .. win.nextPts - 1
      /\ log \in [0 .. win.nextPts - 1 -> Coded]
  BY HeldFrames DEF WindowInv, NamesCoded, Frame
<1>2. \/ from = win.nextPts
      \/ ~key /\ HasReference(win) /\ from = NewestValid(win).pts
  BY DEF Source
<1>3. InSlot(win, named) \in Nat
  BY <1>1 DEF InSlot, Window, Frame
<1>4. c = [count |-> count, from |-> from, named |-> InSlot(win, named),
           sent |-> sent, chain |-> {win.nextPts} \cup
                            IF from < win.nextPts THEN log[from].chain ELSE {}]
  BY DEF NextCoded
<1> HIDE DEF c, from
<1>5. CASE from = win.nextPts
  <2>1. c.chain = {win.nextPts}
    BY <1>1, <1>4, <1>5
  <2>2. c \in Coded
    BY <1>1, <1>3, <1>4, <1>5 DEF Coded
  <2>3. QED
    BY <1>4, <2>1, <2>2 DEF c
<1>6. CASE ~key /\ HasReference(win) /\ from = NewestValid(win).pts
  <2>1. NewestValid(win) \in Valid(win)
    BY <1>6, NewestValidIsValid
  <2>2. from \in 0 .. win.nextPts - 1 /\ log[from] \in Coded
    BY <1>1, <1>6, <2>1
  <2>3. c.chain = {win.nextPts} \cup log[from].chain
    BY <1>1, <1>4, <2>2
  <2>4. c \in Coded
    BY <1>1, <1>3, <1>4, <2>2 DEF Coded
  <2>5. QED
    BY <1>4, <1>6, <2>1, <2>3, <2>4 DEF c
<1>7. QED
  BY <1>2, <1>5, <1>6

LEMMA RecordKeeps ==
  ASSUME WindowAssumption,
         NEW win, NEW log, WindowInv(win, log), count \in Nat,
         NEW key \in BOOLEAN, NEW slot, NEW named, NEW sent \in BOOLEAN,
         NEW gone \in SUBSET (0 .. win.nextPts - 1), Clear(win, log, gone)
  PROVE  LET v == Record(win, Id(count), key, slot)
             new == Logged(log, win, key, named, sent)
         IN  /\ WindowInv(v, new) /\ Clear(v, new, gone)
             /\ v.nextPts = win.nextPts + 1
<1> DEFINE n == win.nextPts
           f == NextFrame(win, Id(count))
           v == Record(win, Id(count), key, slot)
           new == Logged(log, win, key, named, sent)
           c == NextCoded(log, win, key, named, sent)
           kept == IF key THEN {} ELSE win.frames
<1>1. /\ win \in Window /\ NamesCoded(win, log) /\ Queues(win)
      /\ Chains(win, log) /\ LeftOut(win, log)
      /\ log \in [0 .. n - 1 -> Coded]
  BY DEF WindowInv
<1>2. /\ Held(win) \in SUBSET Frame /\ Valid(win) \in SUBSET Held(win)
      /\ win.recent \in SUBSET Frame /\ win.frames \in SUBSET Held(win)
      /\ n \in Nat /\ win.keyPts \in Nat
      /\ \A g \in Held(win) \cup win.recent : g.pts \in 0 .. n - 1
      /\ IsFiniteSet(win.frames) /\ IsFiniteSet(win.recent)
  BY <1>1, HeldFrames DEF NamesCoded, Frame, Held
<1>3. Id(count) \in Ids
  BY ModType DEF Id
<1>4. /\ v \in Window /\ f \in Frame
      /\ v.nextPts = n + 1
      /\ v.keyPts = IF key THEN n ELSE win.keyPts
      /\ v.recent = Newest(win.recent \cup {f}, RecentFrames) /\ f \in v.recent
      /\ v.frames \in SUBSET (kept \cup {f}) /\ IsFiniteSet(v.frames)
      /\ slot \notin AnchorSlots =>
            \A g \in v.frames, h \in kept \cup {f} : h.pts >= g.pts => h \in v.frames
      /\ AnchorFrames(v) \in SUBSET ((IF key THEN {} ELSE AnchorFrames(win)) \cup {f})
  <2>1. \A g \in win.recent : g.pts < win.nextPts
    BY <1>1 DEF NamesCoded
  <2>2. win \in Window /\ IsFiniteSet(win.frames)
    BY <1>1, <1>2
  <2> HIDE DEF v
  <2>3. Recorded(v, win, Id(count), key, slot)
    BY <1>3, <2>1, <2>2, RecordFields DEF v
  <2>4. QED
    BY <2>3 DEF Recorded
<1>5. f.pts = n /\ f.id = Id(count) /\ ~f.lost
  BY DEF NextFrame
<1> HIDE DEF f, v
<1>6. /\ IsFiniteSet(win.recent \cup {f}) /\ win.recent \cup {f} \in SUBSET Frame
      /\ RecentFrames \in Int
  <2>1. IsFiniteSet(win.recent \cup {f})
    BY <1>2, FS_AddElement
  <2>2. win.recent \cup {f} \in SUBSET Frame
    BY <1>2, <1>4
  <2>3. QED
    BY <2>1, <2>2 DEF WindowAssumption
<1>7. /\ v.recent \in SUBSET (win.recent \cup {f}) /\ IsFiniteSet(v.recent)
      /\ \A g \in v.recent, h \in win.recent \cup {f} : h.pts >= g.pts => h \in v.recent
  <2> DEFINE R == win.recent \cup {f}
  <2> HIDE DEF R
  <2>1. IsFiniteSet(R) /\ R \in SUBSET Frame /\ v.recent = Newest(R, RecentFrames)
    BY <1>4, <1>6 DEF R
  <2>2. /\ v.recent \in SUBSET R /\ IsFiniteSet(v.recent)
        /\ \A g \in v.recent, h \in R : h.pts >= g.pts => h \in v.recent
    BY <1>6, <2>1, NewestOfSet
  <2>3. QED
    BY <2>2 DEF R
<1>8. Held(v) \in SUBSET ((IF key THEN {} ELSE Held(win)) \cup {f})
  BY <1>4 DEF Held
<1>9. Valid(v) \in SUBSET ((IF key THEN {} ELSE Valid(win)) \cup {f})
  BY <1>8 DEF Valid
<1>10. /\ c \in Coded /\ c.count = count
       /\ \/ c.chain = {n}
          \/ ~key /\ \E g \in Valid(win) : c.chain = {n} \cup log[g.pts].chain
  BY NextChain
<1>11. /\ new \in [0 .. v.nextPts - 1 -> Coded] /\ new[n] = c
       /\ \A p \in 0 .. n - 1 : new[p] = log[p]
  <2>1. new = [p \in 0 .. n |-> IF p = n THEN c ELSE log[p]]
    BY DEF Logged
  <2> HIDE DEF new, c, v
  <2>2. \A p \in 0 .. n : p # n => p \in 0 .. n - 1
    BY <1>2
  <2>3. n \in 0 .. n /\ v.nextPts - 1 = n
    BY <1>2, <1>4
  <2>4. \A p \in 0 .. n - 1 : p \in 0 .. n /\ p # n
    BY <1>2
  <2>5. \A p \in 0 .. n : (IF p = n THEN c ELSE log[p]) \in Coded
    BY <1>1, <1>10, <2>2
  <2>6. new \in [0 .. n -> Coded]
    BY <2>1, <2>5
  <2>7. QED
    BY <2>1, <2>3, <2>4, <2>6
<1> HIDE DEF new, c, n
<1>12. /\ \A g \in Held(win) \cup win.recent :
             /\ g.pts \in 0 .. n - 1 /\ g.pts < n /\ g.pts # n
             /\ g.id = Id(new[g.pts].count) /\ new[g.pts] = log[g.pts]
       /\ n \in Nat /\ v.nextPts = n + 1
  BY <1>1, <1>2, <1>4, <1>11 DEF NamesCoded, n
<1>13. NamesCoded(v, new)
  <2>1. \A g \in Held(v) \cup v.recent : g = f \/ g \in Held(win) \cup win.recent
    BY <1>7, <1>8
  <2>2. \A g \in Held(v) \cup v.recent :
            g.pts < v.nextPts /\ g.id = Id(new[g.pts].count)
    BY <1>5, <1>10, <1>11, <1>12, <2>1
  <2>3. \A g \in Held(v) : g.pts >= v.keyPts
    <3>1. CASE key
      BY <1>4, <1>5, <1>8, <1>12, <3>1
    <3>2. CASE ~key
      <4>1. v.keyPts = win.keyPts /\ win.keyPts <= n
        BY <1>1, <1>4, <3>2 DEF NamesCoded, n
      <4>2. QED
        BY <1>1, <1>5, <1>8, <1>12, <3>2, <4>1 DEF NamesCoded
    <3>3. QED
      BY <3>1, <3>2
  <2>4. \A r, s \in v.recent : r.pts = s.pts => r = s
    BY <1>1, <1>5, <1>7, <1>12 DEF NamesCoded
  <2>5. \A g \in Held(v), r \in v.recent : g.pts = r.pts => g = r
    BY <1>1, <1>5, <1>7, <1>8, <1>12 DEF NamesCoded
  <2>6. v.keyPts <= v.nextPts
    BY <1>1, <1>4, <1>12 DEF NamesCoded, Window, n
  <2>7. QED
    BY <1>4, <1>7, <2>2, <2>3, <2>4, <2>5, <2>6 DEF NamesCoded
<1>14. Queues(v)
  <2>1. ASSUME NEW S \in SUBSET (Held(win) \cup win.recent), NEW T,
               Unbroken(S, n), T \in SUBSET (S \cup {f}),
               \A g \in T, h \in S \cup {f} : h.pts >= g.pts => h \in T
        PROVE  Unbroken(T, n + 1)
    <3> SUFFICES ASSUME NEW g \in T, NEW p \in 0 .. n, p >= g.pts
                 PROVE  \E h \in T : h.pts = p
      BY <1>12 DEF Unbroken
    <3>1. CASE p = n
      BY <1>5, <1>12, <2>1, <3>1
    <3>2. CASE p # n
      <4>1. g \in S /\ p \in 0 .. n - 1
        BY <1>5, <1>12, <2>1, <3>2
      <4>2. PICK h \in S : h.pts = p
        BY <2>1, <4>1 DEF Unbroken
      <4>3. QED
        BY <2>1, <4>2
    <3>3. QED
      BY <3>1, <3>2
  <2>2. Unbroken(v.recent, n + 1)
    BY <1>1, <1>7, <2>1 DEF Queues, n
  <2>3. ASSUME ~Anchored PROVE Unbroken(v.frames, n + 1)
    <3>1. AnchorSlots = {}
      BY <2>3 DEF WindowAssumption, Anchored, AnchorSlots
    <3>2. \A g \in v.frames, h \in kept \cup {f} : h.pts >= g.pts => h \in v.frames
      BY <1>4, <3>1
    <3>3. Unbroken(kept, n) /\ kept \in SUBSET (Held(win) \cup win.recent)
      BY <1>1, <1>2, <2>3 DEF Queues, Unbroken, n
    <3>4. QED
      BY <1>4, <2>1, <3>2, <3>3
  <2>4. QED
    BY <1>4, <1>12, <2>2, <2>3 DEF Queues
<1>15. \A g \in Valid(win) : /\ g.pts \in win.keyPts .. n - 1
                             /\ log[g.pts].chain \subseteq win.keyPts .. g.pts
  BY <1>1, <1>2, <1>12 DEF NamesCoded, Chains, n
<1>16. Chains(v, new)
  <2>1. \A p \in 0 .. v.nextPts - 1 : p \in new[p].chain
    BY <1>1, <1>10, <1>11, <1>12 DEF Chains, n
  <2>2. ASSUME NEW p \in v.keyPts .. v.nextPts - 1
        PROVE  new[p].chain \subseteq v.keyPts .. p
    <3>1. CASE p = n
      <4>1. CASE c.chain = {n}
        BY <1>4, <1>11, <1>12, <2>2, <3>1, <4>1
      <4>2. CASE ~key /\ \E g \in Valid(win) : c.chain = {n} \cup log[g.pts].chain
        <5>1. PICK g \in Valid(win) : c.chain = {n} \cup log[g.pts].chain
          BY <4>2
        <5>2. v.keyPts = win.keyPts /\ win.keyPts \in Nat /\ win.keyPts <= n
          BY <1>1, <1>2, <1>4, <4>2 DEF NamesCoded, n
        <5>3. win.keyPts .. g.pts \subseteq win.keyPts .. n
          BY <1>12, <1>15, <5>2
        <5>4. n \in win.keyPts .. n
          BY <1>12, <5>2
        <5>5. QED
          BY <1>11, <1>15, <3>1, <5>1, <5>2, <5>3, <5>4
      <4>3. QED
        BY <1>10, <4>1, <4>2
    <3>2. CASE p # n
      <4>1. ~key /\ v.keyPts = win.keyPts /\ p \in win.keyPts .. n - 1 /\ p \in 0 .. n - 1
        BY <1>2, <1>4, <1>12, <2>2, <3>2 DEF n
      <4>2. QED
        BY <1>1, <1>11, <4>1 DEF Chains, n
    <3>3. QED
      BY <3>1, <3>2
  <2>3. QED
    BY <2>1, <2>2 DEF Chains
<1>17. ASSUME NEW p \in 0 .. n - 1, \A g \in Valid(win) : p \notin log[g.pts].chain
       PROVE  \A g \in Valid(v) : p \notin new[g.pts].chain
  <2>1. p # n
    BY <1>12
  <2>2. p \notin c.chain
    BY <1>10, <1>17, <2>1
  <2>3. \A g \in Valid(win) : new[g.pts] = log[g.pts]
    BY <1>2, <1>12
  <2>4. QED
    BY <1>5, <1>9, <1>11, <1>17, <2>2, <2>3
<1>18. LeftOut(v, new)
  <2> SUFFICES ASSUME NEW r \in v.recent, r.lost
               PROVE  \A g \in Valid(v) : r.pts \notin new[g.pts].chain
    BY DEF LeftOut
  <2>1. r \in win.recent /\ r.pts \in 0 .. n - 1
    BY <1>5, <1>7, <1>12
  <2>2. QED
    BY <1>1, <1>17, <2>1 DEF LeftOut
<1>19. Clear(v, new, gone)
  <2> SUFFICES ASSUME NEW p \in gone
               PROVE  \A g \in Valid(v) : p \notin new[g.pts].chain
    BY DEF Clear
  <2>1. p \in 0 .. n - 1 /\ \A g \in Valid(win) : p \notin log[g.pts].chain
    BY DEF Clear, n
  <2>2. QED
    BY <1>17, <2>1
<1>20. QED
  BY <1>4, <1>11, <1>13, <1>14, <1>16, <1>18, <1>19 DEF WindowInv, v, new, n

-----------------------------------------------------------------------------
(* Dating by ids that wrap.                                                *)

LEMMA HalfIds ==
  ASSUME WindowAssumption
  PROVE  IdMod \in Nat /\ IdMod \div 2 \in Nat /\ IdMod \div 2 <= IdMod /\ IdMod > 0
BY DEF WindowAssumption

\* Of two counts nearer than half the ids, the older is as far behind by id.
LEMMA BehindByCount ==
  ASSUME WindowAssumption,
         NEW a \in Nat, NEW b \in Nat, b <= a, a - b < IdMod \div 2
  PROVE  WrappingSub(Id(a), Id(b)) = a - b
<1>1. a - b < IdMod
  BY HalfIds
<1>2. QED
  BY <1>1, WrappingSubOfCounts DEF Id

\* What a log of window `win` says of the counts.
LEMMA Counts ==
  ASSUME NEW win, NEW log, WindowInv(win, log)
  PROVE  /\ win.nextPts \in Nat /\ win.keyPts \in Nat /\ win.sinceKey \in Nat
         /\ \A p \in 0 .. win.nextPts - 1 :
                log[p].count \in Nat /\ log[p].sent \in BOOLEAN
BY DEF WindowInv, Window, Coded

LEMMA RecordDates ==
  ASSUME WindowAssumption,
         NEW win, NEW log, WindowInv(win, log), Dating(win, log),
         count \in Nat, Due(win, log, count),
         NEW key \in BOOLEAN, NEW slot, NEW named, NEW sent \in BOOLEAN
  PROVE  Dating(Record(win, Id(count), key, slot), Logged(log, win, key, named, sent))
<1> DEFINE n == win.nextPts
           v == Record(win, Id(count), key, slot)
           new == Logged(log, win, key, named, sent)
<1>1. /\ n \in Nat /\ win.keyPts \in Nat /\ win.sinceKey \in Nat
      /\ \A p \in 0 .. n - 1 : log[p].count \in Nat /\ log[p].sent \in BOOLEAN
  BY Counts
<1>2. /\ v.nextPts = n + 1 /\ v.newest = Id(count)
      /\ v.keyPts = IF key THEN n ELSE win.keyPts
      /\ v.sinceKey = IF key THEN 0
                      ELSE win.sinceKey + WrappingSub(Id(count), win.newest)
      /\ v.sinceKey \in Nat
  <2>1. /\ win \in Window /\ IsFiniteSet(win.frames) /\ Id(count) \in Ids
        /\ \A r \in win.recent : r.pts < win.nextPts
    BY ModType DEF WindowInv, NamesCoded, Id
  <2>2. Recorded(v, win, Id(count), key, slot)
    BY <2>1, RecordFields
  <2> HIDE DEF v
  <2>3. v \in Window
    BY <2>2 DEF Recorded
  <2>4. v.sinceKey \in Nat
    BY <2>3 DEF Window
  <2>5. QED
    BY <2>2, <2>4 DEF Recorded
<1>3. /\ new[n].count = count
      /\ \A p \in 0 .. n - 1 : new[p] = log[p]
  BY <1>1 DEF Logged, NextCoded
<1>4. win.keyPts <= n
  BY DEF WindowInv, NamesCoded
<1> HIDE DEF v, new
<1>5. ASSUME NEW p \in 0 .. n, NEW q \in 0 .. n, p < q
      PROVE  /\ new[p].count <= new[q].count
             /\ new[p].sent => new[p].count < new[q].count
  <2>1. p \in 0 .. n - 1 /\ new[p] = log[p]
    BY <1>1, <1>3, <1>5
  <2>2. CASE q = n
    BY <1>3, <2>1, <2>2 DEF Due
  <2>3. CASE q # n
    <3>1. q \in 0 .. n - 1 /\ new[q] = log[q]
      BY <1>1, <1>3, <2>3
    <3>2. QED
      BY <1>5, <2>1, <3>1 DEF Dating
  <2>4. QED
    BY <2>2, <2>3
<1>6. ASSUME NEW p \in v.keyPts .. n, count - new[p].count < IdMod \div 2
      PROVE  count - new[p].count <= v.sinceKey
  <2>1. CASE p = n
    BY <1>2, <1>3, <2>1
  <2>2. CASE p # n
    <3>1. ~key /\ v.keyPts = win.keyPts /\ p \in win.keyPts .. n - 1
          /\ p \in 0 .. n - 1 /\ n - 1 \in 0 .. n - 1 /\ n > 0 /\ p <= n - 1
      BY <1>1, <1>2, <2>2
    <3> DEFINE a == log[p].count
               b == log[n - 1].count
    <3>2. a \in Nat /\ b \in Nat /\ new[p].count = a
      BY <1>1, <1>3, <3>1
    <3>3. a <= b /\ b <= count
      BY <3>1, <3>2 DEF Dating, Due
    <3>4. b - a <= win.sinceKey
      <4>1. b - a < IdMod \div 2
        BY <1>6, <3>2, <3>3, HalfIds
      <4>2. QED
        BY <3>1, <4>1 DEF Dating
    <3>5. WrappingSub(Id(count), win.newest) = count - b
      <4>1. count - b < IdMod \div 2
        BY <1>6, <3>2, <3>3, HalfIds
      <4>2. win.newest = Id(b)
        BY <3>1 DEF Dating
      <4>3. QED
        BY <3>2, <3>3, <4>1, <4>2, BehindByCount
    <3> HIDE DEF a, b
    <3>6. v.sinceKey = win.sinceKey + (count - b)
      BY <1>2, <3>1, <3>5
    <3>7. QED
      BY <1>1, <3>2, <3>3, <3>4, <3>6
  <2>3. QED
    BY <2>1, <2>2
<1>7. v.keyPts < v.nextPts /\ v.nextPts - 1 = n /\ v.nextPts > 0
  BY <1>1, <1>2, <1>4
<1>8. QED
  BY <1>2, <1>3, <1>5, <1>6, <1>7 DEF Dating, v, new

\* A frame sent is told by its id from those coded after it, as long as fewer
\* than half the ids have gone by.
LEMMA SentIsTold ==
  ASSUME WindowAssumption,
         NEW win, NEW log, WindowInv(win, log), Dating(win, log),
         NEW p \in 0 .. win.nextPts - 1, NEW q \in 0 .. win.nextPts - 1, p < q,
         log[p].sent, log[q].count - log[p].count < IdMod \div 2
  PROVE  /\ Id(log[q].count) # Id(log[p].count)
         /\ WrappingSub(Id(log[q].count), Id(log[p].count)) > 0
<1> DEFINE a == log[p].count
           b == log[q].count
<1>1. a \in Nat /\ b \in Nat /\ a < b
  BY Counts DEF Dating
<1>2. WrappingSub(Id(b), Id(a)) = b - a
  BY <1>1, BehindByCount
<1>3. b - a # 0
  BY <1>1
<1>4. WrappingSub(Id(a), Id(a)) = 0
  BY <1>1, BehindByCount, HalfIds DEF WrappingSub
<1>5. QED
  BY <1>1, <1>2, <1>3, <1>4

-----------------------------------------------------------------------------
(* A loss reported is left out of everything the session predicts from.    *)

\* The newest frame remembered or held under the id reported is the one lost.
LEMMA ReportedIsNamed ==
  ASSUME WindowAssumption,
         NEW win, NEW log, WindowInv(win, log), Dating(win, log),
         NEW now \in Nat, \A q \in 0 .. win.nextPts - 1 : log[q].count < now,
         NEW p \in 0 .. win.nextPts - 1, log[p].sent,
         now - log[p].count < IdMod \div 2
  PROVE  LET id == Id(log[p].count)
         IN  \A S \in SUBSET (Held(win) \cup win.recent) : Unbroken(S, win.nextPts) =>
                /\ \A g \in S : g.pts <= p => \E h \in Named(S, id) : h.pts = p
                /\ Named(S, id) # {} =>
                        Last(Named(S, id)) \in S /\ Last(Named(S, id)).pts = p
<1> DEFINE n == win.nextPts
           id == Id(log[p].count)
<1>1. win \in Window /\ NamesCoded(win, log)
  BY DEF WindowInv
<1>2. /\ Held(win) \in SUBSET Frame /\ win.recent \in SUBSET Frame
      /\ n \in Nat
      /\ \A g \in Held(win) \cup win.recent :
            /\ g.pts \in 0 .. n - 1 /\ g.pts < n /\ g.pts \in Nat
            /\ g.id = Id(log[g.pts].count)
  BY <1>1, HeldFrames DEF NamesCoded, Frame
<1>3. \A q \in 0 .. n - 1 : log[q].count \in Nat
  BY Counts
\* A frame that follows the one lost is told from it.
<1>5. \A g \in Held(win) \cup win.recent : g.pts > p => g.id # id
  <2> SUFFICES ASSUME NEW g \in Held(win) \cup win.recent, g.pts > p
               PROVE  Id(log[g.pts].count) # id
    BY <1>2
  <2>1. g.pts \in 0 .. n - 1 /\ log[g.pts].count < now /\ log[g.pts].count \in Nat
    BY <1>2, <1>3
  <2>2. log[p].count \in Nat
    BY <1>3
  <2>3. log[g.pts].count - log[p].count < IdMod \div 2
    BY <2>1, <2>2, HalfIds
  <2>4. QED
    BY <2>1, <2>3, SentIsTold
\* The newest frame remembered under the id is the one lost.
<1>6. ASSUME NEW S \in SUBSET (Held(win) \cup win.recent), Unbroken(S, n),
              NEW g \in S, g.pts <= p
       PROVE  \E h \in Named(S, id) : h.pts = p
  <2>1. PICK h \in S : h.pts = p
    BY <1>6 DEF Unbroken
  <2>2. h.id = id
    BY <1>2, <2>1
  <2>3. QED
    BY <2>1, <2>2 DEF Named
<1>7. ASSUME NEW S \in SUBSET (Held(win) \cup win.recent),
             Named(S, id) # {}, Unbroken(S, n)
      PROVE  Last(Named(S, id)) \in S /\ Last(Named(S, id)).pts = p
  <2> DEFINE T == Named(S, id)
  <2>1. PICK g \in T : TRUE
    BY <1>7
  <2>2. \A h \in T : h \in S /\ h.pts <= p /\ h.pts \in Nat
    BY <1>2, <1>5 DEF Named
  <2>3. PICK h \in T : h.pts = p
    BY <1>7, <1>6, <2>1, <2>2
  <2>4. T \in SUBSET Frame /\ T # {} /\ \A f \in T : f.pts < n
    BY <1>2, <2>1, <2>2
  <2> HIDE DEF T
  <2>5. Last(T) \in T /\ h.pts <= Last(T).pts
    BY <1>2, <2>4, LastIsLast
  <2>6. QED
    BY <2>2, <2>3, <2>5 DEF T
<1>8. QED
  BY <1>6, <1>7

LEMMA LossLeavesNothing ==
  ASSUME WindowAssumption,
         NEW win, NEW log, WindowInv(win, log), Dating(win, log),
         NEW now \in Nat, \A q \in 0 .. win.nextPts - 1 : log[q].count < now,
         NEW p \in 0 .. win.nextPts - 1, log[p].sent,
         now - log[p].count < IdMod \div 2
  PROVE  \A f \in Valid(Invalidate(win, Id(log[p].count)).w) :
            p \notin log[f.pts].chain
<1> DEFINE n == win.nextPts
           id == Id(log[p].count)
           v == Invalidate(win, id).w
           named == Named(win.recent, id)
<1>1. /\ win \in Window /\ NamesCoded(win, log) /\ Queues(win)
      /\ Chains(win, log) /\ LeftOut(win, log)
  BY DEF WindowInv
<1>2. /\ Held(win) \in SUBSET Frame /\ Valid(win) \in SUBSET Held(win)
      /\ win.recent \in SUBSET Frame
      /\ win.frames \in SUBSET Frame /\ win.frames \in SUBSET Held(win)
      /\ n \in Nat /\ win.keyPts \in Nat
      /\ \A g \in Held(win) \cup win.recent :
            /\ g.pts \in 0 .. n - 1 /\ g.pts < n /\ g.pts \in Nat
            /\ g.id = Id(log[g.pts].count)
  BY <1>1, HeldFrames DEF NamesCoded, Frame, Held
<1>3. /\ \A q \in 0 .. n - 1 : log[q].count \in Nat
      /\ \A f \in Valid(win) : log[f.pts].chain \subseteq win.keyPts .. f.pts
      /\ \A f \in Held(win) : f.pts >= win.keyPts
  BY <1>1, <1>2, Counts DEF NamesCoded, Chains
<1>4. \A f \in Valid(v) : f \in Valid(win)
  BY AnswersKeep, ZenonT(60) DEF Less
<1>5. \A S \in SUBSET (Held(win) \cup win.recent) : Unbroken(S, n) =>
          /\ \A g \in S : g.pts <= p => \E h \in Named(S, id) : h.pts = p
          /\ Named(S, id) # {} =>
                  Last(Named(S, id)) \in S /\ Last(Named(S, id)).pts = p
  BY ReportedIsNamed
<1>6. ASSUME NEW S \in SUBSET (Held(win) \cup win.recent), Unbroken(S, n),
              NEW g \in S, g.pts <= p
       PROVE  \E h \in Named(S, id) : h.pts = p
  BY <1>5, <1>6
<1>7. ASSUME NEW S \in SUBSET (Held(win) \cup win.recent),
             Named(S, id) # {}, Unbroken(S, n)
      PROVE  Last(Named(S, id)) \in S /\ Last(Named(S, id)).pts = p
  BY <1>5, <1>7
\* Where it is older than a queue's front, its id is dated before the front.
<1>8. ASSUME NEW S \in SUBSET (Held(win) \cup win.recent), S # {},
             \A g \in S : g.pts > p, p >= win.keyPts
      PROVE  Dated(win, id) /\ Behind(win, id) > Behind(win, First(S).id)
  <2> DEFINE f == First(S)
             a == log[p].count
             b == log[n - 1].count
             c == log[f.pts].count
  <2>1. f \in S /\ f.pts \in 0 .. n - 1 /\ f.pts > p /\ f.id = Id(c)
    <3>1. S \in SUBSET Frame
      BY <1>2
    <3>2. f \in S
      BY <1>8, <3>1, FirstIsFirst
    <3>3. QED
      BY <1>2, <1>8, <3>2
  <2> HIDE DEF f
  <2>2. /\ n - 1 \in 0 .. n - 1 /\ n > 0 /\ p \in win.keyPts .. n - 1
        /\ f.pts < n - 1 \/ f.pts = n - 1
    BY <1>2, <1>8, <2>1
  <2>3. a \in Nat /\ b \in Nat /\ c \in Nat /\ b < now
    BY <1>3, <2>1, <2>2
  <2>4. a < c /\ c <= b /\ win.newest = Id(b)
    BY <2>1, <2>2, <2>3 DEF Dating
  <2> DEFINE since == win.sinceKey
  <2>5. b - a < IdMod \div 2 /\ b - c < IdMod \div 2
    BY <2>3, <2>4, HalfIds
  <2>6. b - a <= since
    BY <2>2, <2>5 DEF Dating
  <2> HIDE DEF a, b, c, since
  <2>7. WrappingSub(Id(b), Id(a)) = b - a /\ WrappingSub(Id(b), Id(c)) = b - c
    BY <2>3, <2>4, <2>5, BehindByCount
  <2>8. Behind(win, id) = b - a /\ Behind(win, f.id) = b - c
    BY <2>1, <2>4, <2>7 DEF Behind, a
  <2>9. Behind(win, id) > Behind(win, f.id)
    BY <2>3, <2>4, <2>8
  <2>10. QED
    BY <2>5, <2>6, <2>8, <2>9 DEF Dated, f, since
\* Leaving out from the loss or from the key frame on leaves nothing after it.
<1>9. ASSUME NEW from \in Nat, NEW all \in BOOLEAN, from <= p \/ from = win.keyPts,
             v = Leave(win, from, all).w
      PROVE  \A f \in Valid(v) : p \notin log[f.pts].chain
  <2> DEFINE cut == IF all THEN 0 ELSE from
             u == Leave(win, from, all).w
  <2>1. v \in Window
    BY AnswersKeep DEF WindowInv
  <2>2. u.frames = MarkLost(win.frames, cut) /\ u.anchors = MarkAnchors(win.anchors, cut)
    BY <1>1 DEF Leave, Answer, Window
  <2> HIDE DEF u, v
  <2>3. Valid(v) = {f \in Valid(win) : f.pts < cut}
    BY <1>1, <1>9, <2>1, <2>2, LeftHeld DEF u
  <2> SUFFICES ASSUME NEW f \in Valid(v) PROVE p \notin log[f.pts].chain
    OBVIOUS
  <2>4. f \in Valid(win) /\ f.pts < cut /\ f.pts \in Nat /\ f.pts >= win.keyPts
    BY <1>2, <1>3, <2>3
  <2>5. cut = from /\ from <= p
    BY <1>2, <1>9, <2>4
  <2>6. p > f.pts /\ log[f.pts].chain \subseteq win.keyPts .. f.pts
    BY <1>3, <2>4, <2>5
  <2>7. QED
    BY <2>4, <2>6
<1>10. CASE p < win.keyPts
  <2> SUFFICES ASSUME NEW f \in Valid(v) PROVE p \notin log[f.pts].chain
    OBVIOUS
  <2>1. log[f.pts].chain \subseteq win.keyPts .. f.pts
    BY <1>3, <1>4
  <2>2. p \notin win.keyPts .. f.pts
    BY <1>2, <1>10
  <2>3. QED
    BY <2>1, <2>2
\* Where nothing is held any more, nothing is left to predict from.
<1>11. CASE Held(win) = {}
  BY <1>2, <1>4, <1>11
<1>12. CASE named # {} /\ Last(named).lost
  <2>1. Last(named) \in win.recent /\ Last(named).pts = p
    BY <1>1, <1>7, <1>12 DEF Queues
  <2>2. \A f \in Valid(win) : p \notin log[f.pts].chain
    BY <1>1, <1>12, <2>1 DEF LeftOut
  <2>3. QED
    BY <1>4, <2>2
<1>13. Ignored(win).w = win
  BY DEF Ignored, Answer
<1>14. CASE p >= win.keyPts /\ ~(named # {} /\ Last(named).lost) /\ Anchored
                            /\ Held(win) # {}
  <2>1. v = InvalidateAnchored(win, id).w
    BY <1>14 DEF Invalidate
  <2>2. Unbroken(win.recent, n) /\ win.recent # {}
    BY <1>1, <1>14 DEF Queues
  <2>3. CASE named # {}
    <3> DEFINE from == Last(named).pts
    <3>1. from = p
      BY <1>7, <2>2, <2>3
    <3>2. v = Leave(win, p, WrapCovered(win, p)).w
      BY <1>2, <1>14, <2>1, <2>3, <3>1 DEF InvalidateAnchored
    <3>3. WrapCovered(win, p) \in BOOLEAN /\ p \in Nat
      BY DEF WrapCovered
    <3>4. QED
      BY <1>9, <3>2, <3>3
  <2>4. CASE named = {}
    <3>1. \A g \in win.recent : g.pts > p
      BY <1>2, <1>6, <2>2, <2>4
    <3>2. Dated(win, id) /\ Behind(win, id) > Behind(win, First(win.recent).id)
      BY <1>8, <1>14, <2>2, <3>1
    <3>3. v = Leave(win, win.keyPts, WrapCovered(win, win.keyPts)).w
      BY <1>2, <2>1, <2>2, <2>4, <3>2 DEF InvalidateAnchored
    <3>4. WrapCovered(win, win.keyPts) \in BOOLEAN
      BY DEF WrapCovered
    <3>5. QED
      BY <1>2, <1>9, <3>3, <3>4
  <2>5. QED
    BY <2>3, <2>4
<1>15. CASE p >= win.keyPts /\ ~(named # {} /\ Last(named).lost) /\ ~Anchored
                            /\ Held(win) # {}
  <2> DEFINE mine == Named(win.frames, id)
  <2>1. v = InvalidateRecent(win, id).w
    BY <1>15 DEF Invalidate
  <2>2. AnchorSlots = {}
    BY <1>15 DEF WindowAssumption, Anchored, AnchorSlots
  <2>3. Held(win) = win.frames /\ win.frames # {} /\ Unbroken(win.frames, n)
    <3>1. DOMAIN win.anchors = {}
      BY <1>1, <2>2 DEF Window
    <3>2. QED
      BY <1>1, <1>15, <3>1 DEF Held, AnchorFrames, Queues
  <2>4. CASE mine # {}
    <3>1. Last(mine).pts = p
      BY <1>2, <1>7, <2>3, <2>4
    <3>2. PICK all \in BOOLEAN : v = Leave(win, p, all).w
      BY <2>1, <2>3, <2>4, <3>1 DEF InvalidateRecent
    <3>3. QED
      BY <1>2, <1>9, <3>2
  <2>5. CASE mine = {}
    <3>1. \A g \in win.frames : g.pts > p
      BY <1>2, <1>6, <2>3, <2>5
    <3>2. Dated(win, id) /\ Behind(win, id) > Behind(win, First(win.frames).id)
      BY <1>2, <1>8, <1>15, <2>3, <3>1
    <3>3. v = Leave(win, win.keyPts, TRUE).w
      BY <2>1, <2>3, <2>5, <3>2 DEF InvalidateRecent
    <3>4. QED
      BY <1>2, <1>9, <3>3
  <2>6. QED
    BY <2>4, <2>5
<1>16. QED
  BY <1>2, <1>10, <1>12, <1>14, <1>15, <1>11
-----------------------------------------------------------------------------
(* The inductive step.                                                     *)

\* The part of the invariant about a window, its log and the losses.
Sound(win, log, gone) ==
    /\ WindowInv(win, log) /\ Dating(win, log) /\ Clear(win, log, gone)
    /\ gone \in SUBSET (0 .. win.nextPts - 1)

LEMMA LessSound ==
  ASSUME NEW win, NEW v, NEW log, NEW gone, Sound(win, log, gone),
         WindowInv(v, log), Less(v, win)
  PROVE  Sound(v, log, gone)
BY DEF Sound, Less, Dating, Clear

\* A window that differs in neither its frames nor its dates.
LEMMA SameFramesSound ==
  ASSUME NEW win, NEW v \in Window, NEW log, NEW gone, Sound(win, log, gone),
         v.frames = win.frames, v.anchors = win.anchors, v.recent = win.recent,
         v.nextPts = win.nextPts, v.newest = win.newest,
         v.keyPts = win.keyPts, v.sinceKey = win.sinceKey
  PROVE  Sound(v, log, gone)
<1>1. Held(v) = Held(win) /\ Valid(v) = Valid(win)
  BY DEF Held, Valid, AnchorFrames
<1>2. WindowInv(v, log)
  BY <1>1 DEF Sound, WindowInv, NamesCoded, Queues, Chains, LeftOut
<1>3. QED
  BY <1>1, <1>2, LessSound DEF Less

LEMMA PreparedSound ==
  ASSUME WindowAssumption,
         IInv, NEW refuses \in BOOLEAN
  PROVE  LET s == Prepared(refuses)
         IN  /\ Sound(s.w, coded, lost) /\ s.w.nextPts = w.nextPts
             /\ s.key \in BOOLEAN /\ Due(s.w, coded, count)
<1> DEFINE s == Prepared(refuses)
<1>1. Sound(w, coded, lost) /\ forceIdr \in BOOLEAN /\ count \in Nat
  BY DEF IInv, TypeOK, Sound
<1>2. WindowInv(s.w, coded) /\ Less(s.w, w) /\ s.key \in BOOLEAN
  BY <1>1, PreparedKeeps DEF Sound
<1> HIDE DEF s
<1>3. Sound(s.w, coded, lost) /\ s.w.nextPts = w.nextPts
  BY <1>1, <1>2, LessSound DEF Less
<1>4. \A p \in 0 .. w.nextPts - 1 : coded[p].count \in Nat
  BY <1>1, Counts DEF Sound
<1>5. Due(s.w, coded, count)
  BY <1>1, <1>3, <1>4 DEF Due, IInv
<1>6. QED
  BY <1>2, <1>3, <1>5 DEF s

LEMMA CodedSound ==
  ASSUME WindowAssumption,
         NEW win, NEW log, NEW gone, Sound(win, log, gone), Due(win, log, count),
         count \in Nat,
         NEW key \in BOOLEAN, NEW slot, NEW named, NEW sent \in BOOLEAN
  PROVE  LET v == Record(win, Id(count), key, slot)
             new == Logged(log, win, key, named, sent)
         IN  /\ Sound(v, new, gone) /\ v.nextPts = win.nextPts + 1
             /\ v.nextPts \in Nat /\ v.nextPts > 0
             /\ \A p \in 0 .. v.nextPts - 1 : new[p].count <= count
             /\ ~sent => Due(v, new, count)
<1> DEFINE n == win.nextPts
           v == Record(win, Id(count), key, slot)
           new == Logged(log, win, key, named, sent)
<1>1. /\ WindowInv(v, new) /\ Clear(v, new, gone) /\ v.nextPts = n + 1
      /\ Dating(v, new)
  BY RecordKeeps, RecordDates DEF Sound
<1>2. n \in Nat
  BY Counts DEF Sound
<1>3. gone \in SUBSET (0 .. n)
  BY <1>2 DEF Sound
<1>4. /\ new[n].count = count /\ new[n].sent = sent
      /\ \A p \in 0 .. n - 1 : new[p] = log[p]
  BY <1>2 DEF Logged, NextCoded
<1> HIDE DEF v, new
<1>5. /\ \A p \in 0 .. n : new[p].count <= count
      /\ ~sent => \A p \in 0 .. n : new[p].sent => new[p].count < count
  <2> SUFFICES ASSUME NEW p \in 0 .. n
               PROVE  /\ new[p].count <= count
                      /\ ~sent /\ new[p].sent => new[p].count < count
    OBVIOUS
  <2>1. CASE p = n
    BY <1>4, <2>1
  <2>2. CASE p # n
    BY <1>2, <1>4, <2>2 DEF Due
  <2>3. QED
    BY <2>1, <2>2
<1>6. v.nextPts - 1 = n /\ v.nextPts \in Nat /\ v.nextPts > 0
  BY <1>1, <1>2
<1>7. QED
  BY <1>1, <1>3, <1>5, <1>6 DEF Sound, Due, v, new

\* A first coding taken back, or a key frame left in place, keeps the rest.
LEMMA TakenBackSound ==
  ASSUME WindowAssumption,
         NEW first, NEW log, NEW gone, Sound(first, log, gone), first.nextPts > 0,
         NEW key \in BOOLEAN
  PROVE  LET back == TakenBack(first, key)
         IN  Sound(back, log, gone) /\ back.nextPts = first.nextPts
<1> DEFINE back == TakenBack(first, key)
<1>1. WindowInv(Retract(first), log) /\ Less(Retract(first), first)
  BY AnswersKeep DEF Sound
<1>2. back \in {first, Retract(first)}
  BY DEF TakenBack
<1> HIDE DEF back
<1>3. Sound(Retract(first), log, gone) /\ Retract(first).nextPts = first.nextPts
  BY <1>1, LessSound DEF Less
<1>4. QED
  BY <1>2, <1>3 DEF back

LEMMA AcknowledgeSound ==
  ASSUME NEW win, NEW log, NEW gone, Sound(win, log, gone), NEW id, NEW held \in BOOLEAN
  PROVE  /\ Sound(Acknowledge(win, id, held), log, gone)
         /\ Acknowledge(win, id, held).nextPts = win.nextPts
<1> DEFINE v == Acknowledge(win, id, held)
           named == Named(win.recent, id)
           p == Last(named).pts
<1>1. win \in Window /\ \A r \in win.recent : r.pts < win.nextPts
  BY DEF Sound, WindowInv, NamesCoded
<1>2. named # {} => p \in Nat
  <2>1. named \in SUBSET Frame /\ \A f \in named : f.pts < win.nextPts
        /\ win.nextPts \in Nat
    BY <1>1 DEF Named, Window
  <2>2. named # {} => Last(named) \in named
    BY <2>1, LastIsLast
  <2>3. QED
    BY <2>1, <2>2 DEF Frame
<1>3. \/ v = SetAcknowledged(win)
      \/ /\ p \in Nat
         /\ \/ v = [SetAcknowledged(win) EXCEPT !.common =
                        NewestPts(win.common \cup {p}, RecentFrames)]
            \/ v = [SetAcknowledged(win) EXCEPT !.sent =
                        NewestPts(win.sent \cup {p}, RecentFrames)]
  BY <1>2 DEF Acknowledge
<1> HIDE DEF v, p, named
<1>4. p \in Nat => /\ NewestPts(win.common \cup {p}, RecentFrames) \in SUBSET Nat
                   /\ NewestPts(win.sent \cup {p}, RecentFrames) \in SUBSET Nat
  BY <1>1 DEF NewestPts, Window
<1>5. /\ v \in Window
      /\ v.frames = win.frames /\ v.anchors = win.anchors /\ v.recent = win.recent
      /\ v.nextPts = win.nextPts /\ v.newest = win.newest
      /\ v.keyPts = win.keyPts /\ v.sinceKey = win.sinceKey
  BY <1>1, <1>3, <1>4, ZenonT(60) DEF SetAcknowledged, Window
<1>6. QED
  BY <1>5, SameFramesSound DEF v

\* A window that holds and remembers nothing.
LEMMA EmptySound ==
  ASSUME NEW v \in Window, NEW log, NEW gone,
         v.frames = {}, v.recent = {}, v.anchors = [i \in AnchorSlots |-> NoFrame],
         v.keyPts <= v.nextPts, log \in [0 .. v.nextPts - 1 -> Coded],
         Chains(v, log), Dating(v, log), gone \in SUBSET (0 .. v.nextPts - 1)
  PROVE  Sound(v, log, gone)
<1>1. Held(v) = {} /\ Valid(v) = {}
  BY DEF Held, Valid, AnchorFrames
<1>2. NamesCoded(v, log)
  BY <1>1, FS_EmptySet DEF NamesCoded
<1>3. Queues(v) /\ LeftOut(v, log) /\ Clear(v, log, gone)
  BY <1>1 DEF Queues, Unbroken, LeftOut, Clear
<1>4. QED
  BY <1>2, <1>3 DEF Sound, WindowInv

LEMMA CapacityType ==
  ASSUME WindowAssumption,
         NEW buffer \in Nat
  PROVE  Beside(buffer) \in Nat
BY DEF WindowAssumption, Beside

LEMMA ResetSound ==
  ASSUME WindowAssumption,
         NEW win, NEW log, NEW gone, Sound(win, log, gone), NEW buffer \in Nat
  PROVE  LET v == Reset(SetCapacity(win, buffer))
         IN  Sound(v, log, gone) /\ v.nextPts = win.nextPts
<1> DEFINE v == Reset(SetCapacity(win, buffer))
<1>1. /\ win \in Window /\ win.keyPts <= win.nextPts
      /\ log \in [0 .. win.nextPts - 1 -> Coded]
      /\ Chains(win, log) /\ Dating(win, log)
  BY DEF Sound, WindowInv, NamesCoded
<1>2. /\ v \in Window
      /\ v.frames = {} /\ v.recent = {} /\ v.anchors = [i \in AnchorSlots |-> NoFrame]
      /\ v.nextPts = win.nextPts /\ v.newest = win.newest
      /\ v.keyPts = win.keyPts /\ v.sinceKey = win.sinceKey
  <2>1. PICK c, S : /\ c \in Nat
                     /\ SetCapacity(win, buffer) =
                            [win EXCEPT !.capacity = c, !.frames = S]
    BY <1>1, CapacityType DEF SetCapacity, Trim, Window
  <2>2. v = [win EXCEPT !.capacity = c, !.frames = {}, !.recent = {},
                        !.anchors = [i \in AnchorSlots |-> NoFrame],
                        !.common = {}, !.sent = {}]
    BY <1>1, <2>1 DEF Reset, Window
  <2>3. c \in Nat
    BY <2>1
  <2> HIDE DEF v
  <2>4. QED
    BY <1>1, <2>2, <2>3 DEF Window
<1> HIDE DEF v
<1>3. Chains(v, log) /\ Dating(v, log)
  BY <1>1, <1>2 DEF Chains, Dating
<1>4. QED
  BY <1>1, <1>2, <1>3, EmptySound DEF Sound, v

LEMMA InitIInv ==
  ASSUME WindowAssumption, SessionAssumption, Init
  PROVE  IInv
<1>1. PICK buffer \in Buffers, acknowledged \in BOOLEAN : w = NewWindow(buffer, acknowledged)
  BY DEF Init
<1>2. buffer \in Nat
  BY DEF SessionAssumption
<1>3. /\ w \in Window /\ w.frames = {} /\ w.recent = {}
      /\ w.anchors = [i \in AnchorSlots |-> NoFrame]
      /\ w.nextPts = 0 /\ w.keyPts = 0 /\ w.sinceKey = 0
  BY <1>1, <1>2, CapacityType DEF WindowAssumption, NewWindow, Window, Ids
<1>4. 0 .. w.nextPts - 1 = {} /\ lost = {}
  BY <1>3 DEF Init
<1>5. coded \in [0 .. w.nextPts - 1 -> Coded]
  BY <1>4 DEF Init
<1>6. Chains(w, coded) /\ Dating(w, coded)
  <2>1. w.keyPts .. w.nextPts - 1 = {}
    BY <1>3
  <2>2. Chains(w, coded)
    BY <1>4, <2>1 DEF Chains
  <2>3. ~(w.nextPts > 0)
    BY <1>3
  <2>4. Dating(w, coded)
    BY <1>4, <2>3 DEF Dating
  <2>5. QED
    BY <2>2, <2>4
<1>7. lost \in SUBSET (0 .. w.nextPts - 1) /\ w.keyPts <= w.nextPts
  BY <1>3, <1>4
<1>8. Sound(w, coded, lost)
  BY <1>3, <1>5, <1>6, <1>7, EmptySound
<1>9. QED
  BY <1>3, <1>4, <1>5, <1>8 DEF SessionAssumption, Sound, IInv, TypeOK, Init

\* What a step owes: the new window sound, the counts behind the capture's.
LEMMA SoundStep ==
  ASSUME Sound(w', coded', lost'), count' \in Nat, forceIdr' \in BOOLEAN, events' \in Nat,
         \A p \in 0 .. w'.nextPts - 1 : coded'[p].count < count'
  PROVE  IInv'
BY DEF Sound, WindowInv, IInv, TypeOK

\* A step that codes nothing: the window, sound, counts as many frames.
LEMMA NothingCoded ==
  ASSUME IInv, NEW gone, Sound(w', coded, gone), w'.nextPts = w.nextPts,
         coded' = coded, lost' = gone, count' \in {count, count + 1},
         forceIdr' \in BOOLEAN, events' \in Nat
  PROVE  IInv'
<1>1. count \in Nat /\ \A p \in 0 .. w.nextPts - 1 :
                            coded[p].count \in Nat /\ coded[p].count < count
  BY Counts DEF IInv, TypeOK
<1>2. count' \in Nat /\ \A p \in 0 .. w'.nextPts - 1 : coded'[p].count < count'
  BY <1>1
<1>3. QED
  BY <1>2, SoundStep

\* A step that codes: every count is behind the capture's next one.
LEMMA SomeCoded ==
  ASSUME IInv, Sound(w', coded', lost), lost' = lost, count' = count + 1,
         \A p \in 0 .. w'.nextPts - 1 : coded'[p].count <= count,
         forceIdr' \in BOOLEAN, events' \in Nat
  PROVE  IInv'
<1>1. count \in Nat /\ \A p \in 0 .. w'.nextPts - 1 : coded'[p].count \in Nat
  BY DEF IInv, TypeOK, Sound, WindowInv, Coded
<1>2. \A p \in 0 .. w'.nextPts - 1 : coded'[p].count < count'
  BY <1>1
<1>3. QED
  BY <1>1, <1>2, SoundStep

LEMMA NextIInv ==
  ASSUME WindowAssumption, SessionAssumption, IInv, [Next]_vars
  PROVE  IInv'
<1>1. /\ Sound(w, coded, lost) /\ forceIdr \in BOOLEAN
      /\ count \in Nat /\ events \in Nat /\ events + 1 \in Nat
  BY DEF IInv, TypeOK, Sound
<1>2. CASE EncodeFrame
  <2>1. PICK refuses \in BOOLEAN :
            LET s == Prepared(refuses)
            IN  /\ w' = Record(s.w, Id(count), s.key, PlanAnchor(s.w, s.key))
                /\ coded' = Logged(coded, s.w, s.key, PredictingAnchor(s.w, s.key), TRUE)
    BY <1>2 DEF EncodeFrame
  <2> DEFINE s == Prepared(refuses)
  <2>2. Sound(s.w, coded, lost) /\ s.key \in BOOLEAN /\ Due(s.w, coded, count)
    BY PreparedSound
  <2> HIDE DEF s
  <2>3. /\ Sound(w', coded', lost)
        /\ \A p \in 0 .. w'.nextPts - 1 : coded'[p].count <= count
    BY <1>1, <2>1, <2>2, CodedSound, ZenonT(60) DEF s
  <2>4. QED
    BY <1>1, <1>2, <2>3, SomeCoded DEF EncodeFrame
<1>3. CASE EncodeOwnKey
  <2> DEFINE s == Prepared(FALSE)
  <2>1. /\ w' = Record(s.w, Id(count), TRUE, PlanAnchor(s.w, FALSE))
        /\ coded' = Logged(coded, s.w, TRUE, NoSlot, TRUE)
    BY <1>3 DEF EncodeOwnKey
  <2>2. Sound(s.w, coded, lost) /\ Due(s.w, coded, count)
    BY PreparedSound
  <2> HIDE DEF s
  <2>3. /\ Sound(w', coded', lost)
        /\ \A p \in 0 .. w'.nextPts - 1 : coded'[p].count <= count
    BY <1>1, <2>1, <2>2, CodedSound
  <2>4. QED
    BY <1>1, <1>3, <2>3, SomeCoded DEF EncodeOwnKey, Event
<1>4. CASE EncodeAgain
  <2> DEFINE s == Prepared(FALSE)
             slot == PlanAnchor(s.w, s.key)
             named == PredictingAnchor(s.w, s.key)
             first == Record(s.w, Id(count), s.key, slot)
             log == Logged(coded, s.w, s.key, named, FALSE)
             back == TakenBack(first, s.key)
  <2>1. /\ w' = Record(back, Id(count), s.key, slot)
        /\ coded' = Logged(log, back, s.key, named, TRUE)
    BY <1>4 DEF EncodeAgain
  <2>2. Sound(s.w, coded, lost) /\ s.key \in BOOLEAN /\ Due(s.w, coded, count)
    BY PreparedSound
  <2> HIDE DEF s, slot, named
  <2>3. Sound(first, log, lost) /\ first.nextPts > 0 /\ Due(first, log, count)
    BY <1>1, <2>2, CodedSound
  <2> HIDE DEF first, log
  <2>4. Sound(back, log, lost) /\ back.nextPts = first.nextPts
    BY <2>2, <2>3, TakenBackSound
  <2>5. Due(back, log, count)
    BY <2>3, <2>4 DEF Due
  <2> HIDE DEF back
  <2>6. /\ Sound(w', coded', lost)
        /\ \A p \in 0 .. w'.nextPts - 1 : coded'[p].count <= count
    BY <1>1, <2>1, <2>2, <2>4, <2>5, CodedSound, ZenonT(60)
  <2>7. QED
    BY <1>1, <1>4, <2>6, SomeCoded DEF EncodeAgain, Event
<1>5. CASE EncodeAgainFails
  <2> DEFINE s == Prepared(FALSE)
             slot == PlanAnchor(s.w, s.key)
             named == PredictingAnchor(s.w, s.key)
             first == Record(s.w, Id(count), s.key, slot)
  <2>1. /\ w' = TakenBack(first, s.key)
        /\ coded' = Logged(coded, s.w, s.key, named, FALSE)
    BY <1>5 DEF EncodeAgainFails
  <2>2. Sound(s.w, coded, lost) /\ s.key \in BOOLEAN /\ Due(s.w, coded, count)
    BY PreparedSound
  <2> HIDE DEF s, slot, named
  <2>3. /\ Sound(first, coded', lost) /\ first.nextPts > 0
        /\ \A p \in 0 .. first.nextPts - 1 : coded'[p].count <= count
    BY <1>1, <2>1, <2>2, CodedSound
  <2> HIDE DEF first
  <2>4. Sound(w', coded', lost) /\ w'.nextPts = first.nextPts
    BY <2>1, <2>2, <2>3, TakenBackSound
  <2>5. QED
    BY <1>1, <1>5, <2>3, <2>4, SomeCoded DEF EncodeAgainFails, Event
<1>6. CASE EncodeFails
  <2>1. PICK refuses \in BOOLEAN : w' = Prepared(refuses).w
    BY <1>6 DEF EncodeFails
  <2>2. Sound(w', coded, lost) /\ w'.nextPts = w.nextPts
    BY <2>1, PreparedSound
  <2>3. QED
    BY <1>1, <1>6, <2>2, NothingCoded DEF EncodeFails, Event
<1>7. CASE SkipFrame \/ RequestIdr
  BY <1>1, <1>7, NothingCoded DEF SkipFrame, RequestIdr, Event
<1>8. CASE ReportLost
  <2>1. PICK p \in Reportable, refuses \in BOOLEAN :
            LET a == Invalidate(w, Id(coded[p].count)) IN
            /\ w' = a.w
            /\ lost' = lost \cup {p}
            /\ forceIdr' = (forceIdr \/ (a.asks = "Forget" /\ refuses))
    BY <1>8 DEF ReportLost
  <2>2. p \in 0 .. w.nextPts - 1 /\ coded[p].sent /\ count - coded[p].count < IdMod \div 2
    BY <1>1 DEF Reportable, Sound, WindowInv
  <2>3. WindowInv(w', coded) /\ Less(w', w)
    BY <1>1, <2>1, AnswersKeep DEF Sound
  <2>4. Sound(w', coded, lost)
    BY <1>1, <2>3, LessSound
  <2>5. \A f \in Valid(w') : p \notin coded[f.pts].chain
    BY <1>1, <2>1, <2>2, LossLeavesNothing DEF IInv
  <2>6. Sound(w', coded, lost') /\ w'.nextPts = w.nextPts
    BY <2>1, <2>2, <2>3, <2>4, <2>5 DEF Sound, Clear, Less
  <2>7. forceIdr' \in BOOLEAN
    BY <1>1, <2>1
  <2>8. QED
    BY <1>1, <1>8, <2>6, <2>7, NothingCoded DEF ReportLost, Event
<1>9. CASE ReportHeld
  <2>1. PICK p \in Reportable, kind \in Reports \ {"Lost"} :
            w' = Acknowledge(w, Id(coded[p].count), kind = "Held")
    BY <1>9 DEF ReportHeld
  <2>2. Sound(w', coded, lost) /\ w'.nextPts = w.nextPts
    BY <1>1, <2>1, AcknowledgeSound
  <2>3. QED
    BY <1>1, <1>9, <2>2, NothingCoded DEF ReportHeld, Event
<1>10. CASE ResetStream
  <2>1. PICK buffer \in Buffers : w' = Reset(SetCapacity(w, buffer))
    BY <1>10 DEF ResetStream
  <2>2. Sound(w', coded, lost) /\ w'.nextPts = w.nextPts
    BY <1>1, <2>1, ResetSound DEF SessionAssumption
  <2>3. QED
    BY <1>1, <1>10, <2>2, NothingCoded DEF ResetStream, Event
<1>11. CASE UNCHANGED vars
  BY <1>1, <1>11, NothingCoded DEF vars
<1>12. QED
  BY <1>2, <1>3, <1>4, <1>5, <1>6, <1>7, <1>8, <1>9, <1>10, <1>11 DEF Next

-----------------------------------------------------------------------------

\* The session's state keeps its types.
THEOREM SessionTypes ==
  ASSUME WindowAssumption, SessionAssumption
  PROVE  Spec => []TypeOK
<1>1. IInv => TypeOK
  BY DEF IInv
<1>2. Init => IInv
  BY InitIInv
<1>3. IInv /\ [Next]_vars => IInv'
  BY NextIInv
<1>4. QED
  BY <1>1, <1>2, <1>3, PTL DEF Spec

\* No frame the next one may predict from depends on a frame a consumer
\* reported lost, whatever the buffer, the anchors, the ids' width and the
\* order of frames, failures, restarts and reports.
THEOREM LossesArePredictedPast ==
  ASSUME WindowAssumption, SessionAssumption
  PROVE  Spec => []NoPredictionThroughLoss
<1>1. IInv => NoPredictionThroughLoss
  BY DEF IInv, Clear, NoPredictionThroughLoss
<1>2. Init => IInv
  BY InitIInv
<1>3. IInv /\ [Next]_vars => IInv'
  BY NextIInv
<1>4. QED
  BY <1>1, <1>2, <1>3, PTL DEF Spec

\* The frames remembered and the frames held agree about which are left out.
THEOREM RecentAgreesWithHeld ==
  ASSUME WindowAssumption, SessionAssumption
  PROVE  Spec => []RecentAgrees
<1>1. IInv => RecentAgrees
  BY DEF IInv, WindowInv, NamesCoded, RecentAgrees
<1>2. Init => IInv
  BY InitIInv
<1>3. IInv /\ [Next]_vars => IInv'
  BY NextIInv
<1>4. QED
  BY <1>1, <1>2, <1>3, PTL DEF Spec
-----------------------------------------------------------------------------
(* The recent frames and the anchors share one buffer.                     *)

ValidAnchors(win) == {a \in AnchorFrames(win) : ~a.lost}
OnePerPts(S) == \A f, g \in S : f.pts = g.pts => f = g

\* The window holds each frame once, and no more than the decoder keeps.
Bounded(win) ==
    /\ IsFiniteSet(win.frames) /\ OnePerPts(win.frames)
    /\ Cardinality(win.frames) + Cardinality(ValidAnchors(win))
            <= win.capacity + AnchorCount

LEMMA AnchorsAreFew ==
  ASSUME WindowAssumption,
         NEW win \in Window
  PROVE  /\ AnchorFrames(win) \in SUBSET Frame /\ IsFiniteSet(AnchorFrames(win))
         /\ IsFiniteSet(ValidAnchors(win)) /\ Cardinality(ValidAnchors(win)) \in Nat
         /\ RecentCapacity(win) + Cardinality(ValidAnchors(win))
                <= win.capacity + AnchorCount
<1> DEFINE free == {i \in AnchorSlots : win.anchors[i] = NoFrame \/ win.anchors[i].lost}
           used == AnchorSlots \ free
           at == [i \in used |-> win.anchors[i]]
<1>1. DOMAIN win.anchors = AnchorSlots
  BY DEF Window
<1>2. /\ IsFiniteSet(AnchorSlots) /\ Cardinality(AnchorSlots) = AnchorCount
      /\ AnchorCount \in Nat
  BY FS_Interval DEF WindowAssumption, AnchorSlots
<1>3. AnchorFrames(win) \in SUBSET Frame
  BY DEF AnchorFrames, Window
<1>4. IsFiniteSet(AnchorFrames(win))
  <2> DEFINE S == {win.anchors[i] : i \in AnchorSlots}
  <2>1. [i \in AnchorSlots |-> win.anchors[i]] \in Surjection(AnchorSlots, S)
    BY DEF Surjection
  <2>2. IsFiniteSet(S)
    BY <1>2, <2>1, FS_Surjection
  <2>3. AnchorFrames(win) \in SUBSET S
    BY <1>1 DEF AnchorFrames
  <2>4. QED
    BY <2>2, <2>3, FS_Subset
<1>5. IsFiniteSet(ValidAnchors(win)) /\ Cardinality(ValidAnchors(win)) \in Nat
  BY <1>4, ValidAnchors(win) \in SUBSET AnchorFrames(win), FS_Subset, FS_CardinalityType
     DEF ValidAnchors
<1>6. at \in Surjection(used, ValidAnchors(win))
  <2>1. \A i \in used : win.anchors[i] \in ValidAnchors(win)
    BY <1>1 DEF ValidAnchors, AnchorFrames
  <2>2. \A a \in ValidAnchors(win) : \E i \in used : at[i] = a
    BY <1>1 DEF ValidAnchors, AnchorFrames
  <2>3. QED
    BY <2>1, <2>2 DEF Surjection
<1>7. IsFiniteSet(used) /\ Cardinality(used) = AnchorCount - Cardinality(free)
      /\ IsFiniteSet(free) /\ Cardinality(free) \in Nat /\ Cardinality(free) <= AnchorCount
  <2>1. free \in SUBSET AnchorSlots
    OBVIOUS
  <2> HIDE DEF free
  <2>2. IsFiniteSet(free) /\ Cardinality(free) \in Nat /\ Cardinality(free) <= AnchorCount
    BY <1>2, <2>1, FS_Subset, FS_CardinalityType
  <2>3. AnchorSlots \cap free = free
    BY <2>1
  <2>4. QED
    BY <1>2, <2>2, <2>3, FS_Difference
<1>8. Cardinality(ValidAnchors(win)) <= AnchorCount - Cardinality(free)
  BY <1>6, <1>7, FS_Surjection
<1>9. RecentCapacity(win) = win.capacity + IF Lends THEN Cardinality(free) ELSE 0
  BY DEF RecentCapacity
<1> HIDE DEF free
<1>10. win.capacity \in Nat
  BY DEF Window
<1>11. QED
  BY <1>2, <1>3, <1>4, <1>5, <1>7, <1>8, <1>9, <1>10

\* A queue cut to n, of frames coded one at a time, has at most n.
LEMMA NewestAreFew ==
  ASSUME NEW S \in SUBSET Frame, IsFiniteSet(S), OnePerPts(S), NEW n \in Nat
  PROVE  /\ IsFiniteSet(Newest(S, n)) /\ Cardinality(Newest(S, n)) \in Nat
         /\ Cardinality(Newest(S, n)) <= n
<1> DEFINE T == Newest(S, n)
<1>1. T \in SUBSET S /\ IsFiniteSet(T)
  BY NewestOfSet
<1>2. Cardinality(T) \in Nat
  BY <1>1, FS_CardinalityType
<1>3. CASE T = {}
  BY <1>3, FS_EmptySet
<1>4. CASE T # {}
  <2> DEFINE f == First(T)
             above == {g \in S : g.pts > f.pts}
  <2>1. f \in T /\ \A g \in T : f.pts <= g.pts
    BY <1>1, <1>4, FirstIsFirst
  <2> HIDE DEF f
  <2>2. Cardinality(above) < n
    BY <2>1 DEF Newest
  <2>3. T \ {f} \in SUBSET above
    <3> SUFFICES ASSUME NEW g \in T, g # f PROVE g \in above
      OBVIOUS
    <3>1. g \in S /\ f \in S /\ g \in Frame /\ f \in Frame
      BY <1>1, <2>1
    <3>2. g.pts # f.pts
      BY <3>1 DEF OnePerPts
    <3>3. g.pts > f.pts
      BY <2>1, <3>1, <3>2 DEF Frame
    <3>4. QED
      BY <3>1, <3>3
  <2>4. IsFiniteSet(above) /\ Cardinality(above) \in Nat
    BY above \in SUBSET S, FS_Subset, FS_CardinalityType
  <2>5. Cardinality(T \ {f}) <= Cardinality(above)
    BY <2>3, <2>4, FS_Subset
  <2>6. Cardinality(T \ {f}) = Cardinality(T) - 1
    BY <1>1, <2>1, FS_RemoveElement
  <2> HIDE DEF T, above
  <2>7. Cardinality(T) <= n
    BY <1>2, <2>2, <2>4, <2>5, <2>6
  <2>8. QED
    BY <1>1, <1>2, <2>7 DEF T
<1>5. QED
  BY <1>1, <1>2, <1>3, <1>4

\* A window just trimmed is bounded.
LEMMA TrimmedBounded ==
  ASSUME WindowAssumption,
         NEW v \in Window, NEW S \in SUBSET Frame, IsFiniteSet(S), OnePerPts(S),
         v.frames = Newest(S, RecentCapacity(v))
  PROVE  Bounded(v)
<1>1. RecentCapacity(v) \in Nat /\ v.capacity \in Nat /\ AnchorCount \in Nat
  BY RecentCapacityType DEF WindowAssumption, Window
<1>2. /\ IsFiniteSet(v.frames) /\ Cardinality(v.frames) \in Nat
      /\ Cardinality(v.frames) <= RecentCapacity(v)
  BY <1>1, NewestAreFew
<1>3. OnePerPts(v.frames)
  BY DEF Newest, OnePerPts
<1>4. /\ Cardinality(ValidAnchors(v)) \in Nat
      /\ RecentCapacity(v) + Cardinality(ValidAnchors(v)) <= v.capacity + AnchorCount
  BY AnchorsAreFew
<1>5. QED
  BY <1>1, <1>2, <1>3, <1>4 DEF Bounded

LEMMA LeftBounded ==
  ASSUME WindowAssumption,
         NEW win \in Window, Bounded(win), NEW cut \in Nat, NEW rcut \in Nat, NEW v,
         Left(v, win, cut, rcut)
  PROVE  Bounded(v)
<1>1. /\ v \in Window /\ v.frames = MarkLost(win.frames, cut)
      /\ v.anchors = MarkAnchors(win.anchors, cut) /\ v.capacity = win.capacity
  BY LeftFields
<1>2. win.frames \in SUBSET Frame /\ win.capacity \in Nat /\ AnchorCount \in Nat
  BY DEF WindowAssumption, Window
<1>3. /\ IsFiniteSet(v.frames) /\ Cardinality(v.frames) \in Nat
      /\ Cardinality(win.frames) \in Nat
      /\ Cardinality(v.frames) <= Cardinality(win.frames)
  <2> DEFINE m == [f \in win.frames |-> LostFrom(f, cut)]
  <2>1. m \in Surjection(win.frames, v.frames)
    BY <1>1 DEF Surjection, MarkLost
  <2>2. QED
    BY <2>1, FS_Surjection, FS_CardinalityType DEF Bounded
<1>4. OnePerPts(v.frames)
  <2> SUFFICES ASSUME NEW f \in v.frames, NEW g \in v.frames, f.pts = g.pts PROVE f = g
    BY DEF OnePerPts
  <2>1. PICK x \in win.frames : f = LostFrom(x, cut)
    BY <1>1 DEF MarkLost
  <2>2. PICK y \in win.frames : g = LostFrom(y, cut)
    BY <1>1 DEF MarkLost
  <2>3. x.pts = f.pts /\ y.pts = g.pts
    BY <1>2, <2>1, <2>2, LostFromFrame
  <2>4. x = y
    BY <2>3 DEF Bounded, OnePerPts
  <2>5. QED
    BY <2>1, <2>2, <2>4
<1>5. ValidAnchors(v) \in SUBSET ValidAnchors(win)
  <2>1. AnchorFrames(v) = MarkLost(AnchorFrames(win), cut)
    BY <1>1, LeftAnchors
  <2>2. AnchorFrames(win) \in SUBSET Frame
    BY AnchorsAreFew
  <2>3. QED
    BY <2>1, <2>2, LostFromFrame DEF ValidAnchors, MarkLost
<1>6. /\ Cardinality(ValidAnchors(v)) \in Nat /\ Cardinality(ValidAnchors(win)) \in Nat
      /\ Cardinality(ValidAnchors(v)) <= Cardinality(ValidAnchors(win))
  BY <1>1, <1>5, AnchorsAreFew, FS_Subset
<1>7. QED
  BY <1>1, <1>2, <1>3, <1>4, <1>6 DEF Bounded

LEMMA AnswersBounded ==
  ASSUME WindowAssumption,
         NEW win, NEW log, WindowInv(win, log), Bounded(win)
  PROVE  /\ \A id : Bounded(Invalidate(win, id).w)
         /\ Bounded(Settle(win).w) /\ Bounded(ForgetStale(win).w)
         /\ win.nextPts > 0 => Bounded(Retract(win))
<1>1. win \in Window /\ \A f \in Held(win) \cup win.recent : f.pts < win.nextPts
  BY DEF WindowInv, NamesCoded
<1>2. ASSUME NEW v, v = win \/ \E cut, rcut \in Nat : Left(v, win, cut, rcut)
      PROVE  Bounded(v)
  BY <1>1, <1>2, LeftBounded
<1>3. \A id : Bounded(Invalidate(win, id).w)
  BY <1>1, <1>2, InvalidateLeft
<1>4. Bounded(Settle(win).w) /\ Bounded(ForgetStale(win).w)
  BY <1>1, <1>2, SettleLeft
<1>5. win.nextPts > 0 => Bounded(Retract(win))
  BY <1>1, <1>2, RetractLeft
<1>6. QED
  BY <1>3, <1>4, <1>5

LEMMA PreparedBounded ==
  ASSUME WindowAssumption,
         WindowInv(w, coded), Bounded(w), forceIdr \in BOOLEAN, NEW refuses \in BOOLEAN
  PROVE  Bounded(Prepared(refuses).w)
<1> DEFINE key == forceIdr \/ ~HasReference(w)
           a == Settled(w, key, refuses)
           s == Prepared(refuses)
<1>1. a.w \in {w, Settle(w).w}
  BY DEF Settled, Applied, Stage
<1>2. s.w \in {a.w, ForgetStale(a.w).w}
  BY DEF Prepared, Refreshed, Applied, Stage
<1> HIDE DEF a, s
<1>3. WindowInv(a.w, coded) /\ Bounded(a.w)
  BY <1>1, AnswersKeep, AnswersBounded
<1>4. Bounded(s.w)
  BY <1>2, <1>3, AnswersBounded
<1>5. QED
  BY <1>4 DEF s

LEMMA RecordBounded ==
  ASSUME WindowAssumption,
         NEW win, NEW log, WindowInv(win, log), Bounded(win), count \in Nat,
         NEW key \in BOOLEAN, NEW slot
  PROVE  Bounded(Record(win, Id(count), key, slot))
<1> DEFINE f == NextFrame(win, Id(count))
           kept == IF key THEN {} ELSE win.frames
           v == Record(win, Id(count), key, slot)
<1>1. /\ win \in Window /\ IsFiniteSet(win.frames) /\ Id(count) \in Ids
      /\ \A r \in win.recent : r.pts < win.nextPts
      /\ \A g \in win.frames : g.pts < win.nextPts
      /\ win.frames \in SUBSET Frame /\ win.nextPts \in Nat
  BY ModType, HeldFrames DEF WindowInv, NamesCoded, Id, Held
<1>2. Recorded(v, win, Id(count), key, slot)
  BY <1>1, RecordFields
<1> HIDE DEF v
<1>3. PICK S \in SUBSET (kept \cup {f}) : v.frames = Newest(S, RecentCapacity(v))
  BY <1>2 DEF Recorded
<1>4. v \in Window /\ f \in Frame /\ f.pts = win.nextPts
  BY <1>2 DEF Recorded, NextFrame
<1> HIDE DEF f
<1>5. IsFiniteSet(kept \cup {f}) /\ kept \cup {f} \in SUBSET Frame
  BY <1>1, <1>4, FS_EmptySet, FS_AddElement
<1>6. OnePerPts(kept \cup {f})
  BY <1>1, <1>4 DEF OnePerPts, Bounded, Frame
<1>7. IsFiniteSet(S) /\ S \in SUBSET Frame /\ OnePerPts(S)
  BY <1>3, <1>5, <1>6, FS_Subset DEF OnePerPts
<1>8. QED
  BY <1>3, <1>4, <1>7, TrimmedBounded DEF v

LEMMA SameFramesBounded ==
  ASSUME NEW win, Bounded(win), NEW v, v.frames = win.frames, v.anchors = win.anchors,
         v.capacity = win.capacity
  PROVE  Bounded(v)
BY DEF Bounded, ValidAnchors, AnchorFrames

LEMMA AcknowledgeBounded ==
  ASSUME NEW win \in Window, Bounded(win), NEW id, NEW held \in BOOLEAN
  PROVE  Bounded(Acknowledge(win, id, held))
<1> DEFINE v == Acknowledge(win, id, held)
<1>1. v.frames = win.frames /\ v.anchors = win.anchors /\ v.capacity = win.capacity
  BY DEF Acknowledge, SetAcknowledged, Window
<1>2. QED
  BY <1>1, SameFramesBounded

LEMMA EmptyBounded ==
  ASSUME WindowAssumption,
         NEW v \in Window, v.frames = {}, v.anchors = [i \in AnchorSlots |-> NoFrame]
  PROVE  Bounded(v)
<1>1. ValidAnchors(v) = {}
  BY DEF ValidAnchors, AnchorFrames
<1>2. v.capacity \in Nat /\ AnchorCount \in Nat
  BY DEF WindowAssumption, Window
<1>3. QED
  BY <1>1, <1>2, FS_EmptySet DEF Bounded, OnePerPts

LEMMA ResetBounded ==
  ASSUME WindowAssumption,
         NEW win, NEW log, NEW gone, Sound(win, log, gone), NEW buffer \in Nat
  PROVE  Bounded(Reset(SetCapacity(win, buffer)))
<1> DEFINE v == Reset(SetCapacity(win, buffer))
<1>1. v \in Window
  BY ResetSound DEF Sound, WindowInv
<1>2. v.frames = {} /\ v.anchors = [i \in AnchorSlots |-> NoFrame]
  BY DEF Reset, SetCapacity, Trim, Sound, WindowInv, Window
<1>3. QED
  BY <1>1, <1>2, EmptyBounded

LEMMA InitBounded ==
  ASSUME WindowAssumption, SessionAssumption, Init
  PROVE  Bounded(w)
<1>1. w \in Window
  BY InitIInv DEF IInv, WindowInv
<1>2. w.frames = {} /\ w.anchors = [i \in AnchorSlots |-> NoFrame]
  BY DEF Init, NewWindow
<1>3. QED
  BY <1>1, <1>2, EmptyBounded

LEMMA NextBounded ==
  ASSUME WindowAssumption, SessionAssumption, IInv, Bounded(w), [Next]_vars
  PROVE  Bounded(w')
<1>1. /\ Sound(w, coded, lost) /\ WindowInv(w, coded) /\ w \in Window
      /\ forceIdr \in BOOLEAN /\ count \in Nat
  BY DEF IInv, TypeOK, Sound
<1>2. ASSUME NEW refuses \in BOOLEAN
      PROVE  /\ Sound(Prepared(refuses).w, coded, lost)
             /\ WindowInv(Prepared(refuses).w, coded)
             /\ Bounded(Prepared(refuses).w) /\ Prepared(refuses).key \in BOOLEAN
             /\ Due(Prepared(refuses).w, coded, count)
  BY <1>1, PreparedSound, PreparedBounded DEF Sound
<1>3. CASE EncodeFrame
  <2>1. PICK refuses \in BOOLEAN :
            LET s == Prepared(refuses)
            IN  w' = Record(s.w, Id(count), s.key, PlanAnchor(s.w, s.key))
    BY <1>3 DEF EncodeFrame
  <2> DEFINE s == Prepared(refuses)
  <2>2. WindowInv(s.w, coded) /\ Bounded(s.w) /\ s.key \in BOOLEAN
    BY <1>2
  <2> HIDE DEF s
  <2>3. QED
    BY <1>1, <2>1, <2>2, RecordBounded DEF s
<1>4. CASE EncodeOwnKey
  <2> DEFINE s == Prepared(FALSE)
  <2>1. w' = Record(s.w, Id(count), TRUE, PlanAnchor(s.w, FALSE))
    BY <1>4 DEF EncodeOwnKey
  <2>2. WindowInv(s.w, coded) /\ Bounded(s.w)
    BY <1>2
  <2> HIDE DEF s
  <2>3. QED
    BY <1>1, <2>1, <2>2, RecordBounded
<1>5. CASE EncodeAgain \/ EncodeAgainFails
  <2> DEFINE s == Prepared(FALSE)
             slot == PlanAnchor(s.w, s.key)
             named == PredictingAnchor(s.w, s.key)
             first == Record(s.w, Id(count), s.key, slot)
             log == Logged(coded, s.w, s.key, named, FALSE)
             back == TakenBack(first, s.key)
  <2>1. w' = Record(back, Id(count), s.key, slot) \/ w' = back
    BY <1>5 DEF EncodeAgain, EncodeAgainFails
  <2>2. /\ WindowInv(s.w, coded) /\ Bounded(s.w) /\ s.key \in BOOLEAN
        /\ Sound(s.w, coded, lost) /\ Due(s.w, coded, count)
    BY <1>2
  <2> HIDE DEF s, slot, named
  <2>3. Bounded(first) /\ Sound(first, log, lost) /\ first.nextPts > 0
    BY <1>1, <2>2, RecordBounded, CodedSound
  <2> HIDE DEF first, log
  <2>4. Bounded(Retract(first))
    BY <2>3, AnswersBounded DEF Sound
  <2>5. Bounded(back) /\ Sound(back, log, lost)
    BY <2>2, <2>3, <2>4, TakenBackSound DEF TakenBack
  <2> HIDE DEF back
  <2>6. Bounded(Record(back, Id(count), s.key, slot))
    BY <1>1, <2>2, <2>5, RecordBounded DEF Sound
  <2>7. QED
    BY <2>1, <2>5, <2>6
<1>6. CASE EncodeFails
  BY <1>2, <1>6 DEF EncodeFails
<1>7. CASE SkipFrame \/ RequestIdr \/ UNCHANGED vars
  BY <1>7 DEF SkipFrame, RequestIdr, vars
<1>8. CASE ReportLost
  BY <1>1, <1>8, AnswersBounded DEF ReportLost
<1>9. CASE ReportHeld
  BY <1>1, <1>9, AcknowledgeBounded DEF ReportHeld
<1>10. CASE ResetStream
  BY <1>1, <1>10, ResetBounded DEF SessionAssumption, ResetStream
<1>11. QED
  BY <1>3, <1>4, <1>5, <1>6, <1>7, <1>8, <1>9, <1>10 DEF Next

\* The window never counts on more frames than the decoder keeps: what an
\* anchor lends to the recent frames is taken back as it is marked.
THEOREM WindowWithinBuffer ==
  ASSUME WindowAssumption, SessionAssumption
  PROVE  Spec => []WithinBuffer
<1>1. Bounded(w) => WithinBuffer
  BY DEF Bounded, ValidAnchors, WithinBuffer
<1>2. Init => IInv /\ Bounded(w)
  BY InitIInv, InitBounded
<1>3. IInv /\ Bounded(w) /\ [Next]_vars => IInv' /\ Bounded(w)'
  BY NextIInv, NextBounded
<1>4. QED
  BY <1>1, <1>2, <1>3, PTL DEF Spec

-----------------------------------------------------------------------------
(* Reports of what is left out already, and of what the anchor spares.     *)

\* ReportedIsNamed, for one set of frames.
LEMMA LastReported ==
  ASSUME WindowAssumption,
         NEW win, NEW log, WindowInv(win, log), Dating(win, log),
         NEW now \in Nat, \A q \in 0 .. win.nextPts - 1 : log[q].count < now,
         NEW p \in 0 .. win.nextPts - 1, log[p].sent,
         now - log[p].count < IdMod \div 2,
         NEW S \in SUBSET (Held(win) \cup win.recent), Unbroken(S, win.nextPts),
         Named(S, Id(log[p].count)) # {}
  PROVE  Last(Named(S, Id(log[p].count))) \in S /\ Last(Named(S, Id(log[p].count))).pts = p
<1> DEFINE id == Id(log[p].count)
<1>1. \A T \in SUBSET (Held(win) \cup win.recent) : Unbroken(T, win.nextPts) =>
          /\ \A g \in T : g.pts <= p => \E h \in Named(T, id) : h.pts = p
          /\ Named(T, id) # {} =>
                  Last(Named(T, id)) \in T /\ Last(Named(T, id)).pts = p
  BY ReportedIsNamed
<1>2. QED
  BY <1>1

\* What is remembered under the id of a reportable frame that is remembered.
LEMMA ReportedIsRemembered ==
  ASSUME WindowAssumption,
         IInv, NEW p \in Reportable, NEW r \in w.recent, r.pts = p
  PROVE  LET named == Named(w.recent, Id(coded[p].count))
         IN  named # {} /\ Last(named) = r
<1> DEFINE named == Named(w.recent, Id(coded[p].count))
<1>1. /\ WindowInv(w, coded) /\ Dating(w, coded) /\ count \in Nat
      /\ NamesCoded(w, coded) /\ Queues(w)
      /\ \A q \in 0 .. w.nextPts - 1 : coded[q].count < count
  BY DEF IInv, TypeOK, WindowInv
<1>2. p \in 0 .. w.nextPts - 1 /\ coded[p].sent /\ count - coded[p].count < IdMod \div 2
  BY <1>1 DEF Reportable, WindowInv
<1>3. r \in named
  BY <1>1 DEF NamesCoded, Named
<1>4. /\ w.recent \in SUBSET (Held(w) \cup w.recent) /\ Unbroken(w.recent, w.nextPts)
      /\ Named(w.recent, Id(coded[p].count)) # {}
  BY <1>1, <1>3 DEF Queues
<1>5. Last(named) \in w.recent /\ Last(named).pts = p
  BY <1>1, <1>2, <1>4, LastReported
<1>6. QED
  BY <1>1, <1>3, <1>5 DEF NamesCoded

LEMMA RepeatsNothing ==
  ASSUME WindowAssumption, IInv
  PROVE  RepeatedReport
<1>1. ASSUME NEW p \in Reportable, NEW r \in w.recent, r.pts = p, r.lost
      PROVE  Invalidate(w, Id(coded[p].count)).w = w
  BY <1>1, ReportedIsRemembered DEF Invalidate, Ignored, Answer
<1>2. QED
  BY <1>1 DEF RepeatedReport

\* A frame reported lost twice costs nothing the second time: it is told by
\* its id from the frame after the loss, and what recovered is kept.
THEOREM LostTwiceIsLostOnce ==
  ASSUME WindowAssumption, SessionAssumption
  PROVE  Spec => []RepeatedReport
<1>1. IInv => RepeatedReport
  BY RepeatsNothing
<1>2. Init => IInv
  BY InitIInv
<1>3. IInv /\ [Next]_vars => IInv'
  BY NextIInv
<1>4. QED
  BY <1>1, <1>2, <1>3, PTL DEF Spec

-----------------------------------------------------------------------------
(* The anchor every consumer holds.                                        *)

\* Slot `i` of the window holds frame `q`, which every consumer holds.
Pinning(win, i, q) ==
    /\ i \in AnchorSlots /\ win.anchors[i] # NoFrame /\ ~win.anchors[i].lost
    /\ win.anchors[i].pts = q
    /\ win.acknowledged /\ (q = win.keyPts \/ q \in win.common)

LEMMA PinningFrame ==
  ASSUME WindowAssumption,
         NEW win \in Window, NEW i, NEW q, Pinning(win, i, q)
  PROVE  /\ win.anchors[i] \in Valid(win) /\ win.anchors[i] \in Frame /\ q \in Nat
         /\ IsCommon(win, q) /\ Anchored
<1>1. win.anchors[i] \in Frame /\ i \in DOMAIN win.anchors
  BY DEF Window, Pinning
<1>2. win.anchors[i] \in Valid(win)
  BY <1>1 DEF Pinning, Valid, Held, AnchorFrames
<1>3. Anchored
  BY DEF WindowAssumption, Pinning, Anchored, AnchorSlots
<1>4. QED
  BY <1>1, <1>2, <1>3 DEF Pinning, Frame, IsCommon

\* The newest anchor of those common, for a codec without frame_num.
LEMMA PinnedIsNewest ==
  ASSUME NEW win \in Window, \A f \in Held(win) : f.pts < win.nextPts,
         FrameNumRange = 0
  PROVE  /\ PinnedAnchor(win) # NoSlot =>
                Pinning(win, PinnedAnchor(win), PinnedPts(win))
         /\ \A i, q : Pinning(win, i, q) =>
                PinnedAnchor(win) # NoSlot /\ PinnedPts(win) >= q
<1> DEFINE C == CommonAnchors(win)
           T == {win.anchors[i] : i \in C}
           best(i) == i \in C /\ \A j \in C : win.anchors[j].pts <= win.anchors[i].pts
<1>1. /\ C \in SUBSET AnchorSlots
      /\ \A i \in AnchorSlots :
            i \in C <=> (/\ win.anchors[i] # NoFrame /\ ~win.anchors[i].lost
                        /\ \/ win.anchors[i].pts = win.keyPts
                           \/ win.anchors[i].pts \in win.common)
  <2>1. \A pts : ~Kept(win, pts)
    BY DEF Kept
  <2>2. \A pts : IsCommon(win, pts) <=> pts = win.keyPts \/ pts \in win.common
    BY <2>1 DEF IsCommon
  <2>3. QED
    BY <2>2 DEF CommonAnchors
<1>2. /\ T \in SUBSET Frame /\ \A f \in T : f.pts < win.nextPts
      /\ win.nextPts \in Nat
  <2>1. \A i \in C : i \in DOMAIN win.anchors /\ win.anchors[i] \in Frame
    BY <1>1 DEF Window
  <2>2. \A i \in C : win.anchors[i] \in Held(win)
    BY <1>1, <2>1 DEF Held, AnchorFrames
  <2>3. QED
    BY <2>1, <2>2 DEF Window
<1> HIDE DEF C
<1>3. C # {} => \E i : best(i)
  <2> SUFFICES ASSUME C # {} PROVE \E i : best(i)
    OBVIOUS
  <2>1. T # {}
    OBVIOUS
  <2>2. Last(T) \in T /\ \A g \in T : g.pts <= Last(T).pts
    BY <1>2, <2>1, LastIsLast
  <2>3. PICK i \in C : Last(T) = win.anchors[i]
    BY <2>2
  <2>4. QED
    BY <2>2, <2>3
<1>4. win.acknowledged /\ C # {} =>
          PinnedAnchor(win) \in C /\ best(PinnedAnchor(win))
  <2>1. win.acknowledged /\ C # {} => PinnedAnchor(win) = CHOOSE i \in C :
            \A j \in C : win.anchors[j].pts <= win.anchors[i].pts
    BY DEF PinnedAnchor, C
  <2>2. QED
    BY <1>3, <2>1
<1>5. PinnedAnchor(win) # NoSlot <=> win.acknowledged /\ C # {}
  <2>1. NoSlot \notin AnchorSlots
    BY DEF NoSlot, AnchorSlots
  <2>2. ~(win.acknowledged /\ C # {}) => PinnedAnchor(win) = NoSlot
    BY DEF PinnedAnchor, C
  <2>3. QED
    BY <1>1, <1>4, <2>1, <2>2
<1>6. ASSUME NEW i, NEW q, Pinning(win, i, q)
      PROVE  PinnedAnchor(win) # NoSlot /\ PinnedPts(win) >= q
  <2>1. win.acknowledged /\ i \in C /\ win.anchors[i].pts = q
    BY <1>1, <1>6 DEF Pinning
  <2>2. best(PinnedAnchor(win))
    BY <1>4, <2>1
  <2>3. win.anchors[i].pts <= PinnedPts(win)
    BY <2>1, <2>2 DEF PinnedPts
  <2>4. q \in Nat /\ PinnedPts(win) \in Nat
    BY <1>2, <2>1, <2>2 DEF PinnedPts, Frame
  <2>5. QED
    BY <1>5, <2>1, <2>3, <2>4
<1>7. PinnedAnchor(win) # NoSlot => Pinning(win, PinnedAnchor(win), PinnedPts(win))
  <2> SUFFICES ASSUME PinnedAnchor(win) # NoSlot
               PROVE  Pinning(win, PinnedAnchor(win), PinnedPts(win))
    OBVIOUS
  <2>1. PICK i \in C : i = PinnedAnchor(win)
    BY <1>4, <1>5
  <2>2. i \in AnchorSlots /\ win.acknowledged
    BY <1>1, <1>5
  <2>3. QED
    BY <1>1, <2>1, <2>2 DEF Pinning, PinnedPts
<1>8. QED
  BY <1>6, <1>7

\* What is left out after the anchor leaves it in, and asks for no key frame.
LEMMA LeaveSpares ==
  ASSUME WindowAssumption,
         NEW win \in Window, NEW i, NEW q, Pinning(win, i, q), NEW from \in Nat, from > q
  PROVE  /\ Leave(win, from, FALSE).asks # "KeyFrame"
         /\ Pinning(Leave(win, from, FALSE).w, i, q)
<1> DEFINE gone == [win EXCEPT !.frames = MarkLost(win.frames, from),
                               !.anchors = MarkAnchors(win.anchors, from)]
           key == Anchored /\ ~HasReference(gone)
           v == Leave(win, from, FALSE).w
<1>1. /\ gone.anchors = MarkAnchors(win.anchors, from)
      /\ DOMAIN gone.anchors = AnchorSlots
  BY DEF Window, MarkAnchors
<1>2. i \in AnchorSlots /\ win.anchors[i] \in Frame /\ q \in Nat
  BY PinningFrame DEF Pinning
<1>3. /\ LostFrom(win.anchors[i], from) \in Frame
      /\ LostFrom(win.anchors[i], from).pts = q
      /\ ~LostFrom(win.anchors[i], from).lost
  BY <1>2, LostFromFrame DEF Pinning
<1>4. gone.anchors[i] = LostFrom(win.anchors[i], from)
  BY <1>1, <1>2 DEF MarkAnchors, Pinning
<1>5. gone.anchors[i] # NoFrame
  BY <1>3, <1>4 DEF WindowAssumption
<1>6. gone.anchors[i] \in Valid(gone)
  BY <1>1, <1>2, <1>3, <1>4, <1>5 DEF Valid, Held, AnchorFrames
<1>7. ~key
  BY <1>6 DEF HasReference
<1>8. Leave(win, from, FALSE).asks = "Forget"
  BY <1>7 DEF Leave, Answer
<1>9. /\ v.anchors = gone.anchors /\ v.acknowledged = win.acknowledged
      /\ v.keyPts = win.keyPts /\ v.common = win.common
  BY DEF Leave, Answer, Window
<1>10. QED
  BY <1>3, <1>4, <1>5, <1>8, <1>9 DEF Pinning

LEMMA InvalidateSpares ==
  ASSUME WindowAssumption,
         NEW win \in Window, \A r \in win.recent : r.pts < win.nextPts,
         FrameNumRange = 0, NEW i, NEW q, Pinning(win, i, q),
         NEW id, NEW r \in Named(win.recent, id), r.pts > q
  PROVE  /\ Invalidate(win, id).asks # "KeyFrame"
         /\ Pinning(Invalidate(win, id).w, i, q)
<1> DEFINE named == Named(win.recent, id)
           from == Last(named).pts
<1>1. named \in SUBSET Frame /\ named # {} /\ win.nextPts \in Nat
      /\ \A f \in named : f.pts < win.nextPts
  BY DEF Named, Window
<1>2. Last(named) \in named /\ r.pts <= from /\ from \in Nat /\ r.pts \in Nat
  <2>1. Last(named) \in named /\ \A g \in named : g.pts <= Last(named).pts
    BY <1>1, LastIsLast
  <2>2. QED
    BY <1>1, <2>1 DEF Frame
<1>3. q \in Nat /\ Anchored
  BY PinningFrame
<1>4. from > q
  BY <1>2, <1>3
<1>5. ~WrapCovered(win, from)
  BY DEF WrapCovered
<1>6. Invalidate(win, id) \in {Ignored(win), Leave(win, from, FALSE)}
  <2>1. WrapCovered(win, from) = FALSE
    BY <1>5 DEF WrapCovered
  <2>2. QED
    BY <1>1, <1>3, <2>1 DEF Invalidate, InvalidateAnchored
<1>7. Ignored(win).asks # "KeyFrame" /\ Ignored(win).w = win
  BY DEF Ignored, Answer
<1>8. QED
  BY <1>2, <1>4, <1>6, <1>7, LeaveSpares

LEMMA SettleSpares ==
  ASSUME WindowAssumption,
         NEW win \in Window, \A f \in Held(win) \cup win.recent : f.pts < win.nextPts,
         FrameNumRange = 0, NEW i, NEW q, Pinning(win, i, q)
  PROVE  Pinning(Settle(win).w, i, q) /\ ForgetStale(win).w = win
<1> DEFINE candidates == Candidates(win)
           shared == Last(candidates).pts
           after == After(win, shared)
<1>1. Ignored(win).w = win
  BY DEF Ignored, Answer
<1>2. \/ Settle(win).w = win
      \/ after # {} /\ Settle(win) = Invalidate(win, First(after).id)
  BY <1>1 DEF Settle
<1>3. ForgetStale(win).w = win
  BY <1>1 DEF ForgetStale
<1>4. win.anchors[i] \in candidates /\ win.anchors[i].pts = q /\ q \in Nat
  BY PinningFrame DEF IsShared, Pinning, Candidates, Usable
<1>5. /\ candidates \in SUBSET Frame /\ win.nextPts \in Nat
      /\ \A f \in candidates : f.pts < win.nextPts
  <2>1. Valid(win) \in SUBSET Frame /\ Valid(win) \in SUBSET Held(win)
    BY HeldFrames
  <2>2. QED
    BY <2>1 DEF Window, Candidates
<1> HIDE DEF candidates
<1>6. shared \in Nat /\ q <= shared
  <2>1. candidates # {}
    BY <1>4
  <2>2. Last(candidates) \in candidates /\ \A g \in candidates : g.pts <= Last(candidates).pts
    BY <1>5, <2>1, LastIsLast
  <2>3. QED
    BY <1>4, <1>5, <2>2 DEF Frame
<1> HIDE DEF shared
<1>7. CASE after # {} /\ Settle(win) = Invalidate(win, First(after).id)
  <2>1. after \in SUBSET Frame
    BY DEF Window, After
  <2>2. First(after) \in after
    BY <1>7, <2>1, FirstIsFirst
  <2>3. /\ First(after) \in Named(win.recent, First(after).id)
        /\ First(after).pts > shared /\ First(after).pts \in Nat
    BY <2>1, <2>2 DEF Named, Frame, After
  <2>4. First(after).pts > q
    BY <1>4, <1>6, <2>3
  <2>5. Pinning(Invalidate(win, First(after).id).w, i, q)
    BY <2>3, <2>4, InvalidateSpares
  <2>6. QED
    BY <1>3, <1>7, <2>5
<1>8. QED
  BY <1>2, <1>3, <1>7

LEMMA PreparedSpares ==
  ASSUME WindowAssumption,
         IInv, FrameNumRange = 0, NEW i, NEW q, Pinning(w, i, q), NEW refuses \in BOOLEAN
  PROVE  Pinning(Prepared(refuses).w, i, q)
<1> DEFINE key == forceIdr \/ ~HasReference(w)
           a == Settled(w, key, refuses)
           s == Prepared(refuses)
<1>1. WindowInv(w, coded) /\ forceIdr \in BOOLEAN
  BY DEF IInv, TypeOK
<1>2. a.w \in {w, Settle(w).w}
  BY DEF Settled, Applied, Stage
<1>3. s.w \in {a.w, ForgetStale(a.w).w}
  BY DEF Prepared, Refreshed, Applied, Stage
<1> HIDE DEF a, s
<1>4. WindowInv(a.w, coded)
  BY <1>1, <1>2, AnswersKeep
<1>5. Pinning(a.w, i, q)
  BY <1>1, <1>2, SettleSpares DEF WindowInv, NamesCoded
<1>6. Pinning(s.w, i, q)
  BY <1>3, <1>4, <1>5, SettleSpares DEF WindowInv, NamesCoded
<1>7. QED
  BY <1>6 DEF s

\* The schedule of two anchors marks over neither of those pinned.
LEMMA PlanSparesPinned ==
  ASSUME WindowAssumption,
         NEW win \in Window, AnchorCount = 2, PinnedAnchor(win) # NoSlot,
         PinnedAnchor(win) \in AnchorSlots, win.anchors[PinnedAnchor(win)] \in Valid(win)
  PROVE  PlanAnchor(win, FALSE) # PinnedAnchor(win)
<1> DEFINE wraps == WrapsNext(win)
           open == {i \in AnchorSlots :
                        /\ AnchorCount = 1 \/ i # PinnedAnchor(win)
                        /\ wraps \/ ~Pending(win, win.anchors[i])}
           first == {i \in open : \A j \in open :
                            RankBefore(win.anchors[i], win.anchors[j])}
<1>1. HasReference(win) /\ AnchorFrames(win) # {} /\ Anchored
  <2>1. win.anchors[PinnedAnchor(win)] # NoFrame
    BY DEF WindowAssumption, Valid, Held, AnchorFrames, Window
  <2>2. DOMAIN win.anchors = AnchorSlots
    BY DEF Window
  <2>3. QED
    BY <2>1, <2>2 DEF HasReference, AnchorFrames, Anchored
<1>2. \/ PlanAnchor(win, FALSE) = NoSlot
      \/ open # {} /\ PlanAnchor(win, FALSE) = Min(first)
  BY <1>1 DEF PlanAnchor
<1>3. AnchorSlots = {0, 1}
  BY DEF AnchorSlots
<1>4. \A i \in open : i \in AnchorSlots /\ i # PinnedAnchor(win)
  OBVIOUS
<1> HIDE DEF open
<1>5. ASSUME open # {} PROVE Min(first) # PinnedAnchor(win)
  <2>1. PICK k \in open : TRUE
    BY <1>5
  <2>2. open = {k}
    BY <1>3, <1>4, <2>1
  <2>3. RankBefore(win.anchors[k], win.anchors[k])
    <3>1. win.anchors[k] \in Frame \cup {NoFrame}
      BY <1>4, <2>1 DEF Window
    <3>2. win.anchors[k] # NoFrame => win.anchors[k].pts \in Nat
      BY <3>1 DEF Frame
    <3>3. QED
      BY <3>2 DEF RankBefore
  <2>4. first = {k}
    BY <2>2, <2>3
  <2> HIDE DEF first
  <2>5. k \in Nat
    BY <1>3, <1>4, <2>1
  <2>6. Min(first) = k
    BY <2>4, <2>5 DEF Min
  <2>7. QED
    BY <1>4, <2>1, <2>6
<1>6. QED
  BY <1>2, <1>5

LEMMA RecordSpares ==
  ASSUME NEW win \in Window, NEW i, NEW q, Pinning(win, i, q), NEW id \in Ids,
         NEW slot, slot # i
  PROVE  Pinning(Record(win, id, FALSE, slot), i, q)
<1> DEFINE v == Record(win, id, FALSE, slot)
           f == NextFrame(win, id)
<1>1. /\ v.anchors = IF slot \in AnchorSlots THEN [win.anchors EXCEPT ![slot] = f]
                     ELSE win.anchors
      /\ v.acknowledged = win.acknowledged /\ v.common = win.common
      /\ v.keyPts = win.keyPts
  BY DEF Record, Trim, Window, NextFrame
<1> HIDE DEF v
<1>2. DOMAIN win.anchors = AnchorSlots
  BY DEF Window
<1>3. v.anchors[i] = win.anchors[i]
  BY <1>1, <1>2 DEF Pinning
<1>4. QED
  BY <1>1, <1>3 DEF Pinning, v

LEMMA RetractSpares ==
  ASSUME WindowAssumption,
         NEW win \in Window, NEW i, NEW q, Pinning(win, i, q), win.nextPts - 1 > q,
         NEW key \in BOOLEAN
  PROVE  Pinning(TakenBack(win, key), i, q)
<1> DEFINE v == Retract(win)
           cut == win.nextPts - 1
<1>1. /\ v.anchors = MarkAnchors(win.anchors, cut) /\ v.acknowledged = win.acknowledged
      /\ v.keyPts = win.keyPts /\ v.common = win.common
  BY DEF Retract, Window
<1>2. i \in AnchorSlots /\ win.anchors[i] \in Frame /\ q \in Nat
  BY PinningFrame DEF Pinning
<1>3. cut \in Nat /\ cut > q
  BY <1>2 DEF Window
<1> HIDE DEF cut
<1>4. /\ LostFrom(win.anchors[i], cut) \in Frame
      /\ LostFrom(win.anchors[i], cut).pts = q
      /\ ~LostFrom(win.anchors[i], cut).lost
  BY <1>2, <1>3, LostFromFrame DEF Pinning
<1>5. v.anchors[i] = LostFrom(win.anchors[i], cut)
  BY <1>1, <1>2 DEF MarkAnchors, Pinning
<1>6. v.anchors[i] # NoFrame
  BY <1>4, <1>5 DEF WindowAssumption
<1> HIDE DEF v
<1>7. Pinning(v, i, q)
  BY <1>1, <1>2, <1>4, <1>5, <1>6 DEF Pinning
<1>8. QED
  BY <1>7 DEF TakenBack, v

\* A set of naturals below a bound has a greatest member.
LEMMA GreatestNatural ==
  ASSUME NEW T \in SUBSET Nat, T # {}, NEW n \in Nat, \A k \in T : k <= n
  PROVE  \E m \in T : \A k \in T : k <= m
<1> DEFINE D == {n - k : k \in T}
<1>1. PICK m \in D : \A k \in D : m <= k
  BY LeastNatural, D \in SUBSET Nat, D # {}
<1>2. PICK k \in T : m = n - k
  OBVIOUS
<1>3. \A j \in T : n - k <= n - j
  BY <1>1, <1>2
<1>4. QED
  BY <1>3

\* Where keeping the notes short drops one, as many newer ones stay.
LEMMA NoteDropped ==
  ASSUME NEW S \in SUBSET Nat, NEW b \in Nat, \A k \in S : k <= b, NEW n \in Nat,
         NEW q \in S, q \notin NewestPts(S, n)
  PROVE  Cardinality({k \in NewestPts(S, n) : k > q}) >= n
<1> DEFINE above(k) == {j \in S : j > k}
           top == NewestPts(S, n)
           out == {k \in S : Cardinality(above(k)) >= n}
           kept == {k \in top : k > q}
<1>1. IsFiniteSet(S)
  BY FS_BoundedSetOfNaturals
<1>2. \A k \in S : /\ above(k) \in SUBSET S /\ IsFiniteSet(above(k))
                   /\ Cardinality(above(k)) \in Nat
  BY <1>1, FS_Subset, FS_CardinalityType
<1>3. top = {k \in S : Cardinality(above(k)) < n}
  BY DEF NewestPts
<1> HIDE DEF top
<1>4. q \in out
  BY <1>2, <1>3 DEF top
<1>5. PICK g \in out : \A k \in out : k <= g
  BY <1>4, GreatestNatural, out \in SUBSET Nat
<1>6. above(g) \in SUBSET kept
  <2> SUFFICES ASSUME NEW k \in above(g) PROVE k \in top /\ k > q
    OBVIOUS
  <2>1. k \in S /\ k > g /\ g >= q /\ k \in Nat /\ g \in Nat /\ q \in Nat
    BY <1>4, <1>5
  <2>2. k \notin out
    BY <1>5, <2>1
  <2>3. k \in top
    BY <1>2, <1>3, <2>1, <2>2
  <2>4. QED
    BY <2>1, <2>3
<1>7. IsFiniteSet(kept) /\ Cardinality(kept) \in Nat
  BY <1>1, <1>3, kept \in SUBSET S, FS_Subset, FS_CardinalityType
<1>8. Cardinality(above(g)) <= Cardinality(kept)
  BY <1>6, <1>7, FS_Subset
<1>9. Cardinality(above(g)) >= n /\ Cardinality(above(g)) \in Nat
  BY <1>2, <1>5
<1>10. QED
  BY <1>7, <1>8, <1>9 DEF top

\* Only frames coded are noted as held by every consumer.
Noted(win) == \A q \in win.common : q <= win.nextPts

LEMMA AnswersNoted ==
  ASSUME WindowAssumption,
         NEW win, NEW log, WindowInv(win, log)
  PROVE  /\ \A id : Invalidate(win, id).w.common = win.common
         /\ Settle(win).w.common = win.common /\ ForgetStale(win).w.common = win.common
         /\ win.nextPts > 0 => Retract(win).common = win.common
<1>1. win \in Window /\ \A f \in Held(win) \cup win.recent : f.pts < win.nextPts
  BY DEF WindowInv, NamesCoded
<1>2. ASSUME NEW v, v = win \/ \E cut, rcut \in Nat : Left(v, win, cut, rcut)
      PROVE  v.common = win.common
  BY <1>1, <1>2, LeftFields
<1>3. \A id : Invalidate(win, id).w.common = win.common
  BY <1>1, <1>2, InvalidateLeft
<1>4. Settle(win).w.common = win.common /\ ForgetStale(win).w.common = win.common
  BY <1>1, <1>2, SettleLeft
<1>5. win.nextPts > 0 => Retract(win).common = win.common
  BY <1>1, <1>2, RetractLeft
<1>6. QED
  BY <1>3, <1>4, <1>5

LEMMA PreparedNoted ==
  ASSUME WindowAssumption,
         IInv, Noted(w), NEW refuses \in BOOLEAN
  PROVE  Noted(Prepared(refuses).w)
<1> DEFINE key == forceIdr \/ ~HasReference(w)
           a == Settled(w, key, refuses)
           s == Prepared(refuses)
<1>1. WindowInv(w, coded) /\ forceIdr \in BOOLEAN /\ s.w.nextPts = w.nextPts
  BY PreparedSound DEF IInv, TypeOK
<1>2. a.w \in {w, Settle(w).w}
  BY DEF Settled, Applied, Stage
<1>3. s.w \in {a.w, ForgetStale(a.w).w}
  BY DEF Prepared, Refreshed, Applied, Stage
<1> HIDE DEF a, s
<1>4. WindowInv(a.w, coded) /\ a.w.common = w.common
  BY <1>1, <1>2, AnswersKeep, AnswersNoted
<1>5. s.w.common = w.common
  BY <1>3, <1>4, AnswersNoted
<1>6. QED
  BY <1>1, <1>5 DEF Noted, s

LEMMA RecordNoted ==
  ASSUME NEW win \in Window, Noted(win), NEW id \in Ids, NEW key \in BOOLEAN, NEW slot
  PROVE  Noted(Record(win, id, key, slot))
<1> DEFINE v == Record(win, id, key, slot)
<1>1. /\ v.nextPts = win.nextPts + 1
      /\ v.common = IF key THEN {} ELSE win.common
  BY DEF Record, Trim, Window
<1>2. win.nextPts \in Nat /\ win.common \in SUBSET Nat
  BY DEF Window
<1> HIDE DEF v
<1>3. QED
  BY <1>1, <1>2 DEF Noted, v

\* What an acknowledgement does to the notes.
LEMMA AcknowledgeNotes ==
  ASSUME NEW win, NEW log, WindowInv(win, log), NEW id, NEW held \in BOOLEAN
  PROVE  LET v == Acknowledge(win, id, held) IN
         /\ v.anchors = win.anchors /\ v.keyPts = win.keyPts /\ v.acknowledged
         /\ v.nextPts = win.nextPts
         /\ \/ v.common = win.common
            \/ \E p \in 0 .. win.nextPts - 1 :
                    v.common = NewestPts(win.common \cup {p}, RecentFrames)
<1> DEFINE v == Acknowledge(win, id, held)
           named == Named(win.recent, id)
           p == Last(named).pts
<1>1. win \in Window /\ \A r \in win.recent : r.pts < win.nextPts
  BY DEF WindowInv, NamesCoded
<1>2. named # {} => p \in 0 .. win.nextPts - 1
  <2>1. named \in SUBSET Frame /\ \A f \in named : f.pts < win.nextPts
        /\ win.nextPts \in Nat
    BY <1>1 DEF Named, Window
  <2>2. named # {} => Last(named) \in named
    BY <2>1, LastIsLast
  <2>3. QED
    BY <2>1, <2>2 DEF Frame
<1>3. \/ v = SetAcknowledged(win)
      \/ named # {} /\ v = [SetAcknowledged(win) EXCEPT !.common =
                        NewestPts(win.common \cup {p}, RecentFrames)]
      \/ v = [SetAcknowledged(win) EXCEPT !.sent =
                        NewestPts(win.sent \cup {p}, RecentFrames)]
  BY DEF Acknowledge
<1> HIDE DEF v, p, named
<1>4. QED
  BY <1>1, <1>2, <1>3 DEF SetAcknowledged, Window, v

LEMMA AcknowledgeSpares ==
  ASSUME WindowAssumption,
         NEW win, NEW log, WindowInv(win, log), Noted(win), NEW id, NEW held \in BOOLEAN
  PROVE  LET v == Acknowledge(win, id, held) IN
         /\ Noted(v)
         /\ \A i, q : Pinning(win, i, q) =>
                \/ Pinning(v, i, q)
                \/ Cardinality({k \in v.common : k > q}) >= RecentFrames
<1> DEFINE v == Acknowledge(win, id, held)
<1>1. /\ v.anchors = win.anchors /\ v.keyPts = win.keyPts /\ v.acknowledged
      /\ v.nextPts = win.nextPts
      /\ \/ v.common = win.common
         \/ \E p \in 0 .. win.nextPts - 1 :
                 v.common = NewestPts(win.common \cup {p}, RecentFrames)
  BY AcknowledgeNotes
<1>2. win.nextPts \in Nat /\ win.common \in SUBSET Nat /\ RecentFrames \in Nat
  BY DEF WindowAssumption, WindowInv, Window
<1> HIDE DEF v
<1>3. CASE v.common = win.common
  BY <1>1, <1>3 DEF Noted, Pinning, v
<1>4. CASE \E p \in 0 .. win.nextPts - 1 :
                 v.common = NewestPts(win.common \cup {p}, RecentFrames)
  <2>1. PICK p \in 0 .. win.nextPts - 1 :
                 v.common = NewestPts(win.common \cup {p}, RecentFrames)
    BY <1>4
  <2> DEFINE S == win.common \cup {p}
  <2>2. S \in SUBSET Nat /\ \A k \in S : k <= win.nextPts
    BY <1>2 DEF Noted
  <2>3. v.common \subseteq S
    BY <2>1 DEF NewestPts
  <2>4. Noted(v)
    BY <1>1, <2>2, <2>3 DEF Noted
  <2>5. ASSUME NEW i, NEW q, Pinning(win, i, q)
        PROVE  \/ Pinning(v, i, q)
               \/ Cardinality({k \in v.common : k > q}) >= RecentFrames
    <3>1. CASE q = win.keyPts \/ q \in v.common
      BY <1>1, <2>5, <3>1 DEF Pinning
    <3>2. CASE q \in S /\ q \notin v.common
      <4> HIDE DEF S
      <4>1. Cardinality({k \in NewestPts(S, RecentFrames) : k > q}) >= RecentFrames
        BY <1>2, <2>1, <2>2, <3>2, NoteDropped DEF S
      <4>2. QED
        BY <2>1, <4>1 DEF S
    <3>3. QED
      BY <2>5, <3>1, <3>2 DEF Pinning
  <2>6. QED
    BY <2>4, <2>5 DEF v
<1>5. QED
  BY <1>1, <1>3, <1>4

\* What is prepared for a frame still has as new an anchor, which the frame
\* planned, where it is no key frame, does not take.
LEMMA PlanPins ==
  ASSUME WindowAssumption,
         IInv, AnchorCount = 2, FrameNumRange = 0, PinnedAnchor(w) # NoSlot,
         NEW refuses \in BOOLEAN
  PROVE  LET s == Prepared(refuses)
         IN  /\ w.keyPts < w.nextPts
             /\ \E i, q : /\ Pinning(s.w, i, q) /\ q >= PinnedPts(w)
                          /\ q < s.w.nextPts /\ PlanAnchor(s.w, FALSE) # i
<1> DEFINE s == Prepared(refuses)
           i == PinnedAnchor(s.w)
           q == PinnedPts(s.w)
<1>1. /\ w \in Window /\ w.keyPts \in Nat /\ w.nextPts \in Nat
      /\ \A f \in Held(w) : f.pts < w.nextPts /\ f.pts >= w.keyPts
  BY DEF IInv, WindowInv, NamesCoded, Window
<1>2. Pinning(w, PinnedAnchor(w), PinnedPts(w))
  BY <1>1, PinnedIsNewest
<1>3. w.keyPts < w.nextPts
  <2>1. PICK f \in Held(w) : f \in Frame
    BY <1>1, <1>2, PinningFrame, HeldFrames
  <2>2. QED
    BY <1>1, <2>1 DEF Frame
<1>4. WindowInv(s.w, coded)
  BY PreparedSound DEF Sound
<1>5. Pinning(s.w, PinnedAnchor(w), PinnedPts(w))
  BY <1>2, PreparedSpares
<1> HIDE DEF s
<1>6. /\ s.w \in Window
      /\ \A f \in Held(s.w) : f.pts < s.w.nextPts
  BY <1>4 DEF WindowInv, NamesCoded
<1>7. i # NoSlot /\ q >= PinnedPts(w)
  BY <1>5, <1>6, PinnedIsNewest
<1>8. Pinning(s.w, i, q)
  BY <1>6, <1>7, PinnedIsNewest
<1>9. s.w.anchors[i] \in Valid(s.w) /\ i \in AnchorSlots
  BY <1>6, <1>8, PinningFrame DEF Pinning
<1>10. q < s.w.nextPts
  BY <1>6, <1>8, <1>9 DEF Pinning, Valid
<1>11. PlanAnchor(s.w, FALSE) # i
  BY <1>6, <1>7, <1>9, PlanSparesPinned
<1>12. QED
  BY <1>3, <1>7, <1>8, <1>10, <1>11 DEF s

LEMMA StepPins ==
  ASSUME WindowAssumption,
         IInv', FrameNumRange = 0, PinnedPts(w) \in Int,
         NEW i, NEW q \in Int, Pinning(w', i, q), q >= PinnedPts(w)
  PROVE  PinnedStep
<1>1. w' \in Window /\ \A f \in Held(w') : f.pts < w'.nextPts
  BY DEF IInv, WindowInv, NamesCoded
<1>2. /\ PinnedAnchor(w') # NoSlot /\ PinnedPts(w') >= q
      /\ Pinning(w', PinnedAnchor(w'), PinnedPts(w'))
  BY <1>1, PinnedIsNewest
<1>3. PinnedPts(w') \in Nat
  BY <1>1, <1>2, PinningFrame
<1>4. PinnedPts(w') >= PinnedPts(w)
  BY <1>2, <1>3
<1>5. QED
  BY <1>2, <1>4 DEF PinnedStep

\* A key frame, coded in the place of whatever was held.
LEMMA KeyStep ==
  ASSUME w.keyPts < w.nextPts, w \in Window, NEW win \in Window,
         win.nextPts \in Nat, win.nextPts >= w.nextPts, NEW id, NEW slot,
         w' = Record(win, id, TRUE, slot)
  PROVE  PinnedStep
<1>1. w'.keyPts = win.nextPts
  BY DEF Record, Trim, Window
<1>2. w.keyPts \in Nat /\ w.nextPts \in Nat
  BY DEF Window
<1>3. win.nextPts > w.keyPts
  BY <1>2
<1>4. w'.keyPts > w.keyPts
  BY <1>1, <1>3
<1>5. QED
  BY <1>4 DEF PinnedStep

LEMMA LossStep ==
  ASSUME WindowAssumption,
         IInv, IInv', AnchorCount = 2, FrameNumRange = 0, PinnedAnchor(w) # NoSlot,
         ReportLost
  PROVE  PinnedStep
<1>1. PICK p \in Reportable : /\ w' = Invalidate(w, Id(coded[p].count)).w
                              /\ lost' = lost \cup {p} /\ coded' = coded
  BY DEF ReportLost
<1>2. /\ w \in Window /\ \A f \in Held(w) \cup w.recent : f.pts < w.nextPts
      /\ coded \in [0 .. w.nextPts - 1 -> Coded]
  BY DEF IInv, WindowInv, NamesCoded
<1>3. Pinning(w, PinnedAnchor(w), PinnedPts(w))
  BY <1>2, PinnedIsNewest
<1>4. PinnedPts(w) \in Nat /\ p \in Nat
  <2>1. PinnedPts(w) \in Nat
    BY <1>2, <1>3, PinningFrame
  <2>2. p \in 0 .. w.nextPts - 1
    BY <1>2 DEF Reportable
  <2>3. QED
    BY <2>1, <2>2
<1>5. CASE p <= PinnedPts(w) \/ p \notin Pts(w.recent)
  BY <1>1, <1>5 DEF PinnedStep
<1>6. CASE p > PinnedPts(w) /\ p \in Pts(w.recent)
  <2>1. PICK r \in w.recent : r.pts = p
    BY <1>6 DEF Pts
  <2>2. r \in Named(w.recent, Id(coded[p].count))
    BY <1>2, <2>1 DEF IInv, WindowInv, NamesCoded, Named
  <2>3. Pinning(w', PinnedAnchor(w), PinnedPts(w))
    BY <1>1, <1>2, <1>3, <1>6, <2>1, <2>2, InvalidateSpares
  <2>4. QED
    BY <1>4, <2>3, StepPins
<1>7. QED
  BY <1>4, <1>5, <1>6

LEMMA NextNoted ==
  ASSUME WindowAssumption,
         IInv, Noted(w), [Next]_vars
  PROVE  Noted(w')
<1>1. /\ Sound(w, coded, lost) /\ WindowInv(w, coded) /\ w \in Window
      /\ forceIdr \in BOOLEAN /\ count \in Nat /\ Id(count) \in Ids
  BY ModType DEF IInv, TypeOK, Sound, Id
<1>2. ASSUME NEW refuses \in BOOLEAN
      PROVE  /\ Sound(Prepared(refuses).w, coded, lost)
             /\ Prepared(refuses).w \in Window
             /\ Noted(Prepared(refuses).w) /\ Prepared(refuses).key \in BOOLEAN
             /\ Due(Prepared(refuses).w, coded, count)
  BY <1>1, PreparedSound, PreparedNoted DEF Sound, WindowInv
<1>3. CASE EncodeFrame
  <2>1. PICK refuses \in BOOLEAN :
            LET s == Prepared(refuses)
            IN  w' = Record(s.w, Id(count), s.key, PlanAnchor(s.w, s.key))
    BY <1>3 DEF EncodeFrame
  <2> DEFINE s == Prepared(refuses)
  <2>2. s.w \in Window /\ Noted(s.w) /\ s.key \in BOOLEAN
    BY <1>2
  <2> HIDE DEF s
  <2>3. QED
    BY <1>1, <2>1, <2>2, RecordNoted DEF s
<1>4. CASE EncodeOwnKey
  <2> DEFINE s == Prepared(FALSE)
  <2>1. w' = Record(s.w, Id(count), TRUE, PlanAnchor(s.w, FALSE))
    BY <1>4 DEF EncodeOwnKey
  <2>2. s.w \in Window /\ Noted(s.w)
    BY <1>2
  <2> HIDE DEF s
  <2>3. QED
    BY <1>1, <2>1, <2>2, RecordNoted
<1>5. CASE EncodeAgain \/ EncodeAgainFails
  <2> DEFINE s == Prepared(FALSE)
             slot == PlanAnchor(s.w, s.key)
             named == PredictingAnchor(s.w, s.key)
             first == Record(s.w, Id(count), s.key, slot)
             log == Logged(coded, s.w, s.key, named, FALSE)
             back == TakenBack(first, s.key)
  <2>1. w' = Record(back, Id(count), s.key, slot) \/ w' = back
    BY <1>5 DEF EncodeAgain, EncodeAgainFails
  <2>2. /\ s.w \in Window /\ Noted(s.w) /\ s.key \in BOOLEAN
        /\ Sound(s.w, coded, lost) /\ Due(s.w, coded, count)
    BY <1>2
  <2> HIDE DEF s, slot, named
  <2>3. Noted(first) /\ Sound(first, log, lost) /\ first.nextPts > 0
    BY <1>1, <2>2, RecordNoted, CodedSound
  <2> HIDE DEF first, log
  <2>4. Sound(back, log, lost) /\ back.nextPts = first.nextPts
    BY <2>2, <2>3, TakenBackSound
  <2>5. Noted(back) /\ back \in Window
    BY <2>3, <2>4, AnswersNoted DEF TakenBack, Sound, WindowInv, Noted
  <2> HIDE DEF back
  <2>6. QED
    BY <1>1, <2>1, <2>2, <2>5, RecordNoted
<1>6. CASE EncodeFails
  BY <1>2, <1>6 DEF EncodeFails
<1>7. CASE SkipFrame \/ RequestIdr \/ UNCHANGED vars
  BY <1>7 DEF SkipFrame, RequestIdr, vars
<1>8. CASE ReportLost
  <2>1. PICK p \in Reportable : w' = Invalidate(w, Id(coded[p].count)).w
    BY <1>8 DEF ReportLost
  <2>2. w'.common = w.common /\ w'.nextPts = w.nextPts
    BY <1>1, <2>1, AnswersNoted, AnswersKeep DEF Less
  <2>3. QED
    BY <2>2 DEF Noted
<1>9. CASE ReportHeld
  <2>1. PICK p \in Reportable, kind \in Reports \ {"Lost"} :
            w' = Acknowledge(w, Id(coded[p].count), kind = "Held")
    BY <1>9 DEF ReportHeld
  <2>2. (kind = "Held") \in BOOLEAN
    OBVIOUS
  <2>3. QED
    BY <1>1, <2>1, <2>2, AcknowledgeSpares
<1>10. CASE ResetStream
  <2>1. PICK buffer \in Buffers : w' = Reset(SetCapacity(w, buffer))
    BY <1>10 DEF ResetStream
  <2>2. w'.common = {}
    BY <1>1, <2>1 DEF Reset, SetCapacity, Trim, Window
  <2>3. QED
    BY <2>2 DEF Noted
<1>11. QED
  BY <1>3, <1>4, <1>5, <1>6, <1>7, <1>8, <1>9, <1>10 DEF Next

LEMMA InitIsNoted ==
  ASSUME Init
  PROVE  Noted(w)
BY DEF Init, NewWindow, Noted

\* What a step keeps of the anchor every consumer holds.
LEMMA NextKeepsPinned ==
  ASSUME WindowAssumption,
         IInv, IInv', Noted(w), FrameNumRange = 0, [Next]_vars
  PROVE  PinnedStep
<1> SUFFICES ASSUME AnchorCount = 2, PinnedAnchor(w) # NoSlot PROVE PinnedStep
  BY DEF PinnedStep
<1>1. /\ Sound(w, coded, lost) /\ WindowInv(w, coded) /\ w \in Window
      /\ forceIdr \in BOOLEAN /\ count \in Nat /\ Id(count) \in Ids
      /\ \A f \in Held(w) \cup w.recent : f.pts < w.nextPts
  BY ModType DEF IInv, TypeOK, Sound, Id, WindowInv, NamesCoded
<1>2. /\ Pinning(w, PinnedAnchor(w), PinnedPts(w)) /\ PinnedPts(w) \in Nat
  BY <1>1, PinnedIsNewest, PinningFrame
<1>3. ASSUME NEW refuses \in BOOLEAN
      PROVE  LET s == Prepared(refuses)
             IN  /\ Sound(s.w, coded, lost) /\ s.w \in Window
                 /\ s.w.nextPts = w.nextPts /\ s.w.nextPts \in Nat
                 /\ s.key \in BOOLEAN /\ Due(s.w, coded, count)
                 /\ w.keyPts < w.nextPts
                 /\ \E i, q : /\ Pinning(s.w, i, q) /\ q >= PinnedPts(w) /\ q \in Nat
                              /\ q < s.w.nextPts /\ PlanAnchor(s.w, FALSE) # i
  <2>1. /\ Sound(Prepared(refuses).w, coded, lost) /\ Prepared(refuses).key \in BOOLEAN
        /\ Due(Prepared(refuses).w, coded, count)
        /\ Prepared(refuses).w.nextPts = w.nextPts
    BY PreparedSound
  <2>2. /\ Prepared(refuses).w \in Window
        /\ w.nextPts \in Nat
    BY <1>1, <2>1 DEF Sound, WindowInv, Window
  <2>3. /\ w.keyPts < w.nextPts
        /\ \E i, q : /\ Pinning(Prepared(refuses).w, i, q) /\ q >= PinnedPts(w)
                     /\ q < Prepared(refuses).w.nextPts
                     /\ PlanAnchor(Prepared(refuses).w, FALSE) # i
    BY PlanPins
  <2>4. QED
    BY <2>1, <2>2, <2>3, PinningFrame
<1>4. CASE EncodeFrame
  <2>1. PICK refuses \in BOOLEAN :
            LET s == Prepared(refuses)
            IN  w' = Record(s.w, Id(count), s.key, PlanAnchor(s.w, s.key))
    BY <1>4 DEF EncodeFrame
  <2> DEFINE s == Prepared(refuses)
  <2>2. /\ s.w \in Window /\ s.key \in BOOLEAN /\ w.keyPts < w.nextPts
        /\ s.w.nextPts = w.nextPts /\ s.w.nextPts \in Nat
        /\ \E i, q : /\ Pinning(s.w, i, q) /\ q >= PinnedPts(w) /\ q \in Nat
                     /\ PlanAnchor(s.w, FALSE) # i
    BY <1>3
  <2>3. w' = Record(s.w, Id(count), s.key, PlanAnchor(s.w, s.key))
    BY <2>1
  <2> HIDE DEF s
  <2>4. CASE s.key
    <3>1. w' = Record(s.w, Id(count), TRUE, PlanAnchor(s.w, TRUE))
      BY <2>2, <2>3, <2>4
    <3>2. s.w.nextPts >= w.nextPts
      BY <2>2
    <3>3. QED
      BY <1>1, <2>2, <3>1, <3>2, KeyStep, Zenon
  <2>5. CASE ~s.key
    <3>1. w' = Record(s.w, Id(count), FALSE, PlanAnchor(s.w, FALSE))
      BY <2>2, <2>3, <2>5
    <3>2. PICK i, q : /\ Pinning(s.w, i, q) /\ q >= PinnedPts(w) /\ q \in Nat
                      /\ PlanAnchor(s.w, FALSE) # i
      BY <2>2
    <3>3. Pinning(w', i, q)
      BY <1>1, <2>2, <3>1, <3>2, RecordSpares
    <3>4. QED
      BY <1>2, <3>2, <3>3, StepPins
  <2>6. QED
    BY <2>4, <2>5
<1>5. CASE EncodeOwnKey
  <2> DEFINE s == Prepared(FALSE)
  <2>1. w' = Record(s.w, Id(count), TRUE, PlanAnchor(s.w, FALSE))
    BY <1>5 DEF EncodeOwnKey
  <2>2. /\ s.w \in Window /\ w.keyPts < w.nextPts
        /\ s.w.nextPts = w.nextPts /\ s.w.nextPts \in Nat
    BY <1>3
  <2> HIDE DEF s
  <2>3. s.w.nextPts >= w.nextPts
    BY <2>2
  <2>4. QED
    BY <1>1, <2>1, <2>2, <2>3, KeyStep, Zenon
<1>6. CASE EncodeAgain \/ EncodeAgainFails
  <2> DEFINE s == Prepared(FALSE)
             slot == PlanAnchor(s.w, s.key)
             named == PredictingAnchor(s.w, s.key)
             first == Record(s.w, Id(count), s.key, slot)
             log == Logged(coded, s.w, s.key, named, FALSE)
             back == TakenBack(first, s.key)
  <2>1. w' = Record(back, Id(count), s.key, slot) \/ w' = back
    BY <1>6 DEF EncodeAgain, EncodeAgainFails
  <2>2. /\ s.w \in Window /\ s.key \in BOOLEAN /\ w.keyPts < w.nextPts
        /\ s.w.nextPts = w.nextPts /\ s.w.nextPts \in Nat
        /\ Sound(s.w, coded, lost) /\ Due(s.w, coded, count)
        /\ \E i, q : /\ Pinning(s.w, i, q) /\ q >= PinnedPts(w) /\ q \in Nat
                     /\ q < s.w.nextPts /\ PlanAnchor(s.w, FALSE) # i
    BY <1>3
  <2>3. PICK i, q : /\ Pinning(s.w, i, q) /\ q >= PinnedPts(w) /\ q \in Nat
                    /\ q < s.w.nextPts /\ PlanAnchor(s.w, FALSE) # i
    BY <2>2
  <2>4. ~s.key => slot # i
    BY <2>2, <2>3
  <2> HIDE DEF s, slot, named
  <2>5. /\ Sound(first, log, lost) /\ first.nextPts = s.w.nextPts + 1 /\ first.nextPts > 0
    BY <1>1, <2>2, CodedSound
  <2>6. first \in Window /\ first.nextPts \in Nat
    BY <2>5 DEF Sound, WindowInv, Window
  <2>7. Sound(back, log, lost) /\ back.nextPts = first.nextPts
    <3> HIDE DEF first, log
    <3>1. QED
      BY <2>2, <2>5, TakenBackSound
  <2>8. back \in Window /\ back.nextPts \in Nat /\ back.nextPts >= w.nextPts
    <3> HIDE DEF first, log, back
    <3>1. QED
      BY <2>2, <2>5, <2>6, <2>7 DEF Sound, WindowInv
  <2>9. CASE s.key
    <3>1. back = first
      BY <2>9 DEF TakenBack
    <3>2. first = Record(s.w, Id(count), TRUE, slot)
      BY <2>2, <2>9
    <3> HIDE DEF first, back, log
    <3>3. w' = first \/ w' = Record(first, Id(count), TRUE, slot)
      BY <2>1, <2>2, <2>9, <3>1
    <3>4. s.w.nextPts >= w.nextPts /\ first.nextPts >= w.nextPts
      BY <2>2, <2>5
    <3>5. CASE w' = first
      BY <1>1, <2>2, <3>2, <3>4, <3>5, KeyStep, Zenon
    <3>6. CASE w' = Record(first, Id(count), TRUE, slot)
      BY <1>1, <2>2, <2>6, <3>4, <3>6, KeyStep, Zenon
    <3>7. QED
      BY <3>3, <3>5, <3>6
  <2>10. CASE ~s.key
    <3>1. first = Record(s.w, Id(count), FALSE, slot)
      BY <2>2, <2>10
    <3> HIDE DEF first, log
    <3>2. Pinning(first, i, q)
      BY <1>1, <2>2, <2>3, <2>4, <2>10, <3>1, RecordSpares
    <3>3. first.nextPts - 1 > q
      BY <2>2, <2>3, <2>5
    <3>4. Pinning(back, i, q)
      BY <2>2, <2>6, <3>2, <3>3, RetractSpares
    <3> HIDE DEF back
    <3>5. w' = back \/ w' = Record(back, Id(count), FALSE, slot)
      BY <2>1, <2>2, <2>10
    <3>6. Pinning(w', i, q)
      BY <1>1, <2>4, <2>8, <2>10, <3>4, <3>5, RecordSpares
    <3>7. QED
      BY <1>2, <2>3, <3>6, StepPins
  <2>11. QED
    BY <2>9, <2>10
<1>7. CASE EncodeFails
  <2>1. PICK refuses \in BOOLEAN : w' = Prepared(refuses).w
    BY <1>7 DEF EncodeFails
  <2>2. Pinning(w', PinnedAnchor(w), PinnedPts(w))
    BY <1>2, <2>1, PreparedSpares
  <2>3. QED
    BY <1>2, <2>2, StepPins
<1>8. CASE SkipFrame \/ RequestIdr \/ UNCHANGED vars
  <2>1. w' = w
    BY <1>8 DEF SkipFrame, RequestIdr, vars
  <2>2. QED
    BY <1>2, <2>1, StepPins
<1>9. CASE ReportLost
  BY <1>9, LossStep
<1>10. CASE ReportHeld
  <2>1. PICK p \in Reportable, kind \in Reports \ {"Lost"} :
            w' = Acknowledge(w, Id(coded[p].count), kind = "Held")
    BY <1>10 DEF ReportHeld
  <2>2. PICK id : \E held \in BOOLEAN : w' = Acknowledge(w, id, held)
    BY <2>1
  <2>3. \A i, q : Pinning(w, i, q) =>
            \/ Pinning(w', i, q)
            \/ Cardinality({k \in w'.common : k > q}) >= RecentFrames
    BY <1>1, <2>2, AcknowledgeSpares, Zenon
  <2>4. \/ Pinning(w', PinnedAnchor(w), PinnedPts(w))
        \/ Cardinality({k \in w'.common : k > PinnedPts(w)}) >= RecentFrames
    BY <1>2, <2>3
  <2>5. QED
    BY <1>2, <2>4, StepPins DEF PinnedStep
<1>11. CASE ResetStream
  <2>1. PICK buffer \in Buffers : w' = Reset(SetCapacity(w, buffer))
    BY <1>11 DEF ResetStream
  <2>2. w'.frames = {} /\ w'.anchors = [i \in AnchorSlots |-> NoFrame]
    BY <1>1, <2>1 DEF Reset, SetCapacity, Trim, Window
  <2>3. Held(w') = {}
    BY <2>2 DEF Held, AnchorFrames
  <2>4. QED
    BY <2>3 DEF PinnedStep
<1>12. QED
  BY <1>4, <1>5, <1>6, <1>7, <1>8, <1>9, <1>10, <1>11 DEF Next

\* The schedule of two anchors never marks over the newest frame every consumer
\* holds, nor does any loss after it: it stays to predict from until a newer
\* one is in the other anchor, a key frame, a restart, a loss that reaches
\* back to it, or as many newer ones noted as the window notes.  Its codecs
\* have no frame_num.
THEOREM TwoAnchorsKeepPinned ==
  ASSUME WindowAssumption, SessionAssumption,
         FrameNumRange = 0
  PROVE  Spec => [][PinnedStep]_vars
<1>1. Init => IInv /\ Noted(w)
  BY InitIInv, InitIsNoted
<1>2. IInv /\ Noted(w) /\ [Next]_vars => IInv' /\ Noted(w)' /\ PinnedStep
  <2> SUFFICES ASSUME IInv, Noted(w), [Next]_vars
               PROVE  IInv' /\ Noted(w)' /\ PinnedStep
    OBVIOUS
  <2>1. IInv' /\ Noted(w')
    BY NextIInv, NextNoted
  <2>2. QED
    BY <2>1, NextKeepsPinned
<1>3. QED
  BY <1>1, <1>2, PTL DEF Spec

\* A loss after that anchor, of a frame remembered, never costs a key frame.
LEMMA PinnedSpares ==
  ASSUME WindowAssumption, IInv
  PROVE  PinnedSparesKey
<1> SUFFICES ASSUME IInv, FrameNumRange = 0, PinnedAnchor(w) # NoSlot,
                    NEW p \in Reportable, p > PinnedPts(w), p \in Pts(w.recent)
             PROVE  Invalidate(w, Id(coded[p].count)).asks # "KeyFrame"
  BY DEF PinnedSparesKey
<1>1. /\ w \in Window /\ \A f \in Held(w) \cup w.recent : f.pts < w.nextPts
      /\ \A r \in w.recent : r.id = Id(coded[r.pts].count)
  BY DEF IInv, WindowInv, NamesCoded
<1>2. Pinning(w, PinnedAnchor(w), PinnedPts(w))
  BY <1>1, PinnedIsNewest
<1>3. PICK r \in w.recent : r.pts = p
  BY DEF Pts
<1>4. r \in Named(w.recent, Id(coded[p].count))
  BY <1>1, <1>3 DEF Named
<1>5. QED
  BY <1>1, <1>2, <1>3, <1>4, InvalidateSpares

THEOREM PinnedSparesAKey ==
  ASSUME WindowAssumption, SessionAssumption
  PROVE  Spec => []PinnedSparesKey
<1>1. IInv => PinnedSparesKey
  BY PinnedSpares
<1>2. Init => IInv
  BY InitIInv
<1>3. IInv /\ [Next]_vars => IInv'
  BY NextIInv
<1>4. QED
  BY <1>1, <1>2, <1>3, PTL DEF Spec

-----------------------------------------------------------------------------
(* The anchor the device is told of.                                       *)

\* What the window has for the next frame to predict from.
LEMMA SourceIsHeld ==
  ASSUME NEW win, NEW log, WindowInv(win, log), NEW key \in BOOLEAN
  PROVE  /\ Source(win, key) \in 0 .. win.nextPts
         /\ key => Source(win, key) = win.nextPts
         /\ ~key /\ HasReference(win) =>
                /\ NewestValid(win) \in Valid(win)
                /\ \A g \in Valid(win) : g.pts <= NewestValid(win).pts
                /\ Source(win, key) = NewestValid(win).pts
<1>1. /\ win.nextPts \in Nat /\ Valid(win) \in SUBSET Frame
      /\ \A f \in Valid(win) : f.pts < win.nextPts
  BY HeldFrames DEF WindowInv, NamesCoded
<1>2. ASSUME HasReference(win)
      PROVE  /\ NewestValid(win) \in Valid(win)
             /\ \A g \in Valid(win) : g.pts <= NewestValid(win).pts
  BY <1>1, <1>2, LastIsLast DEF HasReference, Last, NewestValid
<1>3. QED
  BY <1>1, <1>2 DEF Source, Frame

\* The anchor named holds the frame predicted from.
LEMMA NamesItsSource ==
  ASSUME WindowAssumption,
         NEW win, NEW log, WindowInv(win, log), NEW key \in BOOLEAN
  PROVE  InSlot(win, PredictingAnchor(win, key)) \in {win.nextPts, Source(win, key)}
<1> DEFINE i == PredictingAnchor(win, key)
<1>1. CASE i = NoSlot
  <2>1. NoSlot \notin AnchorSlots
    BY DEF NoSlot, AnchorSlots, WindowAssumption
  <2>2. QED
    BY <1>1, <2>1 DEF InSlot
<1>2. CASE i # NoSlot
  <2>1. /\ ~key /\ HasReference(win) /\ NewestValid(win) \notin win.frames
        /\ i = CHOOSE j \in AnchorSlots : win.anchors[j] = NewestValid(win)
    BY <1>2 DEF PredictingAnchor
  <2>2. NewestValid(win) \in AnchorFrames(win) /\ Source(win, key) = NewestValid(win).pts
    BY <2>1, SourceIsHeld DEF Valid, Held
  <2>3. DOMAIN win.anchors = AnchorSlots
    BY DEF WindowInv, Window
  <2>4. \E j \in AnchorSlots : win.anchors[j] = NewestValid(win)
    BY <2>2, <2>3 DEF AnchorFrames
  <2>5. i \in AnchorSlots /\ win.anchors[i] = NewestValid(win)
    BY <2>1, <2>4
  <2>6. NewestValid(win) # NoFrame
    BY <2>2 DEF AnchorFrames
  <2>7. QED
    BY <2>2, <2>5, <2>6 DEF InSlot
<1>3. QED
  BY <1>1, <1>2

\* A step that codes one frame of the prepared window names what it predicts
\* from; one that codes none names nothing.
LEMMA NextNames ==
  ASSUME WindowAssumption, IInv, IInv', [Next]_vars
  PROVE  NamedStep
<1>1. /\ DOMAIN coded = 0 .. w.nextPts - 1 /\ w.nextPts \in Nat
      /\ WindowInv(w, coded) /\ forceIdr \in BOOLEAN
  BY DEF IInv, TypeOK, WindowInv, Window
<1>2. ASSUME NEW refuses \in BOOLEAN
      PROVE  LET s == Prepared(refuses)
             IN  WindowInv(s.w, coded) /\ s.w.nextPts = w.nextPts /\ s.key \in BOOLEAN
  BY <1>2, PreparedSound DEF Sound
<1>3. ASSUME coded' # coded => \E p : /\ DOMAIN coded' \ DOMAIN coded = {p}
                                       /\ coded'[p].named \in {p, coded'[p].from}
      PROVE  NamedStep
  BY <1>3 DEF NamedStep
<1>4. CASE EncodeFrame \/ EncodeAgainFails
  <2>1. PICK refuses \in BOOLEAN, sent \in BOOLEAN :
            LET s == Prepared(refuses)
            IN  coded' = Logged(coded, s.w, s.key, PredictingAnchor(s.w, s.key), sent)
    BY <1>4 DEF EncodeFrame, EncodeAgainFails
  <2> DEFINE s == Prepared(refuses)
             named == PredictingAnchor(s.w, s.key)
  <2>2. WindowInv(s.w, coded) /\ s.w.nextPts = w.nextPts /\ s.key \in BOOLEAN
    BY <1>2
  <2>3. coded' = Logged(coded, s.w, s.key, named, sent)
    BY <2>1
  <2> HIDE DEF s
  <2>4. InSlot(s.w, named) \in {s.w.nextPts, Source(s.w, s.key)}
    BY <2>2, NamesItsSource
  <2> HIDE DEF named
  <2>5. /\ DOMAIN coded' \ DOMAIN coded = {w.nextPts}
        /\ coded'[w.nextPts].named = InSlot(s.w, named)
        /\ coded'[w.nextPts].from = Source(s.w, s.key)
    BY <1>1, <2>2, <2>3 DEF Logged, NextCoded
  <2>6. QED
    BY <1>3, <2>2, <2>4, <2>5
<1>5. CASE EncodeOwnKey
  <2> DEFINE s == Prepared(FALSE)
  <2>1. PICK key \in BOOLEAN, sent \in BOOLEAN :
            coded' = Logged(coded, s.w, key, NoSlot, sent)
    BY <1>5 DEF EncodeOwnKey
  <2>2. WindowInv(s.w, coded) /\ s.w.nextPts = w.nextPts
    BY <1>2
  <2> HIDE DEF s
  <2>3. InSlot(s.w, NoSlot) = s.w.nextPts
    BY DEF InSlot, NoSlot, AnchorSlots, WindowAssumption
  <2>4. /\ DOMAIN coded' \ DOMAIN coded = {w.nextPts}
        /\ coded'[w.nextPts].named = InSlot(s.w, NoSlot)
        /\ coded'[w.nextPts].from = Source(s.w, key)
    BY <1>1, <2>1, <2>2 DEF Logged, NextCoded
  <2>5. QED
    BY <1>3, <2>2, <2>3, <2>4
<1>6. CASE EncodeAgain
  BY <1>6 DEF NamedStep
<1>7. CASE \/ EncodeFails \/ SkipFrame \/ ReportLost \/ ReportHeld \/ RequestIdr
           \/ ResetStream \/ UNCHANGED vars
  BY <1>3, <1>7 DEF EncodeFails, SkipFrame, ReportLost, ReportHeld, RequestIdr,
                    ResetStream, vars
<1>8. QED
  BY <1>4, <1>5, <1>6, <1>7 DEF Next

\* The anchor the device is told of is the one that holds the frame the window
\* predicts from, however many there are.
THEOREM NamesWhatItPredictsFrom ==
  ASSUME WindowAssumption, SessionAssumption
  PROVE  Spec => [][NamedStep]_vars
<1>1. Init => IInv
  BY InitIInv
<1>2. IInv /\ [Next]_vars => IInv' /\ NamedStep
  BY NextIInv, NextNames
<1>3. QED
  BY <1>1, <1>2, PTL DEF Spec

-----------------------------------------------------------------------------
(* What the window still remembers of the frames it holds.                 *)

\* The frames that may go to an anchor, and not beside the others: the one
\* after a key frame coded beside them, and those the schedule or a frame_num
\* of 0 marks.
Marked(win, p) ==
    LET d == SinceKey(win, p)
    IN  d = 1 \/ Multiple(d, AnchorPeriod) \/ Multiple(d, FrameNumRange)

\* Every frame since one held is held beside it, or was marked; the second
\* coding of a frame marked is marked as well.
Spread(win) ==
    \A f \in win.frames, p \in 0 .. win.nextPts - 1 :
        p > f.pts => p \in Pts(win.frames) \/ Marked(win, p) \/ Marked(win, p - 1)

\* An anchor is marked with the first frame or the second.
Started(win) ==
    AnchorFrames(win) = {} => win.frames = {} \/ win.nextPts = win.keyPts + 1

\* The frames held of the last RecentFrames ones are remembered.
Recalls(win) ==
    \A f \in win.frames : win.nextPts - f.pts <= RecentFrames => f.pts \in Pts(win.recent)

\* Of two frames remembered under one count, the first was taken back.
CountsTell(win, log) ==
    \A f, g \in win.recent :
        f.pts < g.pts /\ log[f.pts].count = log[g.pts].count => f.lost \/ f.pts < win.keyPts

Capacities == {Beside(b) : b \in Buffers}

Laid(win, log) ==
    /\ Spread(win) /\ Started(win) /\ Recalls(win) /\ CountsTell(win, log)
    /\ win.capacity \in Capacities

\* The schedule marks few enough frames, and enough are remembered, that every
\* frame held is (48, 16 or more, and 512 for a buffer of 16).
Paced ==
    /\ AnchorPeriod >= 6 /\ FrameNumRange >= 6
    /\ \A n \in Capacities : 5 * (n + AnchorCount) <= RecentFrames

LEMMA RemainderOfSum ==
  ASSUME NEW m \in Nat \ {0}, NEW q \in Int, NEW r \in 0 .. m - 1
  PROVE  (m * q + r) % m = r
OBVIOUS

LEMMA MultiplesApart ==
  ASSUME NEW m \in Nat, m >= 6, NEW d \in Nat, NEW e \in Nat, d < e, e < d + 6,
         Multiple(d, m)
  PROVE  ~Multiple(e, m)
<1>1. PICK q \in Int : d = m * q + (d % m)
  <2>1. d = m * (d \div m) + (d % m) /\ d \div m \in Int
    OBVIOUS
  <2>2. QED
    BY <2>1, Zenon
<1>2. d = m * q
  BY <1>1 DEF Multiple
<1>3. PICK r \in 0 .. m - 1 : e = m * q + r /\ r # 0
  <2>1. e - d \in 0 .. m - 1 /\ e = m * q + (e - d) /\ e - d # 0
    BY <1>2
  <2>2. QED
    BY <2>1
<1>4. (m * q + r) % m = r
  BY RemainderOfSum
<1>5. QED
  BY <1>3, <1>4 DEF Multiple

\* Two sets whose members are far apart leave one in five, its successor too.
LEMMA OneInFive ==
  ASSUME NEW A \in SUBSET Nat, NEW B \in SUBSET Nat, 0 \in A, 0 \in B,
         \A d, e \in A : d < e => e >= d + 6,
         \A d, e \in B : d < e => e >= d + 6,
         NEW n \in Nat, n > 0
  PROVE  \E e \in n .. n + 4 : {e - 1, e} \cap (A \cup B \cup {1}) = {}
<1>1. CASE n <= 2
  <2>1. {2, 3} \cap (A \cup B \cup {1}) = {}
    OBVIOUS
  <2>2. QED
    BY <1>1, <2>1
<1>2. CASE n > 2
  <2> DEFINE free(e) == {e - 1, e} \cap (A \cup B) = {}
  <2>1. free(n) \/ free(n + 1) \/ free(n + 2) \/ free(n + 3) \/ free(n + 4)
    OBVIOUS
  <2>2. PICK e \in n .. n + 4 : free(e)
    BY <2>1
  <2>3. QED
    BY <1>2, <2>2
<1>3. QED
  BY <1>1, <1>2

\* As many frames as there are runs of five, each with a frame.
LEMMA OneInEach ==
  ASSUME NEW S, IsFiniteSet(S), NEW k \in Nat, NEW p \in Nat,
         \A i \in 0 .. k - 1 : \E g \in S : g.pts \in p + 5 * i + 1 .. p + 5 * i + 5
  PROVE  k <= Cardinality(S)
<1> DEFINE at == [i \in 0 .. k - 1 |->
                    CHOOSE g \in S : g.pts \in p + 5 * i + 1 .. p + 5 * i + 5]
<1>1. \A i \in 0 .. k - 1 : at[i] \in S /\ at[i].pts \in p + 5 * i + 1 .. p + 5 * i + 5
  OBVIOUS
<1> HIDE DEF at
<1>2. \A i, j \in 0 .. k - 1 : at[i] = at[j] => i = j
  BY <1>1
<1>3. at \in Injection(0 .. k - 1, S)
  <2>1. at \in [0 .. k - 1 -> S]
    BY <1>1 DEF at
  <2>2. QED
    BY <1>2, <2>1 DEF Injection, IsInjective
<1>4. IsFiniteSet(0 .. k - 1) /\ Cardinality(0 .. k - 1) = k
  BY FS_Interval
<1>5. QED
  BY <1>3, <1>4, FS_Injection

Multiples(m) == {d \in Nat : Multiple(d, m)}

LEMMA MultiplesFar ==
  ASSUME NEW m \in Nat, m >= 6
  PROVE  0 \in Multiples(m) /\ \A d, e \in Multiples(m) : d < e => e >= d + 6
<1>1. 0 \in Multiples(m)
  BY DEF Multiples, Multiple
<1>2. ASSUME NEW d \in Multiples(m), NEW e \in Multiples(m), d < e, e < d + 6
      PROVE  FALSE
  BY <1>2, MultiplesApart DEF Multiples
<1>3. \A d \in Multiples(m) : d \in Nat
  BY DEF Multiples
<1>4. QED
  BY <1>1, <1>2, <1>3

\* No frame held beside the anchors is older than the frames remembered.
LEMMA HeldIsRemembered ==
  ASSUME WindowAssumption, Paced,
         NEW win, NEW log, WindowInv(win, log), Bounded(win), Laid(win, log),
         NEW f \in win.frames
  PROVE  f.pts \in Pts(win.recent)
<1> DEFINE K == win.capacity + AnchorCount
           S == win.frames \ {f}
           A == Multiples(AnchorPeriod)
           B == Multiples(FrameNumRange)
<1>1. /\ win \in Window /\ win.frames \in SUBSET Frame /\ f \in Frame
      /\ win.nextPts \in Nat /\ win.keyPts \in Nat /\ f.pts >= win.keyPts
      /\ f.pts \in Nat /\ K \in Nat /\ RecentFrames \in Nat
  BY DEF WindowInv, NamesCoded, Held, Window, WindowAssumption, Frame
<1>2. SUFFICES ASSUME win.nextPts - f.pts > RecentFrames PROVE FALSE
  BY <1>1 DEF Laid, Recalls
<1>3. 5 * K <= RecentFrames
  BY DEF Laid, Paced
<1>4. /\ AnchorPeriod \in Nat \ {0} /\ FrameNumRange \in Nat \ {0}
      /\ AnchorPeriod >= 6 /\ FrameNumRange >= 6
  BY DEF WindowAssumption, AnchorPeriod, Paced
<1>5. /\ 0 \in A /\ \A d, e \in A : d < e => e >= d + 6
      /\ 0 \in B /\ \A d, e \in B : d < e => e >= d + 6
  BY <1>4, MultiplesFar
<1>6. ASSUME NEW i \in 0 .. K - 1
      PROVE  \E g \in S : g.pts \in f.pts + 5 * i + 1 .. f.pts + 5 * i + 5
  <2> DEFINE n == f.pts + 5 * i + 1 - win.keyPts
  <2>1. n \in Nat /\ n > 0
    BY <1>1
  <2>2. A \in SUBSET Nat /\ B \in SUBSET Nat
    BY DEF Multiples
  <2> HIDE DEF n, A, B
  <2>3. PICK e \in n .. n + 4 : {e - 1, e} \cap (A \cup B \cup {1}) = {}
    <3>1. \A d, e \in A : d < e => e >= d + 6
      BY <1>5
    <3>2. \A d, e \in B : d < e => e >= d + 6
      BY <1>5
    <3>3. 0 \in A /\ 0 \in B
      BY <1>5
    <3>4. \E e \in n .. n + 4 : {e - 1, e} \cap (A \cup B \cup {1}) = {}
      BY <2>1, <2>2, <3>1, <3>2, <3>3, OneInFive
    <3>5. QED
      BY <3>4
  <2> DEFINE p == win.keyPts + e
  <2>4. /\ p \in f.pts + 5 * i + 1 .. f.pts + 5 * i + 5
        /\ p \in 0 .. win.nextPts - 1 /\ p > f.pts
        /\ p - win.keyPts = e /\ p - 1 - win.keyPts = e - 1
        /\ e \in Nat /\ e - 1 \in Nat
    BY <1>1, <1>2, <1>3, <2>1 DEF n
  <2>5. ~Marked(win, p) /\ ~Marked(win, p - 1)
    BY <2>3, <2>4 DEF Marked, SinceKey, A, B, Multiples
  <2>6. p \in Pts(win.frames)
    BY <2>4, <2>5 DEF Laid, Spread
  <2>7. QED
    BY <2>4, <2>6 DEF Pts
<1>7. IsFiniteSet(win.frames) /\ Cardinality(win.frames) \in Nat
  BY FS_CardinalityType DEF Bounded
<1>8. IsFiniteSet(S) /\ Cardinality(S) = Cardinality(win.frames) - 1
  BY <1>7, FS_RemoveElement
<1> HIDE DEF S
<1>9. K <= Cardinality(S)
  <2> HIDE DEF K
  <2>1. QED
    BY <1>1, <1>6, <1>8, OneInEach
<1>10. Cardinality(win.frames) <= K
  <2>1. Cardinality(ValidAnchors(win)) \in Nat
    BY <1>1, AnchorsAreFew
  <2>2. QED
    BY <1>1, <1>7, <2>1 DEF Bounded
<1>11. QED
  BY <1>1, <1>7, <1>8, <1>9, <1>10

LEMMA MarkLostPts ==
  ASSUME NEW S \in SUBSET Frame, NEW cut \in Nat
  PROVE  /\ Pts(MarkLost(S, cut)) = Pts(S)
         /\ \A f \in MarkLost(S, cut) : \E g \in S : g.pts = f.pts /\ (g.lost => f.lost)
BY LostFromFrame DEF Pts, MarkLost

LEMMA LeftLaid ==
  ASSUME WindowAssumption,
         NEW win \in Window, NEW log, Laid(win, log), NEW cut \in Nat, NEW rcut \in Nat,
         NEW v, Left(v, win, cut, rcut)
  PROVE  Laid(v, log)
<1>1. /\ v \in Window /\ v.frames = MarkLost(win.frames, cut)
      /\ v.anchors = MarkAnchors(win.anchors, cut)
      /\ v.recent = MarkLost(win.recent, rcut)
      /\ v.nextPts = win.nextPts /\ v.keyPts = win.keyPts /\ v.capacity = win.capacity
  BY LeftFields
<1>2. win.frames \in SUBSET Frame /\ win.recent \in SUBSET Frame
  BY DEF Window
<1>3. /\ Pts(v.frames) = Pts(win.frames) /\ Pts(v.recent) = Pts(win.recent)
      /\ \A f \in v.frames : \E g \in win.frames : g.pts = f.pts
      /\ \A f \in v.recent : \E g \in win.recent : g.pts = f.pts /\ (g.lost => f.lost)
  <2>1. /\ Pts(v.frames) = Pts(win.frames)
        /\ \A f \in v.frames : \E g \in win.frames : g.pts = f.pts /\ (g.lost => f.lost)
    BY <1>1, <1>2, MarkLostPts
  <2>2. /\ Pts(v.recent) = Pts(win.recent)
        /\ \A f \in v.recent : \E g \in win.recent : g.pts = f.pts /\ (g.lost => f.lost)
    BY <1>1, <1>2, MarkLostPts
  <2>3. QED
    BY <2>1, <2>2
<1>4. Spread(v) /\ Recalls(v) /\ CountsTell(v, log)
  <2>1. Spread(v)
    BY <1>1, <1>3 DEF Laid, Spread, Marked, SinceKey
  <2>2. Recalls(v)
    BY <1>1, <1>3 DEF Laid, Recalls
  <2>3. CountsTell(v, log)
    BY <1>1, <1>3 DEF Laid, CountsTell
  <2>4. QED
    BY <2>1, <2>2, <2>3
<1>5. Started(v)
  <2>1. AnchorFrames(v) = MarkLost(AnchorFrames(win), cut)
    BY <1>1, LeftAnchors
  <2>2. QED
    BY <1>1, <2>1 DEF Laid, Started, MarkLost
<1>6. QED
  BY <1>1, <1>4, <1>5 DEF Laid

\* A queue of frames coded one at a time, cut to k, keeps the last k coded.
LEMMA NewestKeeps ==
  ASSUME NEW S \in SUBSET Frame, OnePerPts(S), NEW n \in Nat, \A g \in S : g.pts <= n,
         NEW k \in Nat, NEW r \in S, n - r.pts < k
  PROVE  r \in Newest(S, k)
<1> DEFINE above == {g \in S : g.pts > r.pts}
           at == [g \in above |-> g.pts]
<1>1. r.pts \in Nat /\ r.pts <= n
  BY DEF Frame
<1>2. at \in Injection(above, r.pts + 1 .. n)
  <2>1. at \in [above -> r.pts + 1 .. n]
    BY <1>1 DEF Frame
  <2>2. \A f, g \in above : at[f] = at[g] => f = g
    BY DEF OnePerPts
  <2>3. QED
    BY <2>1, <2>2 DEF Injection, IsInjective
<1>3. IsFiniteSet(r.pts + 1 .. n) /\ Cardinality(r.pts + 1 .. n) = n - r.pts
  <2>1. r.pts + 1 \in Int /\ n \in Int
    BY <1>1
  <2>2. /\ IsFiniteSet(r.pts + 1 .. n)
        /\ Cardinality(r.pts + 1 .. n) = IF r.pts + 1 > n THEN 0 ELSE n - (r.pts + 1) + 1
    BY <2>1, FS_Interval
  <2>3. QED
    BY <1>1, <2>2
<1>4. IsFiniteSet(above) /\ Cardinality(above) <= n - r.pts
  BY <1>2, <1>3, FS_Injection
<1>5. Cardinality(above) \in Nat
  BY <1>4, FS_CardinalityType
<1>6. QED
  BY <1>1, <1>4, <1>5 DEF Newest

\* What is planned for the next frame of `win`: an anchor where the schedule
\* or a frame_num of 0 marks it, or it follows a key frame coded beside them.
Planned(win, key, slot) ==
    /\ slot \in AnchorSlots /\ ~key =>
            Marked(win, win.nextPts) \/ Marked(win, win.nextPts - 1)
    /\ slot \in AnchorSlots \/ key \/ AnchorFrames(win) # {}

LEMMA RecordLaid ==
  ASSUME WindowAssumption,
         NEW win, NEW log, WindowInv(win, log), Laid(win, log), count \in Nat,
         NEW key \in BOOLEAN, NEW slot, NEW named, NEW sent \in BOOLEAN,
         Planned(win, key, slot),
         \A r \in win.recent : log[r.pts].count < count \/ r.lost \/ key
  PROVE  Laid(Record(win, Id(count), key, slot), Logged(log, win, key, named, sent))
<1> DEFINE n == win.nextPts
           f == NextFrame(win, Id(count))
           kept == IF key THEN {} ELSE win.frames
           v == Record(win, Id(count), key, slot)
           new == Logged(log, win, key, named, sent)
<1>1. /\ win \in Window /\ n \in Nat /\ win.keyPts \in Nat /\ win.keyPts <= n
      /\ win.frames \in SUBSET Frame /\ win.recent \in SUBSET Frame
      /\ IsFiniteSet(win.frames) /\ IsFiniteSet(win.recent)
      /\ \A g \in win.frames \cup win.recent : g.pts \in 0 .. n - 1
      /\ \A r, s \in win.recent : r.pts = s.pts => r = s
      /\ Id(count) \in Ids
  BY ModType, HeldFrames DEF WindowInv, NamesCoded, Id, Held, Frame
<1>2. /\ new[n].count = count
      /\ \A p \in 0 .. n - 1 : new[p] = log[p]
  BY <1>1 DEF Logged, NextCoded
<1>3. Recorded(v, win, Id(count), key, slot)
  BY <1>1, RecordFields
<1> HIDE DEF v, new
<1>4. /\ v \in Window /\ f \in Frame /\ v.nextPts = n + 1 /\ v.capacity = win.capacity
      /\ v.keyPts = IF key THEN n ELSE win.keyPts
      /\ v.recent = Newest(win.recent \cup {f}, RecentFrames) /\ f \in v.recent
      /\ v.frames \in SUBSET (kept \cup {f})
      /\ slot \notin AnchorSlots =>
              \A g \in v.frames, h \in kept \cup {f} : h.pts >= g.pts => h \in v.frames
      /\ \A g \in v.frames, h \in kept : h.pts >= g.pts => h \in v.frames
      /\ slot \in AnchorSlots => f \in AnchorFrames(v)
      /\ slot \notin AnchorSlots /\ ~key => AnchorFrames(v) = AnchorFrames(win)
  BY <1>3 DEF Recorded
<1>5. f.pts = n
  BY DEF NextFrame
<1> HIDE DEF f
<1>6. Spread(v)
  <2> SUFFICES ASSUME NEW g \in v.frames, NEW p \in 0 .. n, p > g.pts
               PROVE  p \in Pts(v.frames) \/ Marked(v, p) \/ Marked(v, p - 1)
    BY <1>1, <1>4 DEF Spread
  <2>1. ~key /\ g \in win.frames /\ v.keyPts = win.keyPts
    BY <1>1, <1>4, <1>5
  <2>2. \A q \in Int : Marked(v, q) <=> Marked(win, q)
    BY <2>1 DEF Marked, SinceKey
  <2>3. CASE p = n
    <3>1. CASE slot \in AnchorSlots
      BY <1>1, <2>1, <2>2, <2>3, <3>1 DEF Planned
    <3>2. CASE slot \notin AnchorSlots
      <4>1. f.pts >= g.pts
        BY <1>1, <1>5, <2>1
      <4>2. f \in v.frames
        BY <1>4, <3>2, <4>1
      <4>3. QED
        BY <1>5, <2>3, <4>2 DEF Pts
    <3>3. QED
      BY <3>1, <3>2
  <2>4. CASE p # n
    <3>1. p \in 0 .. n - 1
      BY <1>1, <2>4
    <3>2. p \in Pts(win.frames) \/ Marked(win, p) \/ Marked(win, p - 1)
      BY <2>1, <3>1 DEF Laid, Spread
    <3>3. CASE p \in Pts(win.frames)
      <4>1. PICK h \in win.frames : h.pts = p
        BY <3>3 DEF Pts
      <4>2. h.pts >= g.pts
        BY <1>1, <2>1, <4>1
      <4>3. h \in v.frames
        BY <1>4, <2>1, <4>1, <4>2
      <4>4. QED
        BY <4>1, <4>3 DEF Pts
    <3>4. QED
      BY <2>2, <3>1, <3>2, <3>3
  <2>5. QED
    BY <2>3, <2>4
<1>7. Started(v)
  BY <1>1, <1>4 DEF Laid, Started, Planned
<1>8. Recalls(v)
  <2> SUFFICES ASSUME NEW g \in v.frames, v.nextPts - g.pts <= RecentFrames
               PROVE  g.pts \in Pts(v.recent)
    BY DEF Recalls
  <2>1. CASE g = f
    BY <1>4, <2>1 DEF Pts
  <2>2. CASE g # f
    <3>1. g \in win.frames /\ g.pts \in 0 .. n - 1 /\ RecentFrames \in Nat
      BY <1>1, <1>4, <2>2 DEF WindowAssumption
    <3>2. n + 1 - g.pts <= RecentFrames
      <4>1. v.nextPts = n + 1
        BY <1>4
      <4>2. QED
        BY <1>1, <3>1, <4>1
    <3>3. PICK r \in win.recent : r.pts = g.pts
      BY <1>1, <3>1, <3>2 DEF Laid, Recalls, Pts
    <3> DEFINE R == win.recent \cup {f}
    <3>4. /\ R \in SUBSET Frame /\ OnePerPts(R) /\ r \in R
          /\ \A h \in R : h.pts <= n
      BY <1>1, <1>4, <1>5, <3>3 DEF OnePerPts
    <3>5. n - r.pts < RecentFrames
      BY <1>1, <3>1, <3>2, <3>3
    <3>6. v.recent = Newest(R, RecentFrames)
      BY <1>4
    <3> HIDE DEF R
    <3>7. r \in v.recent
      BY <1>1, <3>1, <3>4, <3>5, <3>6, NewestKeeps
    <3>8. QED
      BY <3>3, <3>7 DEF Pts
  <2>3. QED
    BY <2>1, <2>2
<1>9. CountsTell(v, new)
  <2> SUFFICES ASSUME NEW g \in v.recent, NEW h \in v.recent, g.pts < h.pts,
                      new[g.pts].count = new[h.pts].count
               PROVE  g.lost \/ g.pts < v.keyPts
    BY DEF CountsTell
  <2>1. g \in win.recent \cup {f} /\ h \in win.recent \cup {f}
    BY <1>4 DEF Newest
  <2>2. g \in win.recent /\ g.pts \in 0 .. n - 1 /\ new[g.pts] = log[g.pts]
    BY <1>1, <1>2, <1>5, <2>1
  <2>3. CASE h = f
    <3>1. log[g.pts].count = count
      BY <1>2, <1>5, <2>2, <2>3
    <3>2. g.lost \/ key
      BY <2>2, <3>1
    <3>3. QED
      BY <1>1, <1>4, <2>2, <3>2
  <2>4. CASE h # f
    <3>1. h \in win.recent /\ new[h.pts] = log[h.pts]
      BY <1>1, <1>2, <2>1, <2>4
    <3>2. g.lost \/ g.pts < win.keyPts
      BY <2>2, <3>1 DEF Laid, CountsTell
    <3>3. QED
      BY <1>1, <1>4, <2>2, <3>2
  <2>5. QED
    BY <2>3, <2>4
<1>10. QED
  BY <1>4, <1>6, <1>7, <1>8, <1>9 DEF Laid, v, new

\* plan_anchor marks what is Planned.
LEMMA PlanIsPlanned ==
  ASSUME WindowAssumption, Anchored,
         NEW win, NEW log, WindowInv(win, log), Laid(win, log),
         NEW key \in BOOLEAN, key \/ HasReference(win)
  PROVE  /\ Planned(win, key, PlanAnchor(win, key))
         /\ PlanAnchor(win, key) \in AnchorSlots /\ ~key => Marked(win, win.nextPts)
<1> DEFINE slot == PlanAnchor(win, key)
<1>1. 0 \in AnchorSlots
  BY DEF Anchored, AnchorSlots, WindowAssumption
<1>2. NoSlot \notin AnchorSlots
  BY DEF NoSlot, AnchorSlots, WindowAssumption
<1>3. CASE key
  BY <1>3 DEF Planned
<1>4. CASE ~key /\ AnchorFrames(win) = {}
  <2>1. slot = 0
    BY <1>4 DEF PlanAnchor
  <2>2. win.frames # {}
    BY <1>4 DEF HasReference, Valid, Held
  <2>3. win.nextPts = win.keyPts + 1 /\ win.keyPts \in Nat
    BY <1>4, <2>2 DEF Laid, Started, WindowInv, Window
  <2>4. Marked(win, win.nextPts)
    BY <2>3 DEF Marked, SinceKey
  <2>5. QED
    BY <1>1, <2>1, <2>4 DEF Planned
<1>5. CASE ~key /\ AnchorFrames(win) # {}
  <2>1. ASSUME ~Scheduled(win), ~WrapsNext(win) PROVE slot = NoSlot
    BY <1>5, <2>1 DEF PlanAnchor
  <2>2. Scheduled(win) \/ WrapsNext(win) => Marked(win, win.nextPts)
    BY DEF Scheduled, WrapsNext, Marked
  <2>3. QED
    BY <1>2, <1>5, <2>1, <2>2 DEF Planned
<1>6. QED
  BY <1>3, <1>4, <1>5

LEMMA AnswersLaid ==
  ASSUME WindowAssumption,
         NEW win, NEW log, WindowInv(win, log), Laid(win, log)
  PROVE  /\ \A id : Laid(Invalidate(win, id).w, log)
         /\ Laid(Settle(win).w, log) /\ Laid(ForgetStale(win).w, log)
         /\ win.nextPts > 0 => Laid(Retract(win), log)
<1>1. win \in Window /\ \A f \in Held(win) \cup win.recent : f.pts < win.nextPts
  BY DEF WindowInv, NamesCoded
<1>2. ASSUME NEW v, v = win \/ \E cut, rcut \in Nat : Left(v, win, cut, rcut)
      PROVE  Laid(v, log)
  BY <1>1, <1>2, LeftLaid
<1>3. \A id : Laid(Invalidate(win, id).w, log)
  BY <1>1, <1>2, InvalidateLeft
<1>4. Laid(Settle(win).w, log) /\ Laid(ForgetStale(win).w, log)
  BY <1>1, <1>2, SettleLeft
<1>5. win.nextPts > 0 => Laid(Retract(win), log)
  BY <1>1, <1>2, RetractLeft
<1>6. QED
  BY <1>3, <1>4, <1>5

\* With anchors, what asks for no key frame leaves something to predict from.
LEMMA LeaveAsks ==
  ASSUME WindowAssumption, Anchored,
         NEW win \in Window, NEW from \in Nat, NEW all \in BOOLEAN,
         Leave(win, from, all).asks # "KeyFrame"
  PROVE  /\ HasReference(Leave(win, from, all).w)
         /\ Valid(Leave(win, from, all).w) = {f \in Valid(win) : f.pts < from}
<1> DEFINE cut == IF all THEN 0 ELSE from
           gone == [win EXCEPT !.frames = MarkLost(win.frames, cut),
                               !.anchors = MarkAnchors(win.anchors, cut)]
           v == Leave(win, from, all).w
<1>1. ~all /\ HasReference(gone)
  BY DEF Leave, Answer
<1>2. v = [gone EXCEPT !.recent = MarkLost(win.recent, from)]
  BY <1>1 DEF Leave, Answer
<1>3. v.frames = MarkLost(win.frames, from) /\ v.anchors = MarkAnchors(win.anchors, from)
  BY <1>1, <1>2 DEF Window
<1>4. v.frames = gone.frames /\ v.anchors = gone.anchors
  BY <1>2 DEF Window
<1>5. v \in Window
  <2>1. /\ MarkLost(win.frames, from) \in SUBSET Frame
        /\ MarkLost(win.recent, from) \in SUBSET Frame
        /\ MarkAnchors(win.anchors, from) \in [AnchorSlots -> Frame \cup {NoFrame}]
    BY MarkLostFrames, MarkAnchorsType DEF Window
  <2>2. v = [win EXCEPT !.frames = MarkLost(win.frames, from),
                        !.anchors = MarkAnchors(win.anchors, from),
                        !.recent = MarkLost(win.recent, from)]
    BY <1>1, <1>2
  <2>3. QED
    BY <2>1, <2>2 DEF Window
<1> HIDE DEF v, gone
<1>6. HasReference(v)
  BY <1>1, <1>4 DEF HasReference, Valid, Held, AnchorFrames
<1>7. Valid(v) = {f \in Valid(win) : f.pts < from}
  BY <1>3, <1>5, LeftHeld
<1>8. QED
  BY <1>6, <1>7 DEF v

LEMMA InvalidateAsks ==
  ASSUME WindowAssumption, Anchored,
         NEW win, NEW log, WindowInv(win, log), HasReference(win), NEW id,
         Invalidate(win, id).asks # "KeyFrame"
  PROVE  HasReference(Invalidate(win, id).w)
<1> DEFINE named == Named(win.recent, id)
           from == IF named = {} THEN win.keyPts ELSE Last(named).pts
           all == WrapCovered(win, from)
<1>1. /\ win \in Window /\ win.keyPts \in Nat /\ win.recent \in SUBSET Frame
      /\ win.nextPts \in Nat /\ \A f \in win.recent : f.pts < win.nextPts
  BY HeldFrames DEF WindowInv, NamesCoded
<1>2. from \in Nat
  <2>1. named # {} => Last(named) \in named
    BY <1>1, LastIsLast DEF Named
  <2>2. QED
    BY <1>1, <2>1 DEF Named, Frame
<1>3. all \in BOOLEAN
  BY DEF WrapCovered
<1>4. Invalidate(win, id) \in {Ignored(win), Leave(win, from, all)}
  BY DEF Invalidate, InvalidateAnchored
<1>5. Ignored(win).w = win
  BY DEF Ignored, Answer
<1> HIDE DEF from, all
<1>6. QED
  BY <1>1, <1>2, <1>3, <1>4, <1>5, LeaveAsks

\* What is not forced to a key frame has something to predict from.
LEMMA SettledReference ==
  ASSUME WindowAssumption, Anchored,
         WindowInv(w, coded), forceIdr \in BOOLEAN, NEW refuses \in BOOLEAN
  PROVE  LET a == Settled(w, forceIdr \/ ~HasReference(w), refuses)
         IN  WindowInv(a.w, coded) /\ (a.key \/ HasReference(a.w))
<1> DEFINE key == forceIdr \/ ~HasReference(w)
           a == Settled(w, key, refuses)
<1>1. CASE key \/ PlanAnchor(w, FALSE) = NoSlot
  BY <1>1 DEF Settled, Stage
<1>2. CASE ~key /\ PlanAnchor(w, FALSE) # NoSlot
  <2>1. /\ a.w = Settle(w).w
        /\ Settle(w).asks = "KeyFrame" => a.key
    BY <1>2 DEF Settled, Applied, Stage
  <2>2. \E id : Settle(w) \in {Ignored(w), Invalidate(w, id)}
    BY DEF Settle
  <2>3. Settle(w).asks # "KeyFrame" => HasReference(Settle(w).w)
    BY <1>2, <2>2, InvalidateAsks DEF Ignored, Answer
  <2>4. WindowInv(Settle(w).w, coded)
    BY AnswersKeep
  <2>5. QED
    BY <2>1, <2>3, <2>4
<1>3. QED
  BY <1>1, <1>2

LEMMA PreparedReference ==
  ASSUME WindowAssumption, Anchored,
         WindowInv(w, coded), forceIdr \in BOOLEAN, NEW refuses \in BOOLEAN
  PROVE  Prepared(refuses).key \/ HasReference(Prepared(refuses).w)
<1> DEFINE key == forceIdr \/ ~HasReference(w)
           a == Settled(w, key, refuses)
           s == Prepared(refuses)
<1>1. s = IF a.key THEN a ELSE Applied(ForgetStale(a.w), refuses)
  BY DEF Prepared, Refreshed
<1>2. WindowInv(a.w, coded) /\ (a.key \/ HasReference(a.w))
  BY SettledReference
<1> HIDE DEF a, s
<1>3. CASE a.key
  BY <1>1, <1>3 DEF s
<1>4. CASE ~a.key
  <2>1. s.w = ForgetStale(a.w).w /\ (ForgetStale(a.w).asks = "KeyFrame" => s.key)
    BY <1>1, <1>4 DEF Applied, Stage
  <2>2. \E id : ForgetStale(a.w) \in {Ignored(a.w), Invalidate(a.w, id)}
    BY DEF ForgetStale
  <2>3. ForgetStale(a.w).asks # "KeyFrame" => HasReference(ForgetStale(a.w).w)
    BY <1>2, <1>4, <2>2, InvalidateAsks DEF Ignored, Answer
  <2>4. QED
    BY <2>1, <2>3 DEF s
<1>5. QED
  BY <1>3, <1>4

LEMMA PreparedLaid ==
  ASSUME WindowAssumption,
         WindowInv(w, coded), Laid(w, coded), forceIdr \in BOOLEAN, NEW refuses \in BOOLEAN
  PROVE  Laid(Prepared(refuses).w, coded)
<1> DEFINE key == forceIdr \/ ~HasReference(w)
           a == Settled(w, key, refuses)
           s == Prepared(refuses)
<1>1. a.w \in {w, Settle(w).w}
  BY DEF Settled, Applied, Stage
<1>2. s.w \in {a.w, ForgetStale(a.w).w}
  BY DEF Prepared, Refreshed, Applied, Stage
<1> HIDE DEF a, s
<1>3. WindowInv(a.w, coded) /\ Laid(a.w, coded)
  BY <1>1, AnswersKeep, AnswersLaid
<1>4. Laid(s.w, coded)
  BY <1>2, <1>3, AnswersLaid
<1>5. QED
  BY <1>4 DEF s

\* What a first coding leaves, taken back or in place, and the second one.
LEMMA AgainLaid ==
  ASSUME WindowAssumption, Anchored,
         NEW win, NEW log, NEW gone, Sound(win, log, gone), Due(win, log, count),
         Laid(win, log), count \in Nat,
         \A p \in 0 .. win.nextPts - 1 : log[p].count < count,
         NEW key \in BOOLEAN, key \/ HasReference(win), NEW named,
         NEW unsent \in BOOLEAN, ~unsent, NEW sent \in BOOLEAN
  PROVE  LET slot == PlanAnchor(win, key)
             first == Record(win, Id(count), key, slot)
             new == Logged(log, win, key, named, unsent)
             back == TakenBack(first, key)
         IN  /\ Laid(back, new)
             /\ Laid(Record(back, Id(count), key, slot),
                     Logged(new, back, key, named, sent))
<1> DEFINE n == win.nextPts
           slot == PlanAnchor(win, key)
           f == NextFrame(win, Id(count))
           first == Record(win, Id(count), key, slot)
           new == Logged(log, win, key, named, unsent)
           back == TakenBack(first, key)
<1>1. /\ WindowInv(win, log) /\ win \in Window /\ n \in Nat /\ win.keyPts \in Nat
      /\ IsFiniteSet(win.frames) /\ Id(count) \in Ids
      /\ \A r \in win.recent : r.pts \in 0 .. n - 1
      /\ win.recent \in SUBSET Frame
  BY ModType, HeldFrames DEF Sound, WindowInv, NamesCoded, Id, Frame
<1>2. /\ Planned(win, key, slot)
      /\ slot \in AnchorSlots /\ ~key => Marked(win, n)
  BY <1>1, PlanIsPlanned
<1>3. /\ \A p \in 0 .. n - 1 : new[p] = log[p]
  BY <1>1 DEF Logged
<1> HIDE DEF slot
<1>4. Recorded(first, win, Id(count), key, slot)
  BY <1>1, RecordFields
<1>5. Laid(first, new)
  BY <1>1, <1>2, RecordLaid
<1>6. Sound(first, new, gone) /\ first.nextPts = n + 1
  BY CodedSound
<1> HIDE DEF first, new
<1>7. /\ first \in Window /\ first.nextPts = n + 1
      /\ first.keyPts = IF key THEN n ELSE win.keyPts
      /\ first.recent \in SUBSET (win.recent \cup {f})
      /\ slot \in AnchorSlots => AnchorFrames(first) # {}
      /\ slot \notin AnchorSlots /\ ~key => AnchorFrames(first) = AnchorFrames(win)
      /\ f \in Frame /\ f.pts = n
  BY <1>4 DEF Recorded, Newest, NextFrame
<1> HIDE DEF f
<1>8. Sound(back, new, gone) /\ back.nextPts = n + 1
  BY <1>1, <1>6, TakenBackSound
<1>9. Laid(back, new)
  <2>1. Laid(Retract(first), new)
    BY <1>1, <1>5, <1>6, AnswersLaid DEF Sound
  <2>2. QED
    BY <1>5, <2>1 DEF TakenBack
<1>10. /\ slot \in AnchorSlots \/ key \/ AnchorFrames(back) # {}
       /\ ~key => back.keyPts = win.keyPts
       /\ \A r \in back.recent : new[r.pts].count < count \/ r.lost \/ key
  <2>1. CASE key
    BY <2>1
  <2>2. CASE ~key
    <3>1. /\ back.recent = MarkLost(first.recent, n)
          /\ back.anchors = MarkAnchors(first.anchors, n)
          /\ back.keyPts = win.keyPts
      BY <1>1, <1>7, <2>2 DEF TakenBack, Retract, Window
    <3>2. back \in Window
      BY <1>8 DEF Sound, WindowInv
    <3> HIDE DEF back
    <3>3. AnchorFrames(back) = MarkLost(AnchorFrames(first), n)
      BY <1>1, <1>7, <3>1, <3>2, LeftAnchors
    <3>4. slot \in AnchorSlots \/ AnchorFrames(back) # {}
      BY <1>2, <1>7, <2>2, <3>3 DEF MarkLost, Planned
    <3>5. ASSUME NEW r \in back.recent PROVE new[r.pts].count < count \/ r.lost
      <4>1. PICK g \in first.recent : r = LostFrom(g, n)
        BY <3>1 DEF MarkLost
      <4>2. g \in Frame /\ g \in win.recent \cup {f}
        BY <1>1, <1>7
      <4>3. r.pts = g.pts /\ (r.lost <=> g.lost \/ g.pts >= n)
        BY <1>1, <4>1, <4>2, LostFromFrame
      <4>4. CASE g = f
        BY <1>1, <1>7, <4>3, <4>4
      <4>5. CASE g # f
        BY <1>1, <1>3, <4>2, <4>3, <4>5
      <4>6. QED
        BY <4>4, <4>5
    <3>6. QED
      BY <3>1, <3>4, <3>5
  <2>3. QED
    BY <2>1, <2>2
<1> HIDE DEF back
<1>11. Planned(back, key, slot)
  <2>1. ASSUME slot \in AnchorSlots, ~key PROVE Marked(back, back.nextPts - 1)
    <3>1. back.nextPts - 1 = n
      BY <1>1, <1>8
    <3>2. Marked(win, n) /\ back.keyPts = win.keyPts
      BY <1>2, <1>10, <2>1
    <3>3. QED
      BY <3>1, <3>2 DEF Marked, SinceKey
  <2>2. QED
    BY <1>10, <2>1 DEF Planned
<1>12. Laid(Record(back, Id(count), key, slot), Logged(new, back, key, named, sent))
  BY <1>8, <1>9, <1>10, <1>11, RecordLaid DEF Sound
<1>13. QED
  BY <1>9, <1>12 DEF back, new, first, slot

\* A window with the same frames, dated and sized alike.
LEMMA SameFramesLaid ==
  ASSUME NEW win, NEW log, Laid(win, log), NEW v, v.frames = win.frames,
         v.anchors = win.anchors, v.recent = win.recent, v.nextPts = win.nextPts,
         v.keyPts = win.keyPts, v.capacity = win.capacity
  PROVE  Laid(v, log)
<1>1. AnchorFrames(v) = AnchorFrames(win)
  BY DEF AnchorFrames
<1>2. QED
  BY <1>1 DEF Laid, Spread, Started, Recalls, CountsTell, Marked, SinceKey

LEMMA AcknowledgeLaid ==
  ASSUME NEW win \in Window, NEW log, Laid(win, log), NEW id, NEW held \in BOOLEAN
  PROVE  Laid(Acknowledge(win, id, held), log)
<1> DEFINE v == Acknowledge(win, id, held)
<1>1. /\ v.frames = win.frames /\ v.anchors = win.anchors /\ v.recent = win.recent
      /\ v.nextPts = win.nextPts /\ v.keyPts = win.keyPts /\ v.capacity = win.capacity
  BY DEF Acknowledge, SetAcknowledged, Window
<1>2. QED
  BY <1>1, SameFramesLaid

\* A window that holds and remembers nothing.
LEMMA EmptyLaid ==
  ASSUME NEW v, v.frames = {}, v.recent = {}, v.capacity \in Capacities, NEW log
  PROVE  Laid(v, log)
BY DEF Laid, Spread, Started, Recalls, CountsTell

LEMMA ResetLaid ==
  ASSUME NEW win \in Window, NEW buffer \in Buffers, NEW log
  PROVE  Laid(Reset(SetCapacity(win, buffer)), log)
<1> DEFINE v == Reset(SetCapacity(win, buffer))
<1>1. v.frames = {} /\ v.recent = {} /\ v.capacity = Beside(buffer)
  BY DEF Reset, SetCapacity, Trim, Window
<1>2. QED
  BY <1>1, EmptyLaid DEF Capacities

LEMMA InitLaid ==
  ASSUME Init
  PROVE  Laid(w, coded)
<1>1. w.frames = {} /\ w.recent = {} /\ w.capacity \in Capacities
  BY DEF Init, NewWindow, Capacities
<1>2. QED
  BY <1>1, EmptyLaid

LEMMA NextLaid ==
  ASSUME WindowAssumption, SessionAssumption, Anchored, IInv, Laid(w, coded), [Next]_vars
  PROVE  Laid(w', coded')
<1>1. /\ WindowInv(w, coded) /\ w \in Window /\ forceIdr \in BOOLEAN /\ count \in Nat
      /\ \A p \in 0 .. w.nextPts - 1 : coded[p].count < count
      /\ w.nextPts \in Nat
  BY DEF IInv, TypeOK, WindowInv, Window
<1>2. ASSUME NEW refuses \in BOOLEAN
      PROVE  LET s == Prepared(refuses)
             IN  /\ Sound(s.w, coded, lost) /\ WindowInv(s.w, coded)
                 /\ Laid(s.w, coded) /\ s.key \in BOOLEAN
                 /\ s.key \/ HasReference(s.w)
                 /\ Due(s.w, coded, count)
                 /\ \A p \in 0 .. s.w.nextPts - 1 : coded[p].count < count
                 /\ \A r \in s.w.recent : coded[r.pts].count < count
  <2> DEFINE s == Prepared(refuses)
  <2>1. /\ Sound(s.w, coded, lost) /\ s.w.nextPts = w.nextPts
        /\ s.key \in BOOLEAN /\ Due(s.w, coded, count)
    BY PreparedSound
  <2>2. Laid(s.w, coded) /\ (s.key \/ HasReference(s.w))
    BY <1>1, PreparedLaid, PreparedReference
  <2> HIDE DEF s
  <2>3. \A r \in s.w.recent : r.pts \in 0 .. w.nextPts - 1
    BY <1>1, <2>1, HeldFrames DEF Sound, WindowInv, NamesCoded, Frame
  <2>4. QED
    BY <1>1, <2>1, <2>2, <2>3 DEF Sound, s
<1>3. CASE EncodeFrame
  <2>1. PICK refuses \in BOOLEAN, sent \in BOOLEAN :
            LET s == Prepared(refuses)
            IN  /\ w' = Record(s.w, Id(count), s.key, PlanAnchor(s.w, s.key))
                /\ coded' = Logged(coded, s.w, s.key, PredictingAnchor(s.w, s.key), sent)
    BY <1>3 DEF EncodeFrame
  <2> DEFINE s == Prepared(refuses)
             named == PredictingAnchor(s.w, s.key)
  <2>2. /\ WindowInv(s.w, coded) /\ Laid(s.w, coded) /\ s.key \in BOOLEAN
        /\ s.key \/ HasReference(s.w)
        /\ \A r \in s.w.recent : coded[r.pts].count < count
    BY <1>2
  <2>3. /\ w' = Record(s.w, Id(count), s.key, PlanAnchor(s.w, s.key))
        /\ coded' = Logged(coded, s.w, s.key, named, sent)
    BY <2>1
  <2> HIDE DEF s, named
  <2>4. Planned(s.w, s.key, PlanAnchor(s.w, s.key))
    BY <2>2, PlanIsPlanned
  <2>5. QED
    BY <1>1, <2>2, <2>3, <2>4, RecordLaid
<1>4. CASE EncodeOwnKey
  <2> DEFINE s == Prepared(FALSE)
  <2>1. PICK key \in BOOLEAN, sent \in BOOLEAN :
            /\ key
            /\ w' = Record(s.w, Id(count), key, PlanAnchor(s.w, FALSE))
            /\ coded' = Logged(coded, s.w, key, NoSlot, sent)
    BY <1>4 DEF EncodeOwnKey
  <2>2. /\ WindowInv(s.w, coded) /\ Laid(s.w, coded)
        /\ \A r \in s.w.recent : coded[r.pts].count < count
    BY <1>2
  <2> HIDE DEF s
  <2>3. Planned(s.w, key, PlanAnchor(s.w, FALSE))
    BY <2>1 DEF Planned
  <2>4. QED
    BY <1>1, <2>1, <2>2, <2>3, RecordLaid
<1>5. CASE EncodeAgain \/ EncodeAgainFails
  <2> DEFINE s == Prepared(FALSE)
             named == PredictingAnchor(s.w, s.key)
             slot == PlanAnchor(s.w, s.key)
             first == Record(s.w, Id(count), s.key, slot)
             back == TakenBack(first, s.key)
  <2>1. PICK unsent \in BOOLEAN, sent \in BOOLEAN :
            LET new == Logged(coded, s.w, s.key, named, unsent)
            IN  /\ ~unsent
                /\ \/ w' = back /\ coded' = new
                   \/ /\ w' = Record(back, Id(count), s.key, slot)
                      /\ coded' = Logged(new, back, s.key, named, sent)
    BY <1>5 DEF EncodeAgain, EncodeAgainFails
  <2>2. /\ Sound(s.w, coded, lost) /\ Laid(s.w, coded) /\ s.key \in BOOLEAN
        /\ s.key \/ HasReference(s.w)
        /\ Due(s.w, coded, count)
        /\ \A p \in 0 .. s.w.nextPts - 1 : coded[p].count < count
    BY <1>2
  <2> HIDE DEF s, named
  <2>3. /\ Laid(back, Logged(coded, s.w, s.key, named, unsent))
        /\ Laid(Record(back, Id(count), s.key, slot),
                Logged(Logged(coded, s.w, s.key, named, unsent), back, s.key, named, sent))
    BY <1>1, <2>1, <2>2, AgainLaid
  <2>4. QED
    BY <2>1, <2>3
<1>6. CASE EncodeFails
  BY <1>2, <1>6 DEF EncodeFails
<1>7. CASE SkipFrame \/ RequestIdr \/ UNCHANGED vars
  BY <1>7 DEF SkipFrame, RequestIdr, vars
<1>8. CASE ReportLost
  BY <1>1, <1>8, AnswersLaid DEF ReportLost
<1>9. CASE ReportHeld
  BY <1>1, <1>9, AcknowledgeLaid DEF ReportHeld
<1>10. CASE ResetStream
  BY <1>1, <1>10, ResetLaid DEF ResetStream
<1>11. QED
  BY <1>3, <1>4, <1>5, <1>6, <1>7, <1>8, <1>9, <1>10 DEF Next

\* The frames remembered are among the last IdMod ones published.
Young(win, log, now) == \A r \in win.recent : now - log[r.pts].count <= IdMod
YoungIds == Young(w, coded, count)

\* Its id names a frame remembered, of the last IdMod published and not left
\* out, and no other.
LEMMA NamedAlone ==
  ASSUME WindowAssumption,
         NEW win, NEW log, WindowInv(win, log), Dating(win, log), CountsTell(win, log),
         NEW now \in Nat, \A p \in 0 .. win.nextPts - 1 : log[p].count < now,
         Young(win, log, now),
         NEW f \in win.recent, ~f.lost, f.pts >= win.keyPts
  PROVE  Named(win.recent, f.id) # {} /\ Last(Named(win.recent, f.id)) = f
<1> DEFINE S == Named(win.recent, f.id)
           g == Last(S)
           a == log[f.pts].count
           b == log[g.pts].count
<1>1. /\ win.recent \in SUBSET Frame /\ win.nextPts \in Nat /\ win.keyPts \in Nat
      /\ \A r \in win.recent : r.pts \in 0 .. win.nextPts - 1 /\ r.id = Id(log[r.pts].count)
      /\ \A r, s \in win.recent : r.pts = s.pts => r = s
      /\ \A p \in 0 .. win.nextPts - 1 : log[p].count \in Nat
  BY HeldFrames, Counts DEF WindowInv, NamesCoded, Frame
<1>2. f \in S /\ S \in SUBSET Frame /\ \A r \in S : r.pts < win.nextPts
  BY <1>1 DEF Named
<1>3. g \in S /\ \A r \in S : r.pts <= g.pts
  BY <1>1, <1>2, LastIsLast
<1> HIDE DEF g
<1>4. g \in win.recent /\ g.id = f.id /\ f.pts <= g.pts
  BY <1>2, <1>3 DEF Named
<1>5. ASSUME f.pts < g.pts PROVE FALSE
  <2>1. a \in Nat /\ b \in Nat /\ a <= b /\ b < now /\ now - a <= IdMod
    BY <1>1, <1>4, <1>5 DEF Dating, Young
  <2>2. a # b
    BY <1>1, <1>4, <1>5 DEF CountsTell
  <2>3. Id(a) = Id(b)
    BY <1>1, <1>4
  <2> HIDE DEF a, b
  <2>4. b - a < IdMod /\ b - a # 0 /\ IdMod \in Nat \ {0}
    BY <2>1, <2>2 DEF WindowAssumption
  <2>5. WrappingSub(b % IdMod, a % IdMod) = b - a
    BY <2>1, <2>4, WrappingSubOfCounts
  <2>6. (b % IdMod) - (a % IdMod) = 0
    BY <2>1, <2>3, <2>4 DEF Id
  <2>7. 0 % IdMod = 0
    BY <2>4
  <2>8. QED
    BY <2>4, <2>5, <2>6, <2>7 DEF WrappingSub
<1>6. f = g
  BY <1>1, <1>4, <1>5
<1>7. QED
  BY <1>2, <1>6 DEF g

\* forget_stale, of a window that remembers what it holds: what is left to
\* predict from is an anchor, or near enough, or a key frame is asked for.
LEMMA StaleIsForgotten ==
  ASSUME WindowAssumption, Anchored, FrameNumRange > 0,
         NEW win, NEW log, WindowInv(win, log), Dating(win, log), CountsTell(win, log),
         NEW now \in Nat, \A p \in 0 .. win.nextPts - 1 : log[p].count < now,
         Young(win, log, now),
         \A f \in win.frames : f.pts \in Pts(win.recent),
         HasReference(win), ForgetStale(win).asks # "KeyFrame"
  PROVE  LET v == ForgetStale(win).w
         IN  /\ HasReference(v)
             /\ \/ NewestValid(v).pts \in Pts(AnchorFrames(win))
                \/ win.nextPts - NewestValid(v).pts <= win.capacity
<1> DEFINE newest == NewestValid(win)
           fresh == {f \in win.frames : ~f.lost}
           anchors == {a \in AnchorFrames(win) :
                            ~a.lost /\ (win.acknowledged => IsShared(win, a.pts))}
           back == Last(anchors)
           after == IF anchors = {} THEN fresh ELSE After(win, back.pts)
           first == First(after)
           x == ForgetStale(win)
           v == x.w
<1>1. /\ win \in Window /\ win.recent \in SUBSET Frame /\ win.frames \in SUBSET Frame
      /\ AnchorFrames(win) \in SUBSET Frame /\ Valid(win) \in SUBSET Frame
      /\ win.nextPts \in Nat /\ win.keyPts \in Nat /\ win.capacity \in Nat
      /\ \A f \in Held(win) : f.pts >= win.keyPts
      /\ \A f \in Held(win) \cup win.recent : f.pts < win.nextPts
      /\ \A f \in Held(win), r \in win.recent : f.pts = r.pts => f = r
  BY HeldFrames DEF WindowInv, NamesCoded, Window, Held, AnchorFrames
<1>2. newest \in Valid(win) /\ \A g \in Valid(win) : g.pts <= newest.pts
  <2>1. newest = Last(Valid(win))
    BY DEF NewestValid, Last
  <2>2. \A g \in Valid(win) : g.pts < win.nextPts
    BY <1>1 DEF Valid
  <2>3. QED
    BY <1>1, <2>1, <2>2, LastIsLast DEF HasReference
<1>3. \A f \in win.frames : f \in win.recent
  BY <1>1 DEF Pts, Held
<1>4. ASSUME anchors # {}
      PROVE  back \in anchors /\ back.pts >= win.keyPts /\ back \in Valid(win)
  <2>1. anchors \in SUBSET Frame /\ \A a \in anchors : a.pts < win.nextPts
    BY <1>1 DEF Held
  <2>2. back \in anchors
    BY <1>1, <1>4, <2>1, LastIsLast
  <2>3. QED
    BY <1>1, <2>2 DEF Valid, Held
<1>5. ASSUME newest \notin fresh \/ win.nextPts - newest.pts <= win.capacity
      PROVE  /\ x = Ignored(win)
             /\ \/ newest.pts \in Pts(AnchorFrames(win))
                \/ win.nextPts - newest.pts <= win.capacity
  <2>1. newest \notin fresh => newest \in AnchorFrames(win)
    BY <1>2 DEF Valid, Held
  <2>2. QED
    BY <1>5, <2>1 DEF ForgetStale, Pts
<1>6. ASSUME newest \in fresh, ~(win.nextPts - newest.pts <= win.capacity), after = {}
      PROVE  x = Ignored(win) /\ newest.pts \in Pts(AnchorFrames(win))
  <2>1. anchors # {} /\ After(win, back.pts) = {}
    BY <1>6
  <2>2. back \in AnchorFrames(win) /\ back \in Held(win) /\ back.pts <= newest.pts
    BY <1>2, <1>4, <2>1 DEF Held
  <2>3. newest \in win.recent /\ ~newest.lost
    BY <1>3, <1>6
  <2>4. newest.pts = back.pts
    BY <1>1, <2>1, <2>2, <2>3 DEF After, Frame
  <2>5. QED
    BY <1>6, <2>2, <2>4 DEF ForgetStale, Pts
<1>7. ASSUME newest \in fresh, ~(win.nextPts - newest.pts <= win.capacity), after # {}
      PROVE  /\ HasReference(v)
             /\ NewestValid(v).pts \in Pts(AnchorFrames(win))
  <2>1. x = Invalidate(win, first.id)
    BY <1>7 DEF ForgetStale
  <2>2. after \in SUBSET win.recent /\ \A f \in after : ~f.lost /\ f.pts >= win.keyPts
    <3>1. CASE anchors = {}
      BY <1>1, <1>3, <3>1 DEF Held
    <3>2. CASE anchors # {}
      <4>1. back.pts \in Nat /\ back.pts >= win.keyPts
        BY <1>1, <1>4, <3>2 DEF Frame
      <4>2. QED
        BY <1>1, <3>2, <4>1 DEF After, Frame
    <3>3. QED
      BY <3>1, <3>2
  <2> HIDE DEF after, x
  <2>3. first \in after /\ \A g \in after : first.pts <= g.pts
    BY <1>1, <1>7, <2>2, FirstIsFirst
  <2>4. first \in win.recent /\ ~first.lost /\ first.pts >= win.keyPts /\ first.pts \in Nat
    BY <1>1, <2>2, <2>3 DEF Frame
  <2> HIDE DEF first
  <2>5. /\ Named(win.recent, first.id) # {}
        /\ Last(Named(win.recent, first.id)) = first
    BY <2>4, NamedAlone
  <2>6. ~(first.pts < win.keyPts)
    BY <1>1, <2>4
  <2>7. x = Leave(win, first.pts, WrapCovered(win, first.pts))
    BY <2>1, <2>4, <2>5, <2>6 DEF Invalidate, InvalidateAnchored
  <2>8. WrapCovered(win, first.pts) \in BOOLEAN
    BY DEF WrapCovered
  <2>9. HasReference(v) /\ Valid(v) = {f \in Valid(win) : f.pts < first.pts}
    BY <1>1, <2>4, <2>7, <2>8, LeaveAsks DEF x
  <2>10. PICK n : /\ n = NewestValid(v)
                  /\ n \in Valid(win) /\ n.pts < first.pts
                  /\ \A g \in Valid(win) : g.pts < first.pts => g.pts <= n.pts
    <3> DEFINE T == Valid(v)
    <3>1. /\ T \in SUBSET Frame /\ T # {} /\ \A g \in T : g.pts < win.nextPts
      BY <1>1, <2>9 DEF HasReference, Valid
    <3>2. NewestValid(v) = Last(T)
      BY DEF NewestValid, Last
    <3>3. NewestValid(v) \in T /\ \A g \in T : g.pts <= NewestValid(v).pts
      BY <1>1, <3>1, <3>2, LastIsLast
    <3>4. QED
      BY <2>9, <3>3
  <2>11. n.pts \in Pts(AnchorFrames(win))
    <3>1. n \in win.frames \/ n \in AnchorFrames(win)
      BY <2>10 DEF Valid, Held
    <3>2. ASSUME n \in win.frames PROVE n.pts \in Pts(AnchorFrames(win))
      <4>1. n \in win.recent /\ ~n.lost /\ n.pts \in Nat /\ n \in Frame
        BY <1>1, <1>3, <2>10, <3>2 DEF Valid, Frame
      <4>2. n \notin after
        BY <1>1, <2>3, <2>4, <2>10, <4>1
      <4>3. anchors # {} /\ n \notin After(win, back.pts)
        BY <3>2, <4>1, <4>2 DEF after
      <4>4. back \in AnchorFrames(win) /\ back \in Valid(win) /\ back.pts \in Nat
        BY <1>1, <1>4, <4>3 DEF Frame
      <4>5. n.pts <= back.pts
        BY <4>1, <4>3, <4>4 DEF After
      <4>6. back.pts < first.pts
        <5>1. after = After(win, back.pts)
          BY <4>3 DEF after
        <5>2. QED
          BY <2>3, <5>1 DEF After
      <4>7. back.pts = n.pts
        BY <2>10, <4>1, <4>4, <4>5, <4>6
      <4>8. QED
        BY <4>4, <4>7 DEF Pts
    <3>3. QED
      BY <3>1, <3>2 DEF Pts
  <2>12. QED
    BY <2>9, <2>10, <2>11
<1>8. Ignored(win).w = win
  BY DEF Ignored, Answer
<1> HIDE DEF after, newest, fresh, x
<1>9. CASE x = Ignored(win)
  <2>1. v = win
    BY <1>8, <1>9
  <2>2. QED
    BY <1>5, <1>6, <1>7, <2>1 DEF newest, x
<1>10. QED
  BY <1>5, <1>6, <1>7, <1>9 DEF x

\* What a step of the window prepared predicts from.
LEMMA PreparedKept ==
  ASSUME WindowAssumption, Anchored, Paced,
         IInv, Bounded(w), Laid(w, coded), YoungIds, NEW refuses \in BOOLEAN,
         ~Prepared(refuses).key
  PROVE  LET v == Prepared(refuses).w
         IN  /\ HasReference(v)
             /\ \/ NewestValid(v).pts \in Pts(AnchorFrames(w))
                \/ w.nextPts - NewestValid(v).pts <= w.capacity
<1> DEFINE key == forceIdr \/ ~HasReference(w)
           a == Settled(w, key, refuses)
           u == a.w
           s == Prepared(refuses)
<1>1. /\ Sound(w, coded, lost) /\ WindowInv(w, coded) /\ w \in Window
      /\ forceIdr \in BOOLEAN /\ count \in Nat
      /\ \A p \in 0 .. w.nextPts - 1 : coded[p].count < count
      /\ \A f \in Held(w) \cup w.recent : f.pts < w.nextPts
      /\ w.recent \in SUBSET Frame
  BY HeldFrames DEF IInv, TypeOK, Sound, WindowInv, NamesCoded
<1>2. u \in {w, Settle(w).w} /\ key \in BOOLEAN
  BY <1>1 DEF Settled, Applied, Stage
<1>3. s = IF a.key THEN a ELSE Applied(ForgetStale(u), refuses)
  BY DEF Prepared, Refreshed
<1>4. WindowInv(u, coded) /\ (a.key \/ HasReference(u))
  BY <1>1, SettledReference
<1> HIDE DEF a, s
<1>5. ~a.key /\ s.w = ForgetStale(u).w /\ ForgetStale(u).asks # "KeyFrame"
  <2>1. ~s.key
    BY DEF s
  <2>2. ~a.key
    BY <1>3, <2>1
  <2>3. s = Applied(ForgetStale(u), refuses)
    BY <1>3, <2>2
  <2> HIDE DEF u
  <2>4. QED
    BY <2>1, <2>2, <2>3 DEF Applied, Stage
<1> HIDE DEF u
<1>6. Sound(u, coded, lost) /\ Bounded(u) /\ Laid(u, coded)
  <2>1. Less(Settle(w).w, w) /\ WindowInv(Settle(w).w, coded)
    BY <1>1, AnswersKeep
  <2>2. Sound(Settle(w).w, coded, lost)
    BY <1>1, <2>1, LessSound
  <2>3. QED
    BY <1>1, <1>2, <2>2, AnswersBounded, AnswersLaid
<1>7. /\ u.nextPts = w.nextPts /\ u.capacity = w.capacity
      /\ Pts(AnchorFrames(u)) = Pts(AnchorFrames(w))
      /\ \A r \in u.recent : \E g \in w.recent : g.pts = r.pts
  <2>1. CASE u = w
    BY <2>1
  <2>2. CASE \E cut, rcut \in Nat : Left(u, w, cut, rcut)
    <3>1. PICK cut \in Nat, rcut \in Nat : Left(u, w, cut, rcut)
      BY <2>2
    <3>2. /\ u \in Window /\ u.nextPts = w.nextPts /\ u.capacity = w.capacity
          /\ u.anchors = MarkAnchors(w.anchors, cut)
          /\ u.recent = MarkLost(w.recent, rcut)
      BY <1>1, <3>1, LeftFields
    <3>3. AnchorFrames(u) = MarkLost(AnchorFrames(w), cut)
      BY <1>1, <3>2, LeftAnchors
    <3>4. AnchorFrames(w) \in SUBSET Frame
      BY <1>1, AnchorsAreFew
    <3>5. Pts(AnchorFrames(u)) = Pts(AnchorFrames(w))
      BY <3>3, <3>4, MarkLostPts
    <3>6. \A r \in u.recent : \E g \in w.recent : g.pts = r.pts
      <4>1. Pts(u.recent) = Pts(w.recent)
        BY <1>1, <3>2, MarkLostPts
      <4>2. QED
        BY <4>1 DEF Pts
    <3>7. QED
      BY <3>2, <3>5, <3>6
  <2>3. QED
    BY <1>1, <1>2, <2>1, <2>2, SettleLeft
<1>8. Young(u, coded, count)
  BY <1>7 DEF YoungIds, Young
<1>9. \A f \in u.frames : f.pts \in Pts(u.recent)
  BY <1>4, <1>6, HeldIsRemembered
<1>10. FrameNumRange > 0 /\ HasReference(u) /\ CountsTell(u, coded) /\ Dating(u, coded)
  BY <1>4, <1>5, <1>6 DEF Paced, Laid, Sound, WindowAssumption
<1>11. \A p \in 0 .. u.nextPts - 1 : coded[p].count < count
  BY <1>1, <1>7
<1> DEFINE v == ForgetStale(u).w
<1>12. /\ HasReference(v)
       /\ \/ NewestValid(v).pts \in Pts(AnchorFrames(u))
          \/ u.nextPts - NewestValid(v).pts <= u.capacity
  BY <1>1, <1>4, <1>5, <1>8, <1>9, <1>10, <1>11, StaleIsForgotten
<1> HIDE DEF v
<1>13. s.w = v
  BY <1>5 DEF v
<1>14. QED
  BY <1>7, <1>12, <1>13 DEF s

LEMMA NextKept ==
  ASSUME WindowAssumption, SessionAssumption, Paced,
         IInv, IInv', Bounded(w), Anchored => Laid(w, coded), YoungIds, [Next]_vars
  PROVE  KeptStep
<1> SUFFICES ASSUME Anchored, w'.nextPts > w.nextPts, ~EncodeAgain
             PROVE  LET p == w'.nextPts - 1
                        from == coded'[p].from
                    IN  from \in Pts(AnchorFrames(w)) \/ p - from <= w.capacity
  BY DEF KeptStep
<1>1. /\ WindowInv(w, coded) /\ w.nextPts \in Nat /\ w.capacity \in Nat
      /\ forceIdr \in BOOLEAN /\ count \in Nat /\ Sound(w, coded, lost)
  BY DEF IInv, TypeOK, WindowInv, Window, Sound
<1>2. ASSUME NEW refuses \in BOOLEAN
      PROVE  LET s == Prepared(refuses)
             IN  /\ Sound(s.w, coded, lost) /\ WindowInv(s.w, coded)
                 /\ s.w.nextPts = w.nextPts /\ s.key \in BOOLEAN
                 /\ Due(s.w, coded, count)
  BY <1>2, PreparedSound DEF Sound
<1>3. ASSUME NEW from, \/ from = w.nextPts
                       \/ from \in Pts(AnchorFrames(w))
                       \/ w.nextPts - from <= w.capacity,
             w'.nextPts = w.nextPts + 1, coded'[w.nextPts].from = from
      PROVE  LET p == w'.nextPts - 1
             IN  coded'[p].from \in Pts(AnchorFrames(w)) \/ p - coded'[p].from <= w.capacity
  <2>1. w'.nextPts - 1 = w.nextPts
    BY <1>1, <1>3
  <2>2. from = w.nextPts => w.nextPts - from <= w.capacity
    BY <1>1
  <2>3. QED
    BY <1>3, <2>1, <2>2
<1>4. CASE EncodeFrame \/ EncodeAgainFails
  <2>1. PICK refuses \in BOOLEAN, sent \in BOOLEAN :
            LET s == Prepared(refuses)
                slot == PlanAnchor(s.w, s.key)
                first == Record(s.w, Id(count), s.key, slot)
            IN  /\ coded' = Logged(coded, s.w, s.key, PredictingAnchor(s.w, s.key), sent)
                /\ w' \in {first, TakenBack(first, s.key)}
    BY <1>4 DEF EncodeFrame, EncodeAgainFails
  <2> DEFINE s == Prepared(refuses)
             named == PredictingAnchor(s.w, s.key)
             slot == PlanAnchor(s.w, s.key)
             first == Record(s.w, Id(count), s.key, slot)
             from == Source(s.w, s.key)
  <2>2. /\ coded' = Logged(coded, s.w, s.key, named, sent)
        /\ w' \in {first, TakenBack(first, s.key)}
    BY <2>1
  <2>3. /\ Sound(s.w, coded, lost) /\ WindowInv(s.w, coded)
        /\ s.w.nextPts = w.nextPts /\ s.key \in BOOLEAN /\ Due(s.w, coded, count)
    BY <1>2
  <2>4. ~s.key => /\ HasReference(s.w)
                  /\ \/ NewestValid(s.w).pts \in Pts(AnchorFrames(w))
                     \/ w.nextPts - NewestValid(s.w).pts <= w.capacity
    BY PreparedKept
  <2> HIDE DEF s, named, slot
  <2>5. coded'[w.nextPts].from = from
    BY <1>1, <2>2, <2>3 DEF Logged, NextCoded
  <2>6. w'.nextPts = w.nextPts + 1
    <3>1. Sound(first, coded', lost) /\ first.nextPts = w.nextPts + 1 /\ first.nextPts > 0
      BY <1>1, <2>2, <2>3, CodedSound
    <3> HIDE DEF first
    <3>2. TakenBack(first, s.key).nextPts = first.nextPts
      BY <2>3, <3>1, TakenBackSound
    <3>3. QED
      BY <2>2, <3>1, <3>2
  <2>7. \/ from = w.nextPts
        \/ from \in Pts(AnchorFrames(w))
        \/ w.nextPts - from <= w.capacity
    BY <2>3, <2>4, SourceIsHeld
  <2> HIDE DEF from
  <2>8. QED
    BY <1>3, <2>5, <2>6, <2>7
<1>5. CASE EncodeOwnKey
  <2> DEFINE s == Prepared(FALSE)
             slot == PlanAnchor(s.w, FALSE)
  <2>1. PICK key \in BOOLEAN, sent \in BOOLEAN :
            /\ key
            /\ w' = Record(s.w, Id(count), key, slot)
            /\ coded' = Logged(coded, s.w, key, NoSlot, sent)
    BY <1>5 DEF EncodeOwnKey
  <2>2. /\ Sound(s.w, coded, lost) /\ WindowInv(s.w, coded)
        /\ s.w.nextPts = w.nextPts /\ Due(s.w, coded, count)
    BY <1>2
  <2> HIDE DEF s, slot
  <2>3. coded'[w.nextPts].from = w.nextPts
    BY <1>1, <2>1, <2>2 DEF Logged, NextCoded, Source
  <2>4. w'.nextPts = w.nextPts + 1
    BY <1>1, <2>1, <2>2, CodedSound
  <2>5. QED
    BY <1>3, <2>3, <2>4
<1>6. CASE EncodeFails \/ SkipFrame \/ RequestIdr \/ ReportLost \/ ReportHeld \/ ResetStream
           \/ UNCHANGED vars
  <2>1. w'.nextPts = w.nextPts
    <3>1. CASE EncodeFails
      BY <1>2, <3>1 DEF EncodeFails
    <3>2. CASE ReportLost
      <4>1. PICK p \in Reportable : w' = Invalidate(w, Id(coded[p].count)).w
        BY <3>2 DEF ReportLost
      <4>2. Less(Invalidate(w, Id(coded[p].count)).w, w)
        BY <1>1, AnswersKeep
      <4>3. w' \in {v \in {w'} : Less(v, w)}
        BY <4>1, <4>2
      <4>4. QED
        BY <4>3 DEF Less
    <3>3. CASE ReportHeld
      <4>1. PICK p \in Reportable, held \in BOOLEAN :
                w' = Acknowledge(w, Id(coded[p].count), held)
        BY <3>3 DEF ReportHeld
      <4>2. QED
        BY <1>1, <4>1, AcknowledgeSound
    <3>4. CASE ResetStream
      BY <1>1, <3>4, ResetSound DEF ResetStream, SessionAssumption
    <3>5. CASE SkipFrame \/ RequestIdr \/ UNCHANGED vars
      BY <3>5 DEF SkipFrame, RequestIdr, vars
    <3>6. QED
      BY <1>6, <3>1, <3>2, <3>3, <3>4, <3>5
  <2>2. QED
    BY <1>1, <2>1
<1>7. QED
  BY <1>4, <1>5, <1>6 DEF Next

\* The recent frame an H.264 frame predicts from is one the decoder still has,
\* whatever was lost, taken back and refused since, or it is an anchor: for a
\* schedule that marks no more than two frames in six and a memory of five
\* times the buffer, as long as no frame is remembered for more than the ids
\* last.
THEOREM DecoderKeepsReference ==
  ASSUME WindowAssumption, SessionAssumption, Paced
  PROVE  Spec /\ []YoungIds => [][KeptStep]_vars
<1> DEFINE KInv == IInv /\ Bounded(w) /\ (Anchored => Laid(w, coded))
<1>1. Init => KInv
  BY InitIInv, InitBounded, InitLaid
<1>2. KInv /\ [Next]_vars => KInv'
  <2>1. ASSUME KInv, [Next]_vars PROVE IInv' /\ Bounded(w') /\ (Anchored => Laid(w', coded'))
    BY <2>1, NextIInv, NextBounded, NextLaid
  <2>2. QED
    BY <2>1
<1>3. KInv /\ KInv' /\ YoungIds /\ [Next]_vars => KeptStep
  BY NextKept
<1>4. QED
  BY <1>1, <1>2, <1>3, PTL DEF Spec

\* Every frame coded counts from FirstCount, and the count passes it by no more
\* than the frames coded and the events.
FewCaptured ==
    /\ w.nextPts <= MaxFrames /\ events <= MaxEvents
    /\ count <= FirstCount + w.nextPts + events
    /\ count >= FirstCount
    /\ \A p \in 0 .. w.nextPts - 1 : coded[p].count >= FirstCount

LEMMA FewAreYoung ==
  ASSUME WindowAssumption, SessionAssumption, IInv, FewCaptured,
         MaxFrames + MaxEvents <= IdMod
  PROVE  YoungIds
<1>1. /\ w.nextPts \in Nat /\ events \in Nat /\ count \in Nat /\ IdMod \in Nat
      /\ FirstCount \in Nat /\ MaxFrames \in Nat /\ MaxEvents \in Nat
      /\ \A r \in w.recent : r.pts \in 0 .. w.nextPts - 1
      /\ \A p \in 0 .. w.nextPts - 1 : coded[p].count \in Nat
  BY HeldFrames, Counts
     DEF IInv, TypeOK, Sound, WindowInv, NamesCoded, Frame, Window, WindowAssumption,
         SessionAssumption
<1>2. QED
  BY <1>1 DEF FewCaptured, YoungIds, Young

\* The picture coded takes the capture's count.
LEMMA LoggedCounts ==
  ASSUME NEW win, win.nextPts \in Nat, NEW log, NEW key, NEW named, NEW sent,
         count >= FirstCount, \A p \in 0 .. win.nextPts - 1 : log[p].count >= FirstCount
  PROVE  \A p \in 0 .. win.nextPts :
             Logged(log, win, key, named, sent)[p].count >= FirstCount
<1>1. NextCoded(log, win, key, named, sent).count = count
  BY DEF NextCoded
<1>2. QED
  BY <1>1 DEF Logged

LEMMA NextFew ==
  ASSUME WindowAssumption, SessionAssumption, IInv, FewCaptured, [Next]_vars
  PROVE  FewCaptured'
<1>1. /\ Sound(w, coded, lost) /\ forceIdr \in BOOLEAN /\ w.nextPts \in Nat
      /\ WindowInv(w, coded)
      /\ events \in Nat /\ count \in Nat /\ FirstCount \in Nat
      /\ MaxFrames \in Nat /\ MaxEvents \in Nat
  BY DEF IInv, TypeOK, Sound, WindowInv, Window, SessionAssumption
<1>2. ASSUME NEW refuses \in BOOLEAN
      PROVE  LET s == Prepared(refuses)
             IN  /\ Sound(s.w, coded, lost) /\ s.w.nextPts = w.nextPts
                 /\ s.key \in BOOLEAN /\ Due(s.w, coded, count)
  BY PreparedSound
<1>3. CASE EncodeFrame \/ EncodeAgainFails
  <2>1. PICK refuses \in BOOLEAN, sent \in BOOLEAN :
            LET s == Prepared(refuses)
                slot == PlanAnchor(s.w, s.key)
                first == Record(s.w, Id(count), s.key, slot)
            IN  /\ coded' = Logged(coded, s.w, s.key, PredictingAnchor(s.w, s.key), sent)
                /\ w' \in {first, TakenBack(first, s.key)}
    BY <1>3 DEF EncodeFrame, EncodeAgainFails
  <2> DEFINE s == Prepared(refuses)
             named == PredictingAnchor(s.w, s.key)
             slot == PlanAnchor(s.w, s.key)
             first == Record(s.w, Id(count), s.key, slot)
  <2>2. /\ coded' = Logged(coded, s.w, s.key, named, sent)
        /\ w' \in {first, TakenBack(first, s.key)}
    BY <2>1
  <2>3. /\ Sound(s.w, coded, lost) /\ s.w.nextPts = w.nextPts
        /\ s.key \in BOOLEAN /\ Due(s.w, coded, count)
    BY <1>2
  <2> HIDE DEF s, named, slot
  <2>4. Sound(first, coded', lost) /\ first.nextPts = w.nextPts + 1 /\ first.nextPts > 0
    BY <1>1, <2>2, <2>3, CodedSound
  <2> HIDE DEF first
  <2>5. TakenBack(first, s.key).nextPts = first.nextPts
    BY <2>3, <2>4, TakenBackSound
  <2>6. w'.nextPts = w.nextPts + 1
    BY <2>2, <2>4, <2>5
  <2>7. \A p \in 0 .. w.nextPts : coded'[p].count >= FirstCount
    BY <1>1, <2>2, <2>3, LoggedCounts DEF FewCaptured
  <2>8. w.nextPts < MaxFrames /\ count' = count + 1 /\ events' \in {events, events + 1}
        /\ events' <= MaxEvents
    <3>1. CASE EncodeFrame
      BY <1>1, <3>1 DEF EncodeFrame, FewCaptured
    <3>2. CASE EncodeAgainFails
      BY <1>1, <3>2 DEF EncodeAgainFails, Event
    <3>3. QED
      BY <1>3, <3>1, <3>2
  <2>9. QED
    BY <1>1, <2>6, <2>7, <2>8 DEF FewCaptured
<1>4. CASE EncodeOwnKey
  <2> DEFINE s == Prepared(FALSE)
             slot == PlanAnchor(s.w, FALSE)
  <2>1. PICK key \in BOOLEAN, sent \in BOOLEAN :
            /\ key
            /\ w' = Record(s.w, Id(count), key, slot)
            /\ coded' = Logged(coded, s.w, key, NoSlot, sent)
    BY <1>4 DEF EncodeOwnKey
  <2>2. Sound(s.w, coded, lost) /\ s.w.nextPts = w.nextPts /\ Due(s.w, coded, count)
    BY <1>2
  <2> HIDE DEF s, slot
  <2>3. w'.nextPts = w.nextPts + 1
    BY <1>1, <2>1, <2>2, CodedSound
  <2>4. \A p \in 0 .. w.nextPts : coded'[p].count >= FirstCount
    BY <1>1, <2>1, <2>2, LoggedCounts DEF FewCaptured
  <2>5. w.nextPts < MaxFrames /\ count' = count + 1 /\ events' = events + 1
        /\ events' <= MaxEvents
    BY <1>1, <1>4 DEF EncodeOwnKey, Event
  <2>6. QED
    BY <1>1, <2>3, <2>4, <2>5 DEF FewCaptured
<1>5. CASE EncodeAgain
  <2> DEFINE s == Prepared(FALSE)
             slot == PlanAnchor(s.w, s.key)
             named == PredictingAnchor(s.w, s.key)
             first == Record(s.w, Id(count), s.key, slot)
             back == TakenBack(first, s.key)
  <2>1. PICK unsent \in BOOLEAN, sent \in BOOLEAN :
            /\ ~unsent
            /\ w' = Record(back, Id(count), s.key, slot)
            /\ coded' = Logged(Logged(coded, s.w, s.key, named, unsent),
                               back, s.key, named, sent)
    BY <1>5 DEF EncodeAgain
  <2> DEFINE log == Logged(coded, s.w, s.key, named, unsent)
  <2>2. /\ Sound(s.w, coded, lost) /\ s.w.nextPts = w.nextPts
        /\ s.key \in BOOLEAN /\ Due(s.w, coded, count)
    BY <1>2
  <2>3. w' = Record(back, Id(count), s.key, slot) /\ coded' = Logged(log, back, s.key, named, sent)
    BY <2>1
  <2> HIDE DEF s, slot, named
  <2>4. /\ Sound(first, log, lost) /\ first.nextPts = w.nextPts + 1 /\ first.nextPts > 0
        /\ Due(first, log, count)
    BY <1>1, <2>1, <2>2, CodedSound
  <2>5. \A p \in 0 .. w.nextPts : log[p].count >= FirstCount
    BY <1>1, <2>2, LoggedCounts DEF FewCaptured
  <2> HIDE DEF first, log
  <2>6. Sound(back, log, lost) /\ back.nextPts = first.nextPts
    BY <2>2, <2>4, TakenBackSound
  <2> HIDE DEF back
  <2>7. Due(back, log, count)
    BY <2>4, <2>6 DEF Due
  <2>8. w'.nextPts = w.nextPts + 2
    <3>1. w'.nextPts = back.nextPts + 1
      BY <1>1, <2>2, <2>3, <2>6, <2>7, CodedSound
    <3>2. QED
      BY <1>1, <2>4, <2>6, <3>1
  <2>9. \A p \in 0 .. w.nextPts + 1 : coded'[p].count >= FirstCount
    <3>1. back.nextPts = w.nextPts + 1 /\ back.nextPts - 1 = w.nextPts
      BY <1>1, <2>4, <2>6
    <3>2. QED
      BY <1>1, <2>3, <2>5, <3>1, LoggedCounts DEF FewCaptured
  <2>10. w.nextPts + 1 < MaxFrames /\ count' = count + 1 /\ events' = events + 1
         /\ events' <= MaxEvents
    BY <1>1, <1>5 DEF EncodeAgain, Event
  <2>11. QED
    BY <1>1, <2>8, <2>9, <2>10 DEF FewCaptured
<1>6. ASSUME UNCHANGED coded, w'.nextPts = w.nextPts,
             \/ /\ count' \in {count, count + 1} /\ events' = events + 1
                /\ events' <= MaxEvents
             \/ UNCHANGED <<count, events>>
      PROVE  FewCaptured'
  BY <1>1, <1>6 DEF FewCaptured
<1>7. CASE EncodeFails
  <2>1. w'.nextPts = w.nextPts
    BY <1>2, <1>7 DEF EncodeFails
  <2>2. QED
    BY <1>1, <1>6, <1>7, <2>1 DEF EncodeFails, Event
<1>8. CASE ReportLost
  <2>1. PICK p \in Reportable : w' = Invalidate(w, Id(coded[p].count)).w
    BY <1>8 DEF ReportLost
  <2>2. Less(w', w)
    BY <1>1, <2>1, AnswersKeep
  <2>3. QED
    BY <1>1, <1>6, <1>8, <2>2 DEF ReportLost, Event, Less
<1>9. CASE ReportHeld
  <2>1. PICK p \in Reportable, held \in BOOLEAN :
            w' = Acknowledge(w, Id(coded[p].count), held)
    BY <1>9 DEF ReportHeld
  <2>2. w'.nextPts = w.nextPts
    BY <1>1, <2>1, AcknowledgeSound
  <2>3. QED
    BY <1>1, <1>6, <1>9, <2>2 DEF ReportHeld, Event
<1>10. CASE ResetStream
  <2>1. PICK buffer \in Buffers : w' = Reset(SetCapacity(w, buffer))
    BY <1>10 DEF ResetStream
  <2>2. w'.nextPts = w.nextPts
    BY <1>1, <2>1, ResetSound DEF SessionAssumption
  <2>3. QED
    BY <1>1, <1>6, <1>10, <2>2 DEF ResetStream, Event
<1>11. CASE SkipFrame \/ RequestIdr
  BY <1>1, <1>6, <1>11 DEF SkipFrame, RequestIdr, Event
<1>12. CASE UNCHANGED vars
  BY <1>6, <1>12 DEF vars
<1>13. QED
  BY <1>3, <1>4, <1>5, <1>7, <1>8, <1>9, <1>10, <1>11, <1>12 DEF Next

\* The ids are not outlasted while no more frames are captured than there are
\* ids.
THEOREM IdsYoungWhileFew ==
  ASSUME WindowAssumption, SessionAssumption, MaxFrames + MaxEvents <= IdMod
  PROVE  Spec => []YoungIds
<1>1. Init => IInv /\ FewCaptured
  <2>1. Init => FewCaptured
    BY DEF Init, FewCaptured, NewWindow, SessionAssumption
  <2>2. QED
    BY <2>1, InitIInv
<1>2. IInv /\ FewCaptured /\ [Next]_vars => IInv' /\ FewCaptured'
  BY NextIInv, NextFew
<1>3. IInv /\ FewCaptured => YoungIds
  BY FewAreYoung
<1>4. QED
  BY <1>1, <1>2, <1>3, PTL DEF Spec
=============================================================================
