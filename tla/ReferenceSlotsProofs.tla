------------------------- MODULE ReferenceSlotsProofs -------------------------
(***************************************************************************)
(* That no buffer a VP8 or VP9 session may predict from depends on a frame *)
(* reported lost, a key frame coded twice aside, while the frames          *)
(* remembered have different ids, for every ring, period and schedule of   *)
(* reports.                                                                *)
(***************************************************************************)
EXTENDS ReferenceSlots, FiniteSetTheorems, TLAPS

\* The frames remembered are told apart by their ids, but for the two codings of
\* one: fewer than IdMod frames are captured while RecentFrames are coded.
RecentIdsDiffer ==
    \A r, q \in s.recent : r.id = q.id => coded[r.pts].count = coded[q.pts].count

-----------------------------------------------------------------------------
(* The inductive invariant.                                                *)

Log == 0 .. s.nextPts - 1

\* The ids are the capture's count, which grows from each frame sent to the
\* next, and the key's age is right for half the ids.
Dating ==
    /\ \A p \in Log : coded[p].count < count
    /\ \A p, q \in Log : p < q =>
            /\ coded[p].count <= coded[q].count
            /\ coded[p].sent => coded[p].count < coded[q].count
    /\ \A p \in Log : CodedTwice(p) => p <= s.keyPts
    /\ s.keyPts <= s.nextPts
    /\ s.nextPts > 0 =>
        /\ s.keyPts < s.nextPts
        /\ s.newest = Id(coded[s.nextPts - 1].count)
        /\ \A p \in s.keyPts .. s.nextPts - 1 :
            LET age == coded[s.nextPts - 1].count - coded[p].count
            IN  age < IdMod \div 2 => age <= s.sinceKey

\* The last RecentFrames are remembered, each under its id.
Remembered ==
    /\ \A r \in s.recent :
        /\ r.pts \in Log /\ r.id = Id(coded[r.pts].count)
        /\ r.pts >= s.nextPts - RecentFrames
    /\ \A p \in Log : p >= s.nextPts - RecentFrames => \E r \in s.recent : r.pts = p

\* What is held was coded from the key frame on, and depends on nothing older.
Chained ==
    /\ \A p \in s.keyPts .. s.nextPts - 1 : coded[p].chain \subseteq s.keyPts .. p
    /\ \A i \in Slots :
        s.slots[i] # NoFrame => s.slots[i].pts \in s.keyPts .. s.nextPts - 1

SlotsInv == TypeOK /\ Dating /\ Remembered /\ Chained /\ NoPredictionThroughLoss

-----------------------------------------------------------------------------
(* Ids that wrap.                                                          *)

\* A set of naturals has a least member.
LEMMA LeastNatural ==
  ASSUME NEW T \in SUBSET Nat, T # {}
  PROVE  \E m \in T : \A n \in T : m <= n
<1> DEFINE R == OpToRel(<, Nat)
<1>1. PICK m \in T : \A n \in T : ~(<<n, m>> \in R)
  BY NatLessThanWellFounded, WFMin, Zenon
<1>2. \A n \in T : ~(n < m)
  BY <1>1 DEF OpToRel
<1>3. QED
  BY <1>2

LEMMA ModOfSum ==
  ASSUME SlotsAssumption, NEW q \in Int, NEW r \in Ids
  PROVE  (IdMod * q + r) % IdMod = r
BY DEF Ids, SlotsAssumption

LEMMA IdType ==
  ASSUME SlotsAssumption, NEW c \in Int
  PROVE  c % IdMod \in Ids
BY DEF Ids, SlotsAssumption

LEMMA Quotient ==
  ASSUME SlotsAssumption, NEW a \in Nat
  PROVE  \E q \in Int : a = IdMod * q + (a % IdMod)
<1>1. a = IdMod * (a \div IdMod) + (a % IdMod) /\ a \div IdMod \in Int
  BY DEF SlotsAssumption
<1>2. QED
  BY <1>1, Zenon

LEMMA HalfIds ==
  ASSUME SlotsAssumption
  PROVE  IdMod \in Nat /\ IdMod \div 2 \in Nat /\ IdMod \div 2 <= IdMod /\ IdMod > 0
BY DEF SlotsAssumption

\* Of two counts nearer than half the ids, the older is as far behind by id.
LEMMA BehindByCount ==
  ASSUME SlotsAssumption, NEW a \in Nat, NEW b \in Nat, b <= a, a - b < IdMod \div 2
  PROVE  (Id(a) - Id(b)) % IdMod = a - b
<1>1. PICK p \in Int : a = IdMod * p + (a % IdMod)
  BY Quotient
<1>2. PICK q \in Int : b = IdMod * q + (b % IdMod)
  BY Quotient
<1>3. /\ a % IdMod \in Ids /\ b % IdMod \in Ids /\ IdMod \in Nat
      /\ a % IdMod \in Int /\ b % IdMod \in Int
  BY IdType DEF Ids, SlotsAssumption
<1> DEFINE x == a % IdMod
           y == b % IdMod
<1>4. x \in Int /\ y \in Int /\ a = IdMod * p + x /\ b = IdMod * q + y
  BY <1>1, <1>2, <1>3, Zenon
<1> HIDE DEF x, y
<1>5. x - y = IdMod * (q - p) + ((IdMod * p + x) - (IdMod * q + y))
  BY <1>3, <1>4
<1>6. x - y = IdMod * (q - p) + (a - b)
  BY <1>4, <1>5
<1>7. q - p \in Int /\ a - b \in Ids
  BY HalfIds DEF Ids
<1>8. (x - y) % IdMod = a - b
  BY <1>6, <1>7, ModOfSum
<1>9. QED
  BY <1>8 DEF x, y, Id

-----------------------------------------------------------------------------
(* What is predicted from.                                                 *)

LEMMA Held ==
  ASSUME SlotsAssumption, SlotsInv, NEW i \in Slots, s.slots[i] # NoFrame
  PROVE  /\ s.slots[i] \in SlotFrame /\ s.slots[i].pts \in Log
         /\ s.slots[i].pts \in s.keyPts .. s.nextPts - 1
         /\ coded[s.slots[i].pts].chain \subseteq s.keyPts .. s.slots[i].pts
<1>1. s.slots[i] \in SlotFrame /\ s.keyPts \in Nat /\ s.nextPts \in Nat
  BY DEF SlotsInv, TypeOK, State
<1>2. s.slots[i].pts \in s.keyPts .. s.nextPts - 1
  BY DEF SlotsInv, Chained
<1>3. QED
  BY <1>1, <1>2 DEF SlotsInv, Chained, Log

LEMMA SourceIsValid ==
  ASSUME SlotsAssumption, SlotsInv, HasReference
  PROVE  Source \in Slots /\ Valid(Source)
<1> DEFINE V == {i \in Slots : Valid(i)}
           N == {i \in V : \A j \in Slots : Valid(j) => s.slots[j].pts <= s.slots[i].pts}
           T == {s.nextPts - s.slots[i].pts : i \in V}
<1>1. \A i \in V : s.slots[i].pts \in Nat /\ s.slots[i].pts < s.nextPts /\ s.nextPts \in Nat
  BY Held DEF Valid, SlotFrame, Log, SlotsInv, TypeOK, State
<1>2. T \in SUBSET Nat /\ T # {}
  BY <1>1 DEF HasReference
<1>3. PICK m \in T : \A n \in T : m <= n
  BY <1>2, LeastNatural
<1>4. PICK i \in V : m = s.nextPts - s.slots[i].pts
  BY <1>3
<1>5. ASSUME NEW j \in Slots, Valid(j) PROVE s.slots[j].pts <= s.slots[i].pts
  <2>1. m <= s.nextPts - s.slots[j].pts
    BY <1>3, <1>5
  <2>2. QED
    BY <1>1, <1>4, <1>5, <2>1
<1>6. i \in N
  BY <1>5
<1>7. Slots \in SUBSET Nat
  BY DEF Slots, SlotsAssumption
<1>8. PICK least \in N : \A n \in N : least <= n
  BY <1>6, <1>7, LeastNatural
<1>9. N = {j \in Slots : Valid(j) /\ \A k \in Slots :
                Valid(k) => s.slots[k].pts <= s.slots[j].pts}
  OBVIOUS
<1>10. Source \in N
  BY <1>8, <1>9 DEF Source, Min
<1>11. QED
  BY <1>10
-----------------------------------------------------------------------------
(* Every step keeps the invariant.                                         *)

LEMMA InitSlotsInv ==
  ASSUME SlotsAssumption, Init
  PROVE  SlotsInv
<1>1. /\ s.slots = [i \in Slots |-> NoFrame] /\ s.recent = {} /\ s.nextPts = 0
      /\ s.keyPts = 0 /\ s \in State
  BY DEF Init, State, Ids, SlotsAssumption
<1>2. Log = {} /\ s.keyPts .. s.nextPts - 1 = {}
  BY <1>1 DEF Log
<1>3. TypeOK
  BY <1>1, <1>2 DEF Init, TypeOK, Log, SlotsAssumption
<1>4. Dating /\ Remembered
  BY <1>1, <1>2 DEF Dating, Remembered
<1>5. Chained /\ NoPredictionThroughLoss
  BY <1>1, <1>2 DEF Chained, NoPredictionThroughLoss, Valid
<1>6. QED
  BY <1>3, <1>4, <1>5 DEF SlotsInv

\* What record leaves of the session.
LEMMA RecordedFields ==
  ASSUME SlotsAssumption, NEW t \in State, count \in Nat, NEW key \in BOOLEAN
  PROVE  LET u == Recorded(t, key)
             f == [id |-> Id(count), pts |-> t.nextPts] IN
         /\ u \in State
         /\ \A i \in Slots :
                u.slots[i] \in {[id |-> f.id, pts |-> f.pts, lost |-> FALSE]}
                                    \cup IF key THEN {} ELSE {t.slots[i]}
         /\ u.recent = {r \in t.recent \cup {f} : r.pts > t.nextPts - RecentFrames}
         /\ u.nextPts = t.nextPts + 1 /\ u.newest = f.id
         /\ u.sinceKey = IF key THEN 0 ELSE t.sinceKey + ((f.id - t.newest) % IdMod)
         /\ u.keyPts = IF key THEN t.nextPts ELSE t.keyPts
         /\ u.common = IF key THEN {} ELSE t.common
<1> DEFINE u == Recorded(t, key)
           f == [id |-> Id(count), pts |-> t.nextPts]
           held == [id |-> f.id, pts |-> f.pts, lost |-> FALSE]
           slots == [i \in Slots |-> IF key \/ i \in Refresh THEN held ELSE t.slots[i]]
           recent == {r \in t.recent \cup {f} : r.pts > t.nextPts - RecentFrames}
           since == IF key THEN 0 ELSE t.sinceKey + ((f.id - t.newest) % IdMod)
           keyPts == IF key THEN t.nextPts ELSE t.keyPts
           common == IF key THEN {} ELSE t.common
           sent == IF key THEN {} ELSE t.sent
<1>1. /\ t.nextPts \in Nat /\ t.keyPts \in Nat /\ t.sinceKey \in Nat
      /\ t.newest \in Ids /\ count \in Nat /\ t.recent \in SUBSET [id : Ids, pts : Nat]
      /\ t.slots \in [Slots -> SlotFrame \cup {NoFrame}]
      /\ t.common \in SUBSET Nat /\ t.sent \in SUBSET Nat
  BY DEF State
<1>2. u = [t EXCEPT !.slots = slots, !.recent = recent, !.nextPts = t.nextPts + 1,
                     !.newest = f.id, !.sinceKey = since, !.keyPts = keyPts,
                     !.common = common, !.sent = sent]
  BY DEF Recorded
<1>3. f.id \in Ids /\ f \in [id : Ids, pts : Nat] /\ held \in SlotFrame
  <2>1. Id(count) \in Ids
    BY <1>1, IdType DEF Id
  <2>2. QED
    BY <1>1, <2>1 DEF SlotFrame
<1>4. since \in Nat
  <2>1. f.id - t.newest \in Int
    BY <1>1, <1>3 DEF Ids
  <2>2. (f.id - t.newest) % IdMod \in Ids
    BY <2>1, IdType
  <2>3. QED
    BY <1>1, <2>2 DEF Ids
<1>5. slots \in [Slots -> SlotFrame \cup {NoFrame}]
  BY <1>1, <1>3
<1>6. recent \in SUBSET [id : Ids, pts : Nat]
  BY <1>1, <1>3
<1>7. \A i \in Slots : slots[i] \in {held} \cup IF key THEN {} ELSE {t.slots[i]}
  OBVIOUS
<1>8. keyPts \in Nat /\ common \in SUBSET Nat /\ sent \in SUBSET Nat /\ t.nextPts + 1 \in Nat
  BY <1>1
<1> HIDE DEF u, slots, recent, since, held, keyPts, common, sent
<1>9. /\ u \in State /\ u.slots = slots /\ u.recent = recent
      /\ u.nextPts = t.nextPts + 1 /\ u.newest = f.id
      /\ u.sinceKey = since /\ u.keyPts = keyPts /\ u.common = common
  BY <1>1, <1>2, <1>3, <1>4, <1>5, <1>6, <1>8, ZenonT(60) DEF State
<1>10. QED
  BY <1>7, <1>9 DEF u, since, recent, held, keyPts, common

LEMMA EncodeSlotsInv ==
  ASSUME SlotsAssumption, SlotsInv, NEW key \in BOOLEAN, NEW sent \in BOOLEAN,
         Coding(key, sent), ~key => HasReference, forceIdr' \in BOOLEAN, events' \in Nat
  PROVE  SlotsInv'
<1> DEFINE n == s.nextPts
           f == [id |-> Id(count), pts |-> n]
           new == [count |-> count, chain |-> Chain(key), sent |-> sent]
<1>1. s \in State /\ count \in Nat /\ s' = Recorded(s, key)
  BY DEF Coding, SlotsInv, TypeOK
<1>2. /\ s' \in State
      /\ \A i \in Slots : s'.slots[i] \in {[id |-> f.id, pts |-> f.pts, lost |-> FALSE]}
                                    \cup IF key THEN {} ELSE {s.slots[i]}
      /\ s'.recent = {r \in s.recent \cup {f} : r.pts > n - RecentFrames}
      /\ s'.nextPts = n + 1 /\ s'.newest = f.id
      /\ s'.sinceKey = IF key THEN 0 ELSE s.sinceKey + ((f.id - s.newest) % IdMod)
      /\ s'.keyPts = IF key THEN n ELSE s.keyPts
  BY <1>1, RecordedFields
<1>3. /\ n \in Nat /\ count \in Nat /\ s.keyPts \in Nat /\ s.sinceKey \in Nat
      /\ s.keyPts <= n /\ lost \in SUBSET (0 .. n - 1) /\ RecentFrames \in Nat \ {0}
      /\ s.recent \in SUBSET [id : Ids, pts : Nat]
      /\ coded \in [0 .. n - 1 -> Coded]
  BY DEF SlotsInv, TypeOK, State, Dating, SlotsAssumption
<1>4. ~key => /\ Source \in Slots /\ Valid(Source)
              /\ Chain(key) = {n} \cup coded[s.slots[Source].pts].chain
  <2>1. ~key => Source \in Slots /\ Valid(Source)
    BY SourceIsValid
  <2>2. QED
    BY <2>1 DEF Chain
<1>5. key => Chain(key) = {n}
  BY DEF Chain
<1>6. ~key => coded[s.slots[Source].pts].chain \subseteq s.keyPts .. n - 1
  <2> SUFFICES ASSUME ~key PROVE coded[s.slots[Source].pts].chain \subseteq s.keyPts .. n - 1
    OBVIOUS
  <2> DEFINE p == s.slots[Source].pts
  <2>1. p \in s.keyPts .. n - 1 /\ coded[p].chain \subseteq s.keyPts .. p
    BY <1>4, Held DEF Valid
  <2> HIDE DEF p
  <2>2. s.keyPts .. p \subseteq s.keyPts .. n - 1
    BY <1>3, <2>1
  <2>3. QED
    BY <2>1, <2>2 DEF p
<1>7. Chain(key) \subseteq s'.keyPts .. n /\ Chain(key) \in SUBSET Nat
  <2>1. CASE key
    <3>1. Chain(key) = {n} /\ s'.keyPts = n
      BY <1>2, <1>5, <2>1
    <3> HIDE DEF n
    <3>2. QED
      BY <1>3, <3>1
  <2>2. CASE ~key
    <3>1. s.keyPts .. n - 1 \subseteq s.keyPts .. n /\ n \in s.keyPts .. n
      BY <1>3
    <3>2. Chain(key) \subseteq s.keyPts .. n /\ s'.keyPts = s.keyPts
      BY <1>2, <1>4, <1>6, <2>2, <3>1
    <3>3. s.keyPts .. n \subseteq Nat
      BY <1>3
    <3>4. QED
      BY <3>2, <3>3
  <2>3. QED
    BY <2>1, <2>2
<1>8. /\ coded' \in [0 .. s'.nextPts - 1 -> Coded]
      /\ coded'[n] = new /\ \A p \in 0 .. n - 1 : coded'[p] = coded[p]
  <2>1. coded' = [p \in 0 .. n |-> IF p = n THEN new ELSE coded[p]]
    BY DEF Coding
  <2>2. new \in Coded
    BY <1>3, <1>7 DEF Coded
  <2> HIDE DEF new
  <2>3. \A p \in 0 .. n : p # n => p \in 0 .. n - 1
    BY <1>3
  <2>4. n \in 0 .. n /\ s'.nextPts - 1 = n /\ \A p \in 0 .. n - 1 : p \in 0 .. n /\ p # n
    BY <1>2, <1>3
  <2>5. \A p \in 0 .. n : (IF p = n THEN new ELSE coded[p]) \in Coded
    BY <1>3, <2>2, <2>3
  <2>6. coded' \in [0 .. n -> Coded]
    BY <2>1, <2>5
  <2>7. QED
    BY <2>1, <2>4, <2>6
<1>9. new.count = count /\ new.chain = Chain(key) /\ new.sent = sent
  OBVIOUS
<1> HIDE DEF new, n
<1>10. TypeOK'
  <2>1. count' \in Nat /\ lost' = lost
    BY <1>3 DEF Coding
  <2>2. lost \subseteq 0 .. s'.nextPts - 1
    BY <1>2, <1>3
  <2>3. QED
    BY <1>2, <1>8, <2>1, <2>2 DEF TypeOK
<1>11. Log' = 0 .. n /\ Log = 0 .. n - 1
  BY <1>2, <1>3 DEF Log, n
<1>12. \A p \in 0 .. n - 1 : coded'[p].count \in Nat /\ coded[p].count \in Nat
  BY <1>3, <1>8 DEF Coded
<1>13. /\ \A p \in 0 .. n : coded'[p].count < count'
       /\ \A p, q \in 0 .. n : p < q =>
            /\ coded'[p].count <= coded'[q].count
            /\ coded'[p].sent => coded'[p].count < coded'[q].count
  <2>1. \A p \in 0 .. n - 1 : coded'[p].count < count
    BY <1>8, <1>11 DEF SlotsInv, Dating
  <2>2. \A p, q \in 0 .. n - 1 : p < q =>
            /\ coded'[p].count <= coded'[q].count
            /\ coded'[p].sent => coded'[p].count < coded'[q].count
    BY <1>8, <1>11 DEF SlotsInv, Dating
  <2>3. count' = count + 1
    BY DEF Coding
  <2>4. \A p \in 0 .. n : p = n \/ p \in 0 .. n - 1
    BY <1>3
  <2>5. ASSUME NEW p \in 0 .. n PROVE coded'[p].count < count'
    <3>1. coded'[p].count = count \/ coded'[p].count < count
      BY <1>8, <1>9, <2>1, <2>4
    <3>2. coded'[p].count \in Nat
      BY <1>3, <1>8, <1>9, <1>12, <2>4
    <3>3. QED
      BY <1>3, <2>3, <3>1, <3>2
  <2>6. ASSUME NEW p \in 0 .. n, NEW q \in 0 .. n, p < q
        PROVE  /\ coded'[p].count <= coded'[q].count
               /\ coded'[p].sent => coded'[p].count < coded'[q].count
    <3>1. p \in 0 .. n - 1
      BY <1>3, <2>6
    <3>2. CASE q = n
      <4>1. coded'[p].count < count /\ coded'[q].count = count /\ coded'[p].count \in Nat
        BY <1>8, <1>9, <1>12, <2>1, <3>1, <3>2
      <4>2. QED
        BY <1>3, <4>1
    <3>3. CASE q # n
      BY <2>2, <2>4, <2>6, <3>1, <3>3
    <3>4. QED
      BY <3>2, <3>3
  <2>7. QED
    BY <2>5, <2>6
<1>14. ASSUME NEW p \in s'.keyPts .. n, count - coded'[p].count < IdMod \div 2
       PROVE  count - coded'[p].count <= s'.sinceKey
  <2>1. CASE p = n
    <3>1. s'.sinceKey \in Nat
      BY <1>2 DEF State
    <3>2. QED
      BY <1>3, <1>8, <1>9, <2>1, <3>1
  <2>2. CASE p # n
    <3>1. ~key /\ p \in s.keyPts .. n - 1 /\ p \in 0 .. n - 1 /\ n - 1 \in 0 .. n - 1 /\ n > 0
      BY <1>2, <1>3, <2>2
    <3> DEFINE a == coded[p].count
               b == coded[n - 1].count
    <3>2. a \in Nat /\ b \in Nat /\ coded'[p].count = a /\ b < count
      BY <1>8, <1>11, <1>12, <3>1 DEF SlotsInv, Dating
    <3>3. a <= b
      <4>1. p = n - 1 \/ p < n - 1
        BY <1>3, <3>1
      <4>2. p < n - 1 => a <= b
        BY <1>11, <3>1 DEF SlotsInv, Dating
      <4>3. QED
        BY <3>2, <4>1, <4>2
    <3>4. s.newest = Id(b) /\ (b - a < IdMod \div 2 => b - a <= s.sinceKey)
      BY <3>1 DEF SlotsInv, Dating, n
    <3> HIDE DEF a, b
    <3>5. b - a < IdMod \div 2 /\ count - b < IdMod \div 2
      BY <1>3, <1>14, <3>2, <3>3, HalfIds
    <3>6. (Id(count) - Id(b)) % IdMod = count - b
      BY <1>3, <3>2, <3>5, BehindByCount
    <3>7. s'.sinceKey = s.sinceKey + (count - b)
      BY <1>2, <3>1, <3>4, <3>6
    <3>8. QED
      BY <1>3, <3>2, <3>4, <3>5, <3>7
  <2>3. QED
    BY <2>1, <2>2
<1>15. \A p \in 0 .. n : CodedTwice(p)' <=> p # n /\ CodedTwice(p)
  <2> SUFFICES ASSUME NEW p \in 0 .. n PROVE CodedTwice(p)' <=> p # n /\ CodedTwice(p)
    OBVIOUS
  <2>1. CASE p = 0
    <3>1. ~CodedTwice(p) /\ ~CodedTwice(p)'
      BY <2>1 DEF CodedTwice
    <3>2. QED
      BY <3>1
  <2>2. CASE p # 0 /\ p # n
    <3>1. p \in 0 .. n - 1 /\ p - 1 \in 0 .. n - 1
      BY <1>3, <2>2
    <3>2. QED
      BY <1>8, <2>2, <3>1 DEF CodedTwice
  <2>3. CASE p # 0 /\ p = n
    <3>1. p - 1 \in 0 .. n - 1
      BY <1>3, <2>3
    <3>2. coded'[p - 1].count < count /\ coded'[p - 1].count \in Nat
      BY <1>8, <1>11, <1>12, <3>1 DEF SlotsInv, Dating
    <3>3. coded'[p].count = count
      BY <1>8, <1>9, <2>3
    <3>4. QED
      BY <1>3, <2>3, <3>2, <3>3 DEF CodedTwice
  <2>4. QED
    BY <2>1, <2>2, <2>3
<1>16. Dating'
  <2>1. s'.nextPts - 1 = n /\ s'.keyPts <= n /\ s'.keyPts < s'.nextPts
    BY <1>2, <1>3
  <2>2. s'.newest = Id(coded'[s'.nextPts - 1].count)
    BY <1>2, <1>8, <1>9, <2>1
  <2>3. \A p \in s'.keyPts .. s'.nextPts - 1 :
            LET age == coded'[s'.nextPts - 1].count - coded'[p].count
            IN  age < IdMod \div 2 => age <= s'.sinceKey
    BY <1>8, <1>9, <1>14, <2>1
  <2>4. s'.keyPts <= s'.nextPts
    BY <1>2, <1>3
  <2>5. \A p \in 0 .. n : CodedTwice(p)' => p <= s'.keyPts
    <3> SUFFICES ASSUME NEW p \in 0 .. n, CodedTwice(p)' PROVE p <= s'.keyPts
      OBVIOUS
    <3>1. p \in 0 .. n - 1 /\ CodedTwice(p)
      BY <1>3, <1>15
    <3>2. p <= s.keyPts
      BY <1>11, <3>1 DEF SlotsInv, Dating
    <3>3. QED
      BY <1>2, <1>3, <3>1, <3>2
  <2>6. QED
    BY <1>11, <1>13, <2>1, <2>2, <2>3, <2>4, <2>5 DEF Dating
<1>17. Remembered'
  <2>1. ASSUME NEW r \in s'.recent
        PROVE  /\ r.pts \in 0 .. n /\ r.id = Id(coded'[r.pts].count)
               /\ r.pts >= s'.nextPts - RecentFrames
    <3>1. r.pts > n - RecentFrames /\ (r = f \/ r \in s.recent)
      BY <1>2
    <3>2. CASE r = f
      BY <1>2, <1>3, <1>8, <1>9, <3>1, <3>2 DEF n
    <3>3. CASE r \in s.recent
      <4>1. r.pts \in 0 .. n - 1 /\ r.id = Id(coded[r.pts].count)
        BY <1>11, <3>3 DEF SlotsInv, Remembered
      <4>2. QED
        BY <1>2, <1>3, <1>8, <3>1, <4>1
    <3>4. QED
      BY <3>1, <3>2, <3>3
  <2>2. ASSUME NEW p \in 0 .. n, p >= s'.nextPts - RecentFrames
        PROVE  \E r \in s'.recent : r.pts = p
    <3>1. p > n - RecentFrames
      BY <1>2, <1>3, <2>2
    <3>2. CASE p = n
      <4>1. f \in s'.recent /\ f.pts = p
        BY <1>2, <3>1, <3>2
      <4>2. QED
        BY <4>1
    <3>3. CASE p # n
      <4>1. p \in 0 .. n - 1 /\ p >= n - RecentFrames
        BY <1>3, <3>1, <3>3
      <4>2. PICK r \in s.recent : r.pts = p
        BY <1>11, <4>1 DEF SlotsInv, Remembered, n
      <4>3. QED
        BY <1>2, <3>1, <4>2
    <3>4. QED
      BY <3>2, <3>3
  <2>3. QED
    BY <1>11, <2>1, <2>2 DEF Remembered
<1>18. \A i \in Slots : s'.slots[i] # NoFrame =>
            \/ s'.slots[i].pts = n /\ ~s'.slots[i].lost
            \/ ~key /\ s'.slots[i] = s.slots[i] /\ s.slots[i].pts \in s.keyPts .. n - 1
                    /\ coded'[s.slots[i].pts] = coded[s.slots[i].pts]
  <2> SUFFICES ASSUME NEW i \in Slots, s'.slots[i] # NoFrame
               PROVE  \/ s'.slots[i].pts = n /\ ~s'.slots[i].lost
                      \/ /\ ~key /\ s'.slots[i] = s.slots[i]
                         /\ s.slots[i].pts \in s.keyPts .. n - 1
                         /\ coded'[s.slots[i].pts] = coded[s.slots[i].pts]
    OBVIOUS
  <2>1. CASE s'.slots[i] = [id |-> f.id, pts |-> f.pts, lost |-> FALSE]
    BY <2>1
  <2>2. CASE ~key /\ s'.slots[i] = s.slots[i]
    <3>1. s.slots[i].pts \in s.keyPts .. n - 1 /\ s.slots[i].pts \in 0 .. n - 1
      BY <1>11, <2>2, Held DEF n
    <3>2. QED
      BY <1>8, <2>2, <3>1
  <2>3. QED
    BY <1>2, <2>1, <2>2
<1>19. Chained'
  <2>1. ASSUME NEW p \in s'.keyPts .. s'.nextPts - 1
        PROVE  coded'[p].chain \subseteq s'.keyPts .. p
    <3>1. CASE p = n
      BY <1>7, <1>8, <1>9, <3>1
    <3>2. CASE p # n
      <4>1. ~key /\ p \in s.keyPts .. n - 1 /\ p \in 0 .. n - 1 /\ s'.keyPts = s.keyPts
        BY <1>2, <1>3, <2>1, <3>2
      <4>2. coded[p].chain \subseteq s.keyPts .. p
        BY <4>1 DEF SlotsInv, Chained, n
      <4>3. QED
        BY <1>8, <4>1, <4>2
    <3>3. QED
      BY <3>1, <3>2
  <2>2. ASSUME NEW i \in Slots, s'.slots[i] # NoFrame
        PROVE  s'.slots[i].pts \in s'.keyPts .. s'.nextPts - 1
    <3>1. CASE s'.slots[i].pts = n
      BY <1>2, <1>3, <3>1
    <3>2. CASE ~key /\ s'.slots[i].pts \in s.keyPts .. n - 1
      BY <1>2, <1>3, <3>2
    <3>3. QED
      BY <1>18, <2>2, <3>1, <3>2
  <2>3. QED
    BY <2>1, <2>2 DEF Chained
<1>20. NoPredictionThroughLoss'
  <2> SUFFICES ASSUME NEW i \in Slots, s'.slots[i] # NoFrame, ~s'.slots[i].lost,
                      NEW p \in coded'[s'.slots[i].pts].chain \cap lost
               PROVE  CodedTwice(p)'
    BY DEF NoPredictionThroughLoss, Valid, Coding
  <2>1. p \in 0 .. n - 1 /\ p \in 0 .. n /\ p # n
    <3>1. p \in 0 .. n - 1
      BY <1>3
    <3>2. QED
      BY <1>3, <3>1
  <2>2. ~key => \A q \in coded[s.slots[Source].pts].chain \cap lost : CodedTwice(q)
    BY <1>4 DEF SlotsInv, NoPredictionThroughLoss
  <2>3. p \in Chain(key) => CodedTwice(p)
    BY <1>4, <1>5, <2>1, <2>2
  <2>4. CASE s'.slots[i].pts = n
    BY <1>8, <1>9, <1>15, <2>1, <2>3, <2>4
  <2>5. CASE s'.slots[i] = s.slots[i] /\ coded'[s.slots[i].pts] = coded[s.slots[i].pts]
    <3>1. CodedTwice(p)
      BY <2>5 DEF SlotsInv, NoPredictionThroughLoss, Valid
    <3>2. QED
      BY <1>15, <2>1, <3>1
  <2>6. QED
    BY <1>18, <2>4, <2>5
<1>21. QED
  BY <1>10, <1>16, <1>17, <1>19, <1>20 DEF SlotsInv

\* A key frame coded twice leaves the second coding in every slot.
LEMMA EncodeKeyAgainSlotsInv ==
  ASSUME SlotsAssumption, SlotsInv, EncodeKeyAgain
  PROVE  SlotsInv' /\ s'.keyPts > s.keyPts
<1> DEFINE n == s.nextPts
           u == Recorded(s, TRUE)
           f == [id |-> Id(count), pts |-> n]
           g == [id |-> Id(count), pts |-> n + 1]
           new(p) == [count |-> count, chain |-> {p}, sent |-> p > n]
<1>1. /\ s \in State /\ count \in Nat /\ n \in Nat /\ s.keyPts \in Nat /\ s.keyPts <= n
      /\ lost \in SUBSET (0 .. n - 1) /\ RecentFrames \in Nat \ {0} /\ events' \in Nat
      /\ coded \in [0 .. n - 1 -> Coded]
  BY DEF SlotsInv, TypeOK, State, Dating, SlotsAssumption, EncodeKeyAgain, Event
<1>2. /\ u \in State /\ u.nextPts = n + 1
      /\ u.recent = {r \in s.recent \cup {f} : r.pts > n - RecentFrames}
  BY <1>1, RecordedFields
<1>3. s' = Recorded(u, TRUE)
  BY DEF EncodeKeyAgain
<1> HIDE DEF u
<1>4. /\ s' \in State /\ s'.nextPts = n + 2 /\ s'.keyPts = n + 1
      /\ s'.newest = Id(count) /\ s'.sinceKey = 0
      /\ \A i \in Slots : s'.slots[i] = [id |-> g.id, pts |-> g.pts, lost |-> FALSE]
      /\ s'.recent = {r \in u.recent \cup {g} : r.pts > n + 1 - RecentFrames}
  <2>1. /\ s' \in State /\ s'.nextPts = u.nextPts + 1 /\ s'.keyPts = u.nextPts
        /\ s'.newest = Id(count) /\ s'.sinceKey = 0
        /\ \A i \in Slots :
                s'.slots[i] = [id |-> Id(count), pts |-> u.nextPts, lost |-> FALSE]
        /\ s'.recent = {r \in u.recent \cup {[id |-> Id(count), pts |-> u.nextPts]} :
                            r.pts > u.nextPts - RecentFrames}
    BY <1>1, <1>2, <1>3, RecordedFields
  <2>2. u.nextPts + 1 = n + 2 /\ u.nextPts = n + 1
    BY <1>1, <1>2
  <2> HIDE DEF n
  <2>3. s'.recent = {r \in u.recent \cup {g} : r.pts > n + 1 - RecentFrames}
    <3> DEFINE h == [id |-> Id(count), pts |-> u.nextPts]
    <3>1. n + 1 = u.nextPts
      BY <2>2
    <3>2. g = h
      BY <3>1, Zenon
    <3>3. n + 1 - RecentFrames = u.nextPts - RecentFrames
      BY <1>1, <3>1
    <3>4. s'.recent = {r \in u.recent \cup {h} : r.pts > u.nextPts - RecentFrames}
      BY <2>1
    <3> HIDE DEF g, h
    <3>5. QED
      BY <3>2, <3>3, <3>4, Zenon
  <2>4. \A i \in Slots : s'.slots[i] = [id |-> g.id, pts |-> g.pts, lost |-> FALSE]
    <3>1. g.id = Id(count) /\ g.pts = n + 1
      OBVIOUS
    <3> HIDE DEF g
    <3>2. QED
      BY <2>1, <2>2, <3>1, Zenon
  <2>5. QED
    BY <2>1, <2>2, <2>3, <2>4
<1>5. /\ coded' \in [0 .. n + 1 -> Coded]
      /\ \A p \in 0 .. n - 1 : coded'[p] = coded[p]
      /\ coded'[n] = new(n) /\ coded'[n + 1] = new(n + 1)
  <2>1. coded' = [p \in 0 .. n + 1 |-> IF p \in 0 .. n - 1 THEN coded[p] ELSE new(p)]
    BY <1>1 DEF EncodeKeyAgain
  <2>2. \A p \in 0 .. n + 1 : new(p) \in Coded
    BY <1>1 DEF Coded
  <2> HIDE DEF new
  <2>3. n \in 0 .. n + 1 /\ n + 1 \in 0 .. n + 1 /\ n \notin 0 .. n - 1 /\ n + 1 \notin 0 .. n - 1
        /\ 0 .. n - 1 \subseteq 0 .. n + 1
    BY <1>1
  <2>4. QED
    BY <1>1, <2>1, <2>2, <2>3
<1>6. /\ count' = count + 1 /\ forceIdr' = FALSE /\ lost' = lost
  BY DEF EncodeKeyAgain
<1>7. /\ Log' = 0 .. n + 1 /\ Log = 0 .. n - 1
      /\ \A p \in 0 .. n + 1 : p = n + 1 \/ p = n \/ p \in 0 .. n - 1
      /\ s'.keyPts .. s'.nextPts - 1 = {n + 1}
  BY <1>1, <1>4 DEF Log
<1>8. /\ coded'[n].count = count /\ coded'[n + 1].count = count
      /\ ~coded'[n].sent /\ coded'[n + 1].sent /\ coded'[n + 1].chain = {n + 1}
  <2>1. ~(n > n) /\ n + 1 > n
    BY <1>1
  <2>2. /\ new(n).count = count /\ new(n + 1).count = count
        /\ new(n).sent = (n > n) /\ new(n + 1).sent = (n + 1 > n)
        /\ new(n + 1).chain = {n + 1}
    OBVIOUS
  <2> HIDE DEF n, new
  <2>3. QED
    BY <1>5, <2>1, <2>2, Zenon
<1>9. \A p \in 0 .. n - 1 : coded[p].count \in Nat /\ coded[p].count < count
  BY <1>1, <1>7 DEF SlotsInv, Dating, Coded
<1> HIDE DEF n, new
<1>10. TypeOK'
  <2>1. s'.nextPts - 1 = n + 1 /\ lost \subseteq 0 .. n + 1
    BY <1>1, <1>4
  <2>2. count' \in Nat
    BY <1>1, <1>6
  <2>3. forceIdr' \in BOOLEAN
    BY <1>6, Zenon
  <2>4. coded' \in [0 .. s'.nextPts - 1 -> Coded] /\ lost' \subseteq 0 .. s'.nextPts - 1
    BY <1>5, <1>6, <2>1
  <2>5. QED
    BY <1>1, <1>4, <2>2, <2>4, <2>3 DEF TypeOK
<1>11. Dating'
  <2>1. \A p \in 0 .. n + 1 : coded'[p].count < count'
    BY <1>1, <1>5, <1>6, <1>7, <1>8, <1>9
  <2>2. ASSUME NEW p \in 0 .. n + 1, NEW q \in 0 .. n + 1, p < q
        PROVE  /\ coded'[p].count <= coded'[q].count
               /\ coded'[p].sent => coded'[p].count < coded'[q].count
    <3>1. CASE q \in 0 .. n - 1
      <4>1. p \in 0 .. n - 1
        BY <1>1, <2>2, <3>1
      <4>2. QED
        BY <1>5, <1>7, <2>2, <3>1, <4>1 DEF SlotsInv, Dating
    <3>2. CASE q \in {n, n + 1} /\ p \in 0 .. n - 1
      <4>1. coded'[q].count = count /\ coded'[p].count = coded[p].count
        BY <1>5, <1>8, <3>2
      <4>2. coded[p].count \in Nat /\ coded[p].count < count
        BY <1>9, <3>2
      <4>3. QED
        BY <1>1, <4>1, <4>2
    <3>3. CASE q = n + 1 /\ p = n
      BY <1>1, <1>8, <3>3
    <3>4. QED
      BY <1>1, <1>7, <2>2, <3>1, <3>2, <3>3
  <2>3. s'.newest = Id(coded'[s'.nextPts - 1].count)
    <3>1. s'.nextPts - 1 = n + 1
      BY <1>1, <1>4
    <3>2. QED
      BY <1>4, <1>8, <3>1
  <2>4. \A p \in s'.keyPts .. s'.nextPts - 1 :
            LET age == coded'[s'.nextPts - 1].count - coded'[p].count
            IN  age < IdMod \div 2 => age <= s'.sinceKey
    <3>1. s'.nextPts - 1 = n + 1 /\ count - count = 0
      BY <1>1, <1>4
    <3>2. QED
      BY <1>4, <1>7, <1>8, <3>1
  <2>5. s'.keyPts < s'.nextPts /\ s'.keyPts <= s'.nextPts /\ \A p \in 0 .. n + 1 : p <= s'.keyPts
    BY <1>1, <1>4
  <2>6. QED
    BY <1>7, <2>1, <2>2, <2>3, <2>4, <2>5 DEF Dating
<1>12. Remembered'
  <2>1. ASSUME NEW r \in s'.recent
        PROVE  /\ r.pts \in 0 .. n + 1 /\ r.id = Id(coded'[r.pts].count)
               /\ r.pts >= s'.nextPts - RecentFrames
    <3>1. r.pts > n + 1 - RecentFrames /\ (r = g \/ r = f \/ r \in s.recent)
      BY <1>2, <1>4
    <3>2. CASE r = g
      BY <1>1, <1>4, <1>8, <3>1, <3>2
    <3>3. CASE r = f
      BY <1>1, <1>4, <1>8, <3>1, <3>3
    <3>4. CASE r \in s.recent
      <4>1. r.pts \in 0 .. n - 1 /\ r.id = Id(coded[r.pts].count)
        BY <1>7, <3>4 DEF SlotsInv, Remembered
      <4>2. QED
        BY <1>1, <1>4, <1>5, <3>1, <4>1
    <3>5. QED
      BY <3>1, <3>2, <3>3, <3>4
  <2>2. ASSUME NEW p \in 0 .. n + 1, p >= s'.nextPts - RecentFrames
        PROVE  \E r \in s'.recent : r.pts = p
    <3>1. p > n + 1 - RecentFrames /\ p > n - RecentFrames
      BY <1>1, <1>4, <2>2
    <3>2. CASE p = n + 1
      <4>1. g \in s'.recent /\ g.pts = p
        BY <1>4, <3>1, <3>2
      <4>2. QED
        BY <4>1
    <3>3. CASE p = n
      <4>1. f \in s'.recent /\ f.pts = p
        BY <1>2, <1>4, <3>1, <3>3
      <4>2. QED
        BY <4>1
    <3>4. CASE p \in 0 .. n - 1
      <4>1. p >= n - RecentFrames
        BY <1>1, <3>1, <3>4
      <4>2. PICK r \in s.recent : r.pts = p
        BY <1>7, <3>4, <4>1 DEF SlotsInv, Remembered, n
      <4>3. QED
        BY <1>2, <1>4, <3>1, <4>2
    <3>5. QED
      BY <1>7, <3>2, <3>3, <3>4
  <2>3. QED
    BY <1>7, <2>1, <2>2 DEF Remembered
<1>13. \A i \in Slots : s'.slots[i] # NoFrame => s'.slots[i].pts = n + 1
  BY <1>4
<1>14. Chained'
  <2>1. coded'[n + 1].chain \subseteq s'.keyPts .. n + 1
    BY <1>1, <1>4, <1>8
  <2>2. QED
    BY <1>7, <1>13, <2>1 DEF Chained
<1>15. NoPredictionThroughLoss'
  <2>1. n + 1 \notin lost
    BY <1>1
  <2>2. QED
    BY <1>6, <1>8, <1>13, <2>1 DEF NoPredictionThroughLoss, Valid
<1>16. s'.keyPts > s.keyPts
  BY <1>1, <1>4
<1>17. QED
  BY <1>10, <1>11, <1>12, <1>14, <1>15, <1>16 DEF SlotsInv

\* What marking from a cut leaves of a slot.
LEMMA Marked ==
  ASSUME SlotsAssumption, SlotsInv, NEW cut \in Nat
  PROVE  /\ MarkFrom(cut) \in [Slots -> SlotFrame \cup {NoFrame}]
         /\ \A i \in Slots :
                /\ MarkFrom(cut)[i] = NoFrame <=> s.slots[i] = NoFrame
                /\ s.slots[i] # NoFrame =>
                    /\ MarkFrom(cut)[i].pts = s.slots[i].pts
                    /\ MarkFrom(cut)[i].lost <=> (s.slots[i].lost \/ s.slots[i].pts >= cut)
<1>1. \A i \in Slots : s.slots[i] \in SlotFrame \cup {NoFrame}
  BY DEF SlotsInv, TypeOK, State
<1>2. NoFrame \notin SlotFrame
  BY DEF SlotsAssumption
<1>3. ASSUME NEW g \in SlotFrame
      PROVE  LET m == [g EXCEPT !.lost = @ \/ g.pts >= cut]
             IN  m \in SlotFrame /\ m.pts = g.pts /\ (m.lost <=> (g.lost \/ g.pts >= cut))
  BY DEF SlotFrame
<1>4. QED
  BY <1>1, <1>2, <1>3 DEF MarkFrom

\* The frame a report names, where one of its id is remembered.
LEMMA FirstNamed ==
  ASSUME SlotsAssumption, SlotsInv, NEW S \in SUBSET s.recent, S # {}
  PROVE  First(S) \in S /\ First(S).pts \in Log /\ \A r \in S : First(S).pts <= r.pts
<1> DEFINE T == {r.pts : r \in S}
<1>1. \A r \in S : r.pts \in Log /\ r.pts \in Nat
  BY DEF SlotsInv, Remembered, Log
<1>2. PICK m \in T : \A k \in T : m <= k
  BY <1>1, LeastNatural, T \in SUBSET Nat, T # {}
<1>3. \E r \in S : \A q \in S : r.pts <= q.pts
  BY <1>2
<1>4. First(S) \in S /\ \A q \in S : First(S).pts <= q.pts
  BY <1>3 DEF First
<1>5. QED
  BY <1>1, <1>4

LEMMA LastNamed ==
  ASSUME SlotsAssumption, SlotsInv, NEW S \in SUBSET s.recent, S # {}
  PROVE  Last(S) \in S /\ Last(S).pts \in Log /\ \A r \in S : r.pts <= Last(S).pts
<1> DEFINE T == {s.nextPts - r.pts : r \in S}
<1>1. \A r \in S : r.pts \in Log /\ r.pts \in Nat /\ r.pts < s.nextPts /\ s.nextPts \in Nat
  BY DEF SlotsInv, Remembered, Log, TypeOK, State
<1>2. PICK m \in T : \A k \in T : m <= k
  BY <1>1, LeastNatural, T \in SUBSET Nat, T # {}
<1>3. PICK r \in S : m = s.nextPts - r.pts
  BY <1>2
<1>4. \A q \in S : q.pts <= r.pts
  <2> TAKE q \in S
  <2>1. m <= s.nextPts - q.pts
    BY <1>2
  <2>2. QED
    BY <1>1, <1>3, <2>1
<1>5. Last(S) \in S /\ \A q \in S : q.pts <= Last(S).pts
  BY <1>4 DEF Last
<1>6. QED
  BY <1>1, <1>5

LEMMA CutType ==
  ASSUME SlotsAssumption, SlotsInv, NEW id
  PROVE  Cut(id) = {} \/ \E cut \in Nat : Cut(id) = {cut}
<1>1. Named(id) # {} => First(Named(id)).pts \in Nat
  BY FirstNamed DEF Named, Log
<1>2. QED
  BY <1>1 DEF Cut

\* The id of a report in time names its frame, if that is remembered, or none.
LEMMA NamedIsReported ==
  ASSUME SlotsAssumption, SlotsInv, NEW p \in Reportable
  PROVE  LET id == Id(coded[p].count) IN
         /\ p \in Log
         /\ (\E r \in s.recent : r.pts = p) <=> (\E r \in Named(id) : r.pts = p)
         /\ (Named(id) # {} => \E r \in Named(id) : r.pts = p)
         /\ RecentIdsDiffer => \A r \in Named(id) :
                r.pts = p \/ (r.pts < p /\ CodedTwice(p))
<1> DEFINE a == coded[p].count
           id == Id(a)
<1>1. /\ p \in Log /\ count - a < IdMod \div 2 /\ a \in Nat /\ count \in Nat
      /\ coded[p].sent
  BY DEF Reportable, SlotsInv, TypeOK, Log, Coded
<1>2. \A r \in s.recent : r.pts = p => r \in Named(id)
  BY DEF Named, SlotsInv, Remembered
<1>3. ASSUME NEW q \in Named(id), ~ \E r \in s.recent : r.pts = p PROVE FALSE
  <2>1. q \in s.recent /\ q.pts \in Log /\ q.id = id /\ q.id = Id(coded[q.pts].count)
    BY DEF Named, SlotsInv, Remembered
  <2>2. p < q.pts
    <3>1. ~(p >= s.nextPts - RecentFrames) /\ q.pts >= s.nextPts - RecentFrames
      BY <1>1, <1>3, <2>1 DEF SlotsInv, Remembered
    <3>2. p \in Int /\ q.pts \in Int /\ s.nextPts - RecentFrames \in Int
      BY <1>1, <2>1 DEF Log, SlotsInv, TypeOK, State, SlotsAssumption
    <3>3. QED
      BY <3>1, <3>2
  <2> DEFINE b == coded[q.pts].count
  <2>3. b \in Nat /\ a < b /\ b < count
    BY <1>1, <2>1, <2>2 DEF SlotsInv, Dating, TypeOK, Log, Coded
  <2> HIDE DEF a, b
  <2>4. b - a < IdMod \div 2
    BY <1>1, <2>3, HalfIds
  <2>5. (Id(b) - Id(a)) % IdMod = b - a
    BY <1>1, <2>3, <2>4, BehindByCount
  <2>6. Id(b) = Id(a)
    BY <2>1 DEF b
  <2>7. Id(a) \in Int
    BY <1>1, IdType DEF Id, Ids
  <2>8. (Id(b) - Id(a)) % IdMod = 0
    BY <2>6, <2>7, HalfIds
  <2>9. QED
    BY <1>1, <2>3, <2>5, <2>8
<1>4. Named(id) \in SUBSET s.recent
  BY DEF Named
<1>5. Named(id) # {} => \E r \in Named(id) : r.pts = p
  BY <1>2, <1>3
<1>6. ASSUME RecentIdsDiffer, NEW r \in Named(id), r.pts # p
      PROVE  r.pts < p /\ CodedTwice(p)
  <2>1. PICK q \in Named(id) : q.pts = p
    BY <1>5
  <2>2. coded[r.pts].count = a
    BY <1>6, <2>1 DEF RecentIdsDiffer, Named
  <2>3. r.pts \in Log /\ r.pts \in Nat /\ p \in Nat
    BY <1>1, <1>4 DEF SlotsInv, Remembered, Log
  <2>4. ~(p < r.pts)
    <3>1. p < r.pts => a < coded[r.pts].count
      BY <1>1, <2>3 DEF SlotsInv, Dating
    <3>2. QED
      BY <1>1, <2>2, <3>1
  <2>5. r.pts < p
    BY <1>6, <2>3, <2>4
  <2>6. p - 1 \in Log /\ r.pts <= p - 1 /\ p - 1 < p /\ p > 0
    <3>1. s.nextPts \in Nat /\ p <= s.nextPts - 1
      BY <1>1 DEF SlotsInv, TypeOK, State, Log
    <3>2. r.pts <= p - 1 /\ p - 1 < p /\ p > 0
      BY <2>3, <2>5
    <3>3. QED
      BY <2>3, <3>1, <3>2 DEF Log
  <2>7. coded[p - 1].count \in Nat
    BY <2>6 DEF SlotsInv, TypeOK, Log, Coded
  <2>8. a <= coded[p - 1].count /\ coded[p - 1].count <= a
    <3>1. coded[p - 1].count <= a
      BY <1>1, <2>6 DEF SlotsInv, Dating
    <3>2. CASE r.pts = p - 1
      BY <1>1, <2>2, <3>1, <3>2
    <3>3. CASE r.pts < p - 1
      BY <2>2, <2>3, <2>6, <3>1, <3>3 DEF SlotsInv, Dating
    <3>4. QED
      BY <2>3, <2>6, <3>2, <3>3
  <2>9. QED
    BY <1>1, <2>5, <2>6, <2>7, <2>8 DEF CodedTwice
<1>7. QED
  BY <1>1, <1>2, <1>4, <1>5, <1>6

\* A frame older than every one remembered is dated as that.
LEMMA ForgottenIsDated ==
  ASSUME SlotsAssumption, SlotsInv, NEW p \in Reportable, p >= s.keyPts,
         ~ \E r \in s.recent : r.pts = p
  PROVE  Cut(Id(coded[p].count)) = {0}
<1> DEFINE n == s.nextPts
           f == First(s.recent)
           a == coded[p].count
           b == coded[n - 1].count
           c == coded[f.pts].count
           since == s.sinceKey
<1>1. p \in Log /\ Named(Id(a)) = {} /\ count - a < IdMod \div 2 /\ coded[p].sent
  BY NamedIsReported DEF Reportable
<1>2. n \in Nat /\ s.keyPts \in Nat /\ since \in Nat /\ RecentFrames \in Nat \ {0}
  BY DEF SlotsInv, TypeOK, State, SlotsAssumption
<1>3. n > 0 /\ n - 1 \in Log /\ p \in s.keyPts .. n - 1 /\ p <= n - 1
  BY <1>1, <1>2 DEF Log
<1>4. s.recent # {}
  BY <1>2, <1>3 DEF SlotsInv, Remembered
<1>5. f \in s.recent /\ f.pts \in Log /\ f.id = Id(c)
  BY <1>4, FirstNamed DEF SlotsInv, Remembered
<1> HIDE DEF f
<1>6. p < f.pts /\ f.pts <= n - 1
  <2>1. ~(p >= s.nextPts - RecentFrames) /\ f.pts >= s.nextPts - RecentFrames
    BY <1>1, <1>5 DEF SlotsInv, Remembered
  <2>2. QED
    BY <1>1, <1>2, <1>5, <2>1 DEF Log
<1>7. a \in Nat /\ b \in Nat /\ c \in Nat /\ count \in Nat /\ b < count /\ a < c
  BY <1>1, <1>3, <1>5, <1>6 DEF SlotsInv, Dating, TypeOK, Log, Coded
<1>8. c <= b
  <2>1. f.pts = n - 1 \/ f.pts < n - 1
    BY <1>2, <1>5, <1>6 DEF Log
  <2>2. f.pts < n - 1 => c <= b
    BY <1>3, <1>5 DEF SlotsInv, Dating
  <2>3. QED
    BY <1>7, <2>1, <2>2
<1>9. s.newest = Id(b) /\ (b - a < IdMod \div 2 => b - a <= since)
  BY <1>3 DEF SlotsInv, Dating
<1> HIDE DEF a, b, c, since
<1>10. b - a < IdMod \div 2 /\ b - c < IdMod \div 2
  BY <1>1, <1>7, <1>8, HalfIds
<1>11. (Id(b) - Id(a)) % IdMod = b - a /\ (Id(b) - Id(c)) % IdMod = b - c
  BY <1>7, <1>8, <1>10, BehindByCount
<1>12. Behind(Id(a)) = b - a /\ Behind(f.id) = b - c
  BY <1>5, <1>9, <1>11 DEF Behind
<1>13. Dated(Id(a))
  BY <1>9, <1>10, <1>12 DEF Dated, since
<1>14. Behind(Id(a)) > Behind(f.id)
  BY <1>7, <1>8, <1>12
<1>15. QED
  BY <1>1, <1>4, <1>13, <1>14 DEF Cut, a, f

\* Once a report is taken, nothing valid depends on the frame it names, if that
\* was coded once.
LEMMA NothingPastLoss ==
  ASSUME SlotsAssumption, SlotsInv, RecentIdsDiffer, NEW p \in Reportable, ~CodedTwice(p),
         s' = Invalidated(Id(coded[p].count)), NEW i \in Slots, Valid(i)'
  PROVE  p \notin coded[s.slots[i].pts].chain
<1> DEFINE id == Id(coded[p].count)
           chain == coded[s.slots[i].pts].chain
<1>1. s.nextPts \in Nat /\ s.keyPts \in Nat /\ p \in Log /\ p \in Nat
  BY NamedIsReported DEF SlotsInv, TypeOK, State, Log
<1>2. ASSUME NEW cut \in Nat, Cut(id) = {cut}
      PROVE  s.slots[i] # NoFrame /\ s.slots[i].pts < cut
  <2>1. s'.slots = MarkFrom(cut)
    BY <1>2 DEF Invalidated, SlotsInv, TypeOK, State
  <2>2. s.slots[i] # NoFrame /\ ~(s.slots[i].pts >= cut)
    BY <2>1, Marked DEF Valid
  <2>3. s.slots[i].pts \in Nat
    BY <2>2, Held DEF Log
  <2>4. QED
    BY <2>2, <2>3
<1>3. s.slots[i] # NoFrame
  <2>1. CASE Cut(id) = {}
    BY <2>1 DEF Invalidated, Valid
  <2>2. QED
    BY <1>2, <2>1, CutType
<1>4. s.slots[i].pts \in Nat /\ chain \subseteq s.keyPts .. s.slots[i].pts
  BY <1>3, Held DEF Log
<1> HIDE DEF chain, id
<1>5. CASE p < s.keyPts
  <2>1. p \notin s.keyPts .. s.slots[i].pts
    BY <1>1, <1>5
  <2>2. QED
    BY <1>4, <2>1 DEF chain
<1>6. CASE p >= s.keyPts /\ \E r \in s.recent : r.pts = p
  <2>1. Named(id) # {} /\ \A r \in Named(id) : r.pts = p
    BY <1>6, NamedIsReported DEF id
  <2>2. First(Named(id)).pts = p
    BY <2>1, FirstNamed, Named(id) \in SUBSET s.recent DEF Named
  <2>3. Cut(id) = {p}
    BY <1>6, <2>1, <2>2 DEF Cut
  <2>4. s.slots[i].pts < p
    BY <1>1, <1>2, <2>3
  <2>5. p \notin s.keyPts .. s.slots[i].pts
    BY <1>1, <1>4, <2>4
  <2>6. QED
    BY <1>4, <2>5 DEF chain
<1>7. CASE p >= s.keyPts /\ ~ \E r \in s.recent : r.pts = p
  <2>1. Cut(id) = {0}
    BY <1>7, ForgottenIsDated DEF id
  <2>2. s.slots[i].pts < 0
    BY <1>2, <2>1
  <2>3. QED
    BY <1>4, <2>2
<1>8. QED
  BY <1>1, <1>5, <1>6, <1>7
\* A step that codes nothing and leaves what the slots hold, or less of it.
LEMMA NothingCoded ==
  ASSUME SlotsAssumption, SlotsInv, s' \in State, UNCHANGED <<coded>>,
         s'.recent = s.recent, s'.nextPts = s.nextPts, s'.newest = s.newest,
         s'.sinceKey = s.sinceKey, s'.keyPts = s.keyPts,
         \A i \in Slots :
            /\ s'.slots[i] = NoFrame <=> s.slots[i] = NoFrame
            /\ s.slots[i] # NoFrame =>
                /\ s'.slots[i].pts = s.slots[i].pts
                /\ s.slots[i].lost => s'.slots[i].lost,
         count' \in {count, count + 1}, forceIdr' \in BOOLEAN, events' \in Nat,
         lost' \in SUBSET Log,
         \A i \in Slots : Valid(i)' =>
            \A p \in lost' \ lost : p \in coded[s.slots[i].pts].chain => CodedTwice(p)
  PROVE  SlotsInv'
<1>1. Log' = Log
  BY DEF Log
<1>2. TypeOK'
  <2>1. count' \in Nat
    BY DEF SlotsInv, TypeOK
  <2>2. coded' \in [0 .. s'.nextPts - 1 -> Coded]
    BY DEF SlotsInv, TypeOK
  <2>3. lost' \subseteq 0 .. s'.nextPts - 1
    BY DEF Log
  <2>4. QED
    BY <2>1, <2>2, <2>3 DEF TypeOK
<1>3. \A p \in Log : coded[p].count < count'
  <2> SUFFICES ASSUME NEW p \in Log PROVE coded[p].count < count'
    OBVIOUS
  <2>1. coded[p].count \in Nat /\ coded[p].count < count /\ count \in Nat
    BY DEF SlotsInv, TypeOK, Dating, Log, Coded
  <2>2. QED
    BY <2>1
<1>4. Dating'
  BY <1>1, <1>3 DEF Dating, SlotsInv, CodedTwice
<1>5. Remembered' /\ Chained'
  BY <1>1 DEF Remembered, Chained, SlotsInv
<1>6. NoPredictionThroughLoss'
  <2> SUFFICES ASSUME NEW i \in Slots, Valid(i)',
                      NEW p \in coded[s'.slots[i].pts].chain \cap lost'
               PROVE  CodedTwice(p)
    BY DEF NoPredictionThroughLoss, CodedTwice
  <2>1. Valid(i) /\ s'.slots[i].pts = s.slots[i].pts
    BY DEF Valid
  <2>2. p \in lost => CodedTwice(p)
    BY <2>1 DEF SlotsInv, NoPredictionThroughLoss
  <2>3. QED
    BY <2>1, <2>2
<1>7. QED
  BY <1>2, <1>4, <1>5, <1>6 DEF SlotsInv

LEMMA InvalidatedType ==
  ASSUME SlotsAssumption, SlotsInv, NEW id
  PROVE  /\ Invalidated(id) \in State
         /\ Invalidated(id) = [s EXCEPT !.slots = Invalidated(id).slots]
         /\ \A i \in Slots :
            /\ Invalidated(id).slots[i] = NoFrame <=> s.slots[i] = NoFrame
            /\ s.slots[i] # NoFrame =>
                /\ Invalidated(id).slots[i].pts = s.slots[i].pts
                /\ s.slots[i].lost => Invalidated(id).slots[i].lost
<1>1. s \in State
  BY DEF SlotsInv, TypeOK
<1>2. CASE Cut(id) = {}
  <2>1. Invalidated(id) = s
    BY <1>2 DEF Invalidated
  <2>2. s = [s EXCEPT !.slots = s.slots]
    BY <1>1 DEF State
  <2>3. QED
    BY <1>1, <2>1, <2>2
<1>3. CASE \E cut \in Nat : Cut(id) = {cut}
  <2>1. PICK cut \in Nat : Cut(id) = {cut}
    BY <1>3
  <2>2. Invalidated(id) = [s EXCEPT !.slots = MarkFrom(cut)]
    BY <2>1 DEF Invalidated
  <2>3. MarkFrom(cut) \in [Slots -> SlotFrame \cup {NoFrame}]
    BY Marked
  <2>4. Invalidated(id).slots = MarkFrom(cut)
    BY <1>1, <2>2 DEF State
  <2>5. Invalidated(id) \in State
    BY <1>1, <2>2, <2>3 DEF State
  <2>6. QED
    BY <2>2, <2>4, <2>5, Marked
<1>4. QED
  BY <1>2, <1>3, CutType

LEMMA AcknowledgedType ==
  ASSUME SlotsAssumption, SlotsInv, NEW id, NEW held \in BOOLEAN
  PROVE  LET a == Acknowledged(id, held)
             p == Last(Named(id)).pts
             named == Named(id) # {} /\ p >= s.keyPts
         IN  /\ a \in State
             /\ a.recent = s.recent /\ a.nextPts = s.nextPts /\ a.newest = s.newest
             /\ a.sinceKey = s.sinceKey /\ a.keyPts = s.keyPts /\ a.slots = s.slots
             /\ a = [s EXCEPT !.acknowledged = TRUE,
                        !.common = IF named /\ held
                                   THEN NewestPts(@ \cup {p}, RecentFrames) ELSE @,
                        !.sent = IF named /\ ~held
                                 THEN NewestPts(@ \cup {p}, RecentFrames) ELSE @]
<1> DEFINE p == Last(Named(id)).pts
           a == Acknowledged(id, held)
           named == Named(id) # {} /\ p >= s.keyPts
           common == IF named /\ held THEN NewestPts(s.common \cup {p}, RecentFrames)
                     ELSE s.common
           sent == IF named /\ ~held THEN NewestPts(s.sent \cup {p}, RecentFrames)
                   ELSE s.sent
<1>1. s \in State /\ s.common \in SUBSET Nat /\ s.sent \in SUBSET Nat /\ s.keyPts \in Nat
  BY DEF SlotsInv, TypeOK, State
<1>2. Named(id) # {} => p \in Nat
  BY LastNamed, Named(id) \in SUBSET s.recent DEF Named, Log
<1> HIDE DEF p
<1>3. common \in SUBSET Nat /\ sent \in SUBSET Nat
  BY <1>1, <1>2 DEF NewestPts
<1>4. Named(id) # {} => (p < s.keyPts <=> ~(p >= s.keyPts))
  BY <1>1, <1>2
<1>5. a = [s EXCEPT !.acknowledged = TRUE, !.common = common, !.sent = sent]
  <2>1. CASE ~named
    <3>1. a = [s EXCEPT !.acknowledged = TRUE]
      BY <1>4, <2>1 DEF Acknowledged, p
    <3>2. QED
      BY <1>1, <2>1, <3>1 DEF State
  <2>2. CASE named /\ held
    <3>1. a = [s EXCEPT !.acknowledged = TRUE, !.common = common]
      BY <1>4, <2>2 DEF Acknowledged, p
    <3>2. sent = s.sent
      BY <2>2
    <3> HIDE DEF a, common, sent
    <3>3. QED
      BY <1>1, <3>1, <3>2 DEF State
  <2>3. CASE named /\ ~held
    <3>1. a = [s EXCEPT !.acknowledged = TRUE, !.sent = sent]
      BY <1>4, <2>3 DEF Acknowledged, p
    <3>2. common = s.common
      BY <2>3
    <3> HIDE DEF a, common, sent
    <3>3. QED
      BY <1>1, <3>1, <3>2 DEF State
  <2>4. QED
    BY <2>1, <2>2, <2>3
<1> HIDE DEF a, common, sent
<1>6. a \in State
  BY <1>1, <1>3, <1>5, ZenonT(60) DEF State
<1>7. /\ a.recent = s.recent /\ a.nextPts = s.nextPts /\ a.newest = s.newest
      /\ a.sinceKey = s.sinceKey /\ a.keyPts = s.keyPts /\ a.slots = s.slots
  BY <1>1, <1>5 DEF State
<1>8. QED
  BY <1>5, <1>6, <1>7 DEF a, common, sent, p

LEMMA EncodeKeeps ==
  ASSUME SlotsAssumption, SlotsInv, NEW own \in BOOLEAN, Encode(own), events' \in Nat
  PROVE  SlotsInv'
<1>1. forceIdr' \in BOOLEAN /\ (own \/ Key) \in BOOLEAN /\ Coding(own \/ Key, TRUE)
  <2>1. Key \in BOOLEAN
    BY DEF Key, HasReference, SlotsInv, TypeOK
  <2>2. QED
    BY <2>1, Zenon DEF Encode
<1>2. ~(own \/ Key) => HasReference
  BY DEF Key
<1>3. QED
  BY <1>1, <1>2, EncodeSlotsInv

LEMMA NextSlotsInv ==
  ASSUME SlotsAssumption, SlotsInv, RecentIdsDiffer, [Next]_vars
  PROVE  SlotsInv'
<1>1. events \in Nat /\ events + 1 \in Nat /\ s \in State /\ lost \in SUBSET Log
  BY DEF SlotsInv, TypeOK, Log
<1>2. forceIdr \in BOOLEAN
  BY DEF SlotsInv, TypeOK
<1>3. CASE EncodeFrame
  BY <1>1, <1>3, EncodeKeeps DEF EncodeFrame
<1>4. CASE EncodeOwnKey
  BY <1>1, <1>4, EncodeKeeps DEF EncodeOwnKey, Event
<1>5. CASE EncodeKeyAgain
  BY <1>5, EncodeKeyAgainSlotsInv
<1>6. CASE EncodeKeyAgainFails
  <2>1. Coding(TRUE, FALSE) /\ forceIdr' \in BOOLEAN /\ events' \in Nat
    BY <1>1, <1>2, <1>6 DEF EncodeKeyAgainFails, Event
  <2>2. QED
    BY <2>1, EncodeSlotsInv
<1>7. CASE SkipFrame \/ UNCHANGED vars
  <2>1. s' = s /\ lost' = lost /\ UNCHANGED <<coded>> /\ forceIdr' = forceIdr
        /\ count' \in {count, count + 1} /\ events' \in Nat
    BY <1>1, <1>7 DEF SkipFrame, Event, vars
  <2>2. QED
    BY <1>1, <1>2, <2>1, NothingCoded
<1>8. CASE RequestIdr
  <2>1. s' = s /\ lost' = lost /\ UNCHANGED <<coded>> /\ count' = count /\ events' \in Nat
    BY <1>1, <1>8 DEF RequestIdr, Event
  <2>2. forceIdr' \in BOOLEAN
    BY <1>8, Zenon DEF RequestIdr
  <2>3. QED
    BY <1>1, <2>1, <2>2, NothingCoded
<1>9. CASE ReportLost
  <2>1. PICK p \in Reportable : /\ s' = Invalidated(Id(coded[p].count))
                                /\ lost' = lost \cup {p}
    BY <1>9 DEF ReportLost
  <2>2. p \in Log
    BY NamedIsReported
  <2>3. \A i \in Slots : Valid(i)' => (p \in coded[s.slots[i].pts].chain => CodedTwice(p))
    BY <2>1, NothingPastLoss
  <2>4. /\ s' \in State /\ s' = [s EXCEPT !.slots = s'.slots]
        /\ \A i \in Slots :
            /\ s'.slots[i] = NoFrame <=> s.slots[i] = NoFrame
            /\ s.slots[i] # NoFrame =>
                /\ s'.slots[i].pts = s.slots[i].pts
                /\ s.slots[i].lost => s'.slots[i].lost
    BY <2>1, InvalidatedType
  <2>5. /\ s'.recent = s.recent /\ s'.nextPts = s.nextPts /\ s'.newest = s.newest
        /\ s'.sinceKey = s.sinceKey /\ s'.keyPts = s.keyPts
    BY <1>1, <2>4 DEF State
  <2>6. /\ lost' \in SUBSET Log /\ lost' \ lost \subseteq {p}
        /\ UNCHANGED <<coded>> /\ count' = count /\ forceIdr' = forceIdr /\ events' \in Nat
    BY <1>1, <1>9, <2>1, <2>2 DEF ReportLost, Event
  <2>7. QED
    BY <1>2, <2>3, <2>4, <2>5, <2>6, NothingCoded
<1>10. CASE ReportHeld
  <2>1. PICK p \in Reportable, held \in BOOLEAN :
            s' = Acknowledged(Id(coded[p].count), held)
    BY <1>10 DEF ReportHeld
  <2>2. /\ s' \in State
        /\ s'.recent = s.recent /\ s'.nextPts = s.nextPts /\ s'.newest = s.newest
        /\ s'.sinceKey = s.sinceKey /\ s'.keyPts = s.keyPts /\ s'.slots = s.slots
    BY <2>1, AcknowledgedType
  <2>3. /\ lost' = lost /\ UNCHANGED <<coded>> /\ count' = count
        /\ forceIdr' = forceIdr /\ events' \in Nat
    BY <1>1, <1>10 DEF ReportHeld, Event
  <2>4. QED
    BY <1>1, <1>2, <2>2, <2>3, NothingCoded
<1>11. QED
  BY <1>3, <1>4, <1>7, <1>8, <1>9, <1>10, <1>5, <1>6 DEF Next
-----------------------------------------------------------------------------

\* No buffer left in the predictions holds a frame that depends, however
\* indirectly, on one coded once and reported lost, and the session's state
\* keeps its types: while the frames remembered have different ids, invalidate finds
\* the frame a report names or knows it for older than what it remembers.
THEOREM BuffersPredictPastLoss ==
  ASSUME SlotsAssumption
  PROVE  Spec /\ []RecentIdsDiffer => [](TypeOK /\ NoPredictionThroughLoss)
<1>1. Init => SlotsInv
  BY InitSlotsInv
<1>2. SlotsInv /\ RecentIdsDiffer /\ [Next]_vars => SlotsInv'
  BY NextSlotsInv
<1>3. SlotsInv => TypeOK /\ NoPredictionThroughLoss
  BY DEF SlotsInv
<1>4. QED
  BY <1>1, <1>2, <1>3, PTL DEF Spec
-----------------------------------------------------------------------------
(* The anchor every consumer holds.                                        *)

\* What is noted of the consumers is of frames coded.
Noted == s.common \subseteq Log

\* A set of naturals below a bound has a greatest member.
LEMMA GreatestNatural ==
  ASSUME NEW T \in SUBSET Nat, T # {}, NEW n \in Nat, \A k \in T : k <= n
  PROVE  \E m \in T : \A k \in T : k <= m
<1> DEFINE D == {n - k : k \in T}
<1>1. PICK m \in D : \A k \in D : m <= k
  BY LeastNatural, D \in SUBSET Nat, D # {}
<1>2. PICK k \in T : m = n - k
  OBVIOUS
<1>3. \A j \in T : n - k <= n - j
  BY <1>1, <1>2
<1>4. QED
  BY <1>3

\* An anchor of the next state that is common pins one as new.
LEMMA CommonIsPinned ==
  ASSUME SlotsAssumption, SlotsInv', NEW i \in AnchorSlots, Valid(i)',
         s'.slots[i].pts = s'.keyPts \/ s'.slots[i].pts \in s'.common
  PROVE  Pinned' # {} /\ \E j \in Slots : j \in Pinned' /\ s'.slots[j].pts >= s'.slots[i].pts
<1> DEFINE C == {j \in AnchorSlots : Valid(j)' /\
                    (s'.slots[j].pts = s'.keyPts \/ s'.slots[j].pts \in s'.common)}
           T == {s'.slots[j].pts : j \in C}
<1>1. s'.nextPts \in Nat /\ s'.keyPts \in Nat
  BY DEF SlotsInv, TypeOK, State
<1>2. AnchorSlots \subseteq Slots
  BY DEF AnchorSlots, Slots, SlotsAssumption
<1>3. \A j \in C : s'.slots[j].pts \in Nat /\ s'.slots[j].pts <= s'.nextPts
  <2> SUFFICES ASSUME NEW j \in C
               PROVE  s'.slots[j].pts \in Nat /\ s'.slots[j].pts <= s'.nextPts
    OBVIOUS
  <2>1. j \in Slots /\ s'.slots[j] # NoFrame
    BY <1>2 DEF Valid
  <2>2. s'.slots[j].pts \in s'.keyPts .. s'.nextPts - 1
    BY <2>1 DEF SlotsInv, Chained
  <2>3. QED
    BY <1>1, <2>2
<1>4. i \in C
  OBVIOUS
<1>5. T \in SUBSET Nat /\ T # {} /\ \A k \in T : k <= s'.nextPts
  BY <1>3, <1>4
<1>6. PICK m \in T : \A k \in T : k <= m
  BY <1>1, <1>5, GreatestNatural
<1>7. PICK j \in C : m = s'.slots[j].pts
  OBVIOUS
<1>8. \A k \in C : s'.slots[k].pts <= s'.slots[j].pts
  BY <1>6, <1>7
<1>9. CommonSlots' = C
  BY DEF CommonSlots, IsCommon
<1>10. j \in Pinned'
  BY <1>7, <1>8, <1>9 DEF Pinned
<1>11. s'.slots[j].pts >= s'.slots[i].pts
  BY <1>3, <1>4, <1>8
<1>12. QED
  BY <1>2, <1>7, <1>10, <1>11

LEMMA PinnedIsHeld ==
  ASSUME SlotsAssumption, SlotsInv, Pinned # {}
  PROVE  LET m == Max(Pinned) IN
         /\ m \in AnchorSlots /\ m \in Slots /\ Valid(m) /\ IsCommon(s.slots[m].pts)
<1>1. Pinned \in SUBSET AnchorSlots
  BY DEF Pinned, CommonSlots
<1>2. AnchorSlots \in SUBSET Nat /\ \A k \in AnchorSlots : k <= 2 * Ring + 2
  BY DEF AnchorSlots, SlotsAssumption
<1>3. 2 * Ring + 2 \in Nat
  BY DEF SlotsAssumption
<1>4. \E m \in Pinned : \A k \in Pinned : k <= m
  BY <1>1, <1>2, <1>3, GreatestNatural
<1>5. Max(Pinned) \in Pinned
  <2>1. PICK m \in Pinned : \A k \in Pinned : m >= k
    BY <1>1, <1>2, <1>4
  <2>2. QED
    BY <2>1 DEF Max
<1>6. AnchorSlots \subseteq Slots
  BY DEF AnchorSlots, Slots, SlotsAssumption
<1>7. QED
  BY <1>1, <1>5, <1>6 DEF Pinned, CommonSlots

\* The schedule picks among the anchors open to it.
LEMMA TargetIsOpen ==
  ASSUME SlotsAssumption, SlotsInv
  PROVE  \A i \in AnchorTarget :
            i \in AnchorSlots /\ ~Pending(i) /\ (Pinned = {} \/ i # Max(Pinned))
<1> DEFINE open == {i \in AnchorSlots : ~Pending(i) /\ (Pinned = {} \/ i # Max(Pinned))}
           first == {i \in open : \A j \in open : RefreshedBefore(i, j)}
           valid(k) == IF Valid(k) THEN 1 ELSE 0
           pts(k) == IF s.slots[k] = NoFrame THEN 0 ELSE s.slots[k].pts
<1> SUFFICES ASSUME open # {} PROVE Min(first) \in open
  BY DEF AnchorTarget
<1>1. \A k \in AnchorSlots : pts(k) \in Nat /\ k \in Nat
  <2>1. AnchorSlots \subseteq Slots /\ AnchorSlots \subseteq Nat
    BY DEF AnchorSlots, Slots, SlotsAssumption
  <2>2. QED
    BY <2>1, Held DEF Log
<1>2. \A i, j : RefreshedBefore(i, j) <=>
                  valid(i) < valid(j) \/ (valid(i) = valid(j) /\ pts(i) <= pts(j))
  BY DEF RefreshedBefore
<1>3. ASSUME NEW S \in SUBSET open, S # {}
      PROVE  \E i \in S : \A j \in S : pts(i) <= pts(j)
  <2> DEFINE T == {pts(i) : i \in S}
  <2>1. \A i \in S : pts(i) \in Nat
    BY <1>1
  <2>2. T \in SUBSET Nat /\ T # {}
    BY <1>3, <2>1
  <2>3. PICK m \in T : \A k \in T : m <= k
    BY <2>2, LeastNatural
  <2>4. PICK i \in S : m = pts(i)
    OBVIOUS
  <2> HIDE DEF pts
  <2>5. \A j \in S : pts(i) <= pts(j)
    BY <2>3, <2>4
  <2>6. QED
    BY <2>5
<1> DEFINE out == {i \in open : ~Valid(i)}
<1>4. first # {}
  <2>1. CASE out # {}
    <3>1. PICK i \in out : \A j \in out : pts(i) <= pts(j)
      BY <1>3, <2>1
    <3> HIDE DEF pts
    <3>2. \A j \in open : RefreshedBefore(i, j)
      BY <1>2, <3>1
    <3>3. QED
      BY <3>1, <3>2
  <2>2. CASE out = {}
    <3>1. PICK i \in open : \A j \in open : pts(i) <= pts(j)
      BY <1>3
    <3> HIDE DEF pts
    <3>2. \A j \in open : RefreshedBefore(i, j)
      BY <1>2, <2>2, <3>1
    <3>3. QED
      BY <3>1, <3>2
  <2>3. QED
    BY <2>1, <2>2
<1>5. first \in SUBSET Nat
  BY <1>1
<1> HIDE DEF first
<1>6. PICK k \in first : \A n \in first : k <= n
  BY <1>4, <1>5, LeastNatural
<1>7. Min(first) \in first
  BY <1>6 DEF Min
<1>8. QED
  BY <1>7 DEF first
\* The anchor the schedule keeps from a frame that is no key frame.
LEMMA PinnedIsNotRefreshed ==
  ASSUME SlotsAssumption, SlotsInv, s.acknowledged, Pinned # {}
  PROVE  Max(Pinned) \notin Refresh
<1> DEFINE m == Max(Pinned)
<1>1. m \in AnchorSlots
  BY PinnedIsHeld
<1>2. m \notin AnchorTarget
  BY TargetIsOpen
<1>3. m # (IF IsVp9 THEN SinceKey % Ring ELSE 0)
  <2>1. s.nextPts \in Nat /\ s.keyPts \in Nat
    BY DEF SlotsInv, TypeOK, State
  <2>2. SinceKey \in Int
    BY <2>1 DEF SinceKey
  <2>3. SinceKey % Ring < Ring
    BY <2>2 DEF SlotsAssumption
  <2>4. CASE IsVp9
    <3>1. m \in Int /\ m >= Ring
      BY <1>1, <2>4 DEF AnchorSlots, SlotsAssumption
    <3>2. SinceKey % Ring \in Int /\ Ring \in Int
      BY <2>2 DEF SlotsAssumption
    <3>3. QED
      BY <2>3, <2>4, <3>1, <3>2
  <2>5. CASE ~IsVp9
    BY <1>1, <2>5 DEF AnchorSlots
  <2>6. QED
    BY <2>4, <2>5
<1>4. QED
  BY <1>2, <1>3 DEF Refresh, AcknowledgedRefresh

\* Where keeping the notes short drops one, as many newer ones stay.
LEMMA NoteDropped ==
  ASSUME NEW S \in SUBSET Nat, NEW b \in Nat, \A k \in S : k <= b, NEW n \in Nat,
         NEW q \in S, q \notin NewestPts(S, n)
  PROVE  Cardinality({k \in NewestPts(S, n) : k > q}) >= n
<1> DEFINE above(k) == {j \in S : j > k}
           top == NewestPts(S, n)
           out == {k \in S : Cardinality(above(k)) >= n}
           kept == {k \in top : k > q}
<1>1. IsFiniteSet(S)
  BY FS_BoundedSetOfNaturals
<1>2. \A k \in S : /\ above(k) \in SUBSET S /\ IsFiniteSet(above(k))
                   /\ Cardinality(above(k)) \in Nat
  BY <1>1, FS_Subset, FS_CardinalityType
<1>3. top = {k \in S : Cardinality(above(k)) < n}
  BY DEF NewestPts
<1> HIDE DEF top
<1>4. q \in out
  BY <1>2, <1>3 DEF top
<1>5. PICK g \in out : \A k \in out : k <= g
  BY <1>4, GreatestNatural, out \in SUBSET Nat
<1>6. above(g) \in SUBSET kept
  <2> SUFFICES ASSUME NEW k \in above(g) PROVE k \in top /\ k > q
    OBVIOUS
  <2>1. k \in S /\ k > g /\ g >= q /\ k \in Nat /\ g \in Nat /\ q \in Nat
    BY <1>4, <1>5
  <2>2. k \notin out
    BY <1>5, <2>1
  <2>3. k \in top
    BY <1>2, <1>3, <2>1, <2>2
  <2>4. QED
    BY <2>1, <2>3
<1>7. IsFiniteSet(kept) /\ Cardinality(kept) \in Nat
  BY <1>1, <1>3, kept \in SUBSET S, FS_Subset, FS_CardinalityType
<1>8. Cardinality(above(g)) <= Cardinality(kept)
  BY <1>6, <1>7, FS_Subset
<1>9. Cardinality(above(g)) >= n /\ Cardinality(above(g)) \in Nat
  BY <1>2, <1>5
<1>10. QED
  BY <1>7, <1>8, <1>9 DEF top

\* A step that leaves the pinned anchor's frame in it, valid and common.
LEMMA StaysPinned ==
  ASSUME SlotsAssumption, SlotsInv, SlotsInv', Pinned # {},
         s'.slots[Max(Pinned)] # NoFrame, ~s'.slots[Max(Pinned)].lost,
         s'.slots[Max(Pinned)].pts = s.slots[Max(Pinned)].pts,
         s.slots[Max(Pinned)].pts = s'.keyPts \/ s.slots[Max(Pinned)].pts \in s'.common
  PROVE  PinnedStep
<1>1. PICK m \in AnchorSlots : m = Max(Pinned)
  BY PinnedIsHeld
<1>2. Valid(m)'
  BY <1>1 DEF Valid
<1>3. s'.slots[m].pts = s'.keyPts \/ s'.slots[m].pts \in s'.common
  BY <1>1
<1>4. Pinned' # {} /\ \E j \in Slots : j \in Pinned' /\ s'.slots[j].pts >= s'.slots[m].pts
  BY <1>2, <1>3, CommonIsPinned
<1>5. QED
  BY <1>1, <1>4 DEF PinnedStep

LEMMA EncodeKeepsPinned ==
  ASSUME SlotsAssumption, SlotsInv, SlotsInv', Noted, NEW key \in BOOLEAN,
         NEW sent \in BOOLEAN, Coding(key, sent)
  PROVE  PinnedStep /\ Noted'
<1> DEFINE m == Max(Pinned)
<1>1. s \in State /\ count \in Nat /\ s' = Recorded(s, key)
  BY DEF Coding, SlotsInv, TypeOK
<1>2. /\ s'.nextPts = s.nextPts + 1
      /\ s'.keyPts = IF key THEN s.nextPts ELSE s.keyPts
  BY <1>1, RecordedFields
<1>3. s'.common = IF key THEN {} ELSE s.common
  BY <1>1 DEF Recorded, SlotsInv, TypeOK, State
<1>4. s.nextPts \in Nat /\ s.keyPts \in Nat
  BY DEF SlotsInv, TypeOK, State
<1>5. Noted'
  <2>1. Log \subseteq Log'
    BY <1>2, <1>4 DEF Log
  <2>2. QED
    BY <1>3, <2>1 DEF Noted
<1>6. ASSUME s.acknowledged, Pinned # {} PROVE PinnedStep
  <2>1. m \in AnchorSlots /\ m \in Slots /\ Valid(m) /\ IsCommon(s.slots[m].pts)
    BY <1>6, PinnedIsHeld
  <2>2. CASE key
    <3>1. s.slots[m].pts \in s.keyPts .. s.nextPts - 1
      BY <2>1, Held DEF Valid
    <3>2. s'.keyPts > s.keyPts
      BY <1>2, <1>4, <2>2, <3>1
    <3>3. QED
      BY <3>2 DEF PinnedStep
  <2>3. CASE ~key
    <3>1. m \notin Refresh
      BY <1>6, PinnedIsNotRefreshed
    <3>2. s'.slots[m] = s.slots[m]
      BY <1>1, <2>1, <2>3, <3>1 DEF Recorded, SlotsInv, TypeOK, State
    <3>3. s.slots[m].pts = s'.keyPts \/ s.slots[m].pts \in s'.common
      BY <1>2, <1>3, <2>1, <2>3 DEF IsCommon
    <3>4. QED
      BY <1>6, <2>1, <3>2, <3>3, StaysPinned DEF Valid
  <2>4. QED
    BY <2>2, <2>3
<1>7. QED
  BY <1>5, <1>6 DEF PinnedStep

LEMMA ReportKeepsPinned ==
  ASSUME SlotsAssumption, SlotsInv, SlotsInv', Noted, RecentIdsDiffer, ReportLost
  PROVE  PinnedStep /\ Noted'
<1>1. PICK p \in Reportable : /\ s' = Invalidated(Id(coded[p].count))
                              /\ lost' = lost \cup {p}
  BY DEF ReportLost
<1> DEFINE id == Id(coded[p].count)
           m == Max(Pinned)
<1>2. /\ s'.recent = s.recent /\ s'.nextPts = s.nextPts
      /\ s'.keyPts = s.keyPts /\ s'.common = s.common
  <2>1. s' = [s EXCEPT !.slots = s'.slots]
    BY <1>1, InvalidatedType
  <2>2. QED
    BY <2>1 DEF SlotsInv, TypeOK, State
<1>3. Noted'
  BY <1>2 DEF Noted, Log
<1>4. ASSUME Pinned # {} PROVE PinnedStep
  <2>1. m \in AnchorSlots /\ m \in Slots /\ Valid(m) /\ IsCommon(s.slots[m].pts)
    BY <1>4, PinnedIsHeld
  <2>2. s.slots[m].pts \in Nat
    BY <2>1, Held DEF Valid, Log
  <2>3. s.slots[m].pts = s'.keyPts \/ s.slots[m].pts \in s'.common
    BY <1>2, <2>1 DEF IsCommon
  <2>4. CASE Cut(id) = {}
    <3>1. s' = s
      BY <1>1, <2>4 DEF Invalidated
    <3>2. QED
      BY <1>4, <2>1, <2>3, <3>1, StaysPinned DEF Valid
  <2>5. ASSUME NEW cut \in Nat, Cut(id) = {cut}, cut > s.slots[m].pts PROVE PinnedStep
    <3>1. s'.slots = MarkFrom(cut)
      BY <1>1, <2>5 DEF Invalidated, SlotsInv, TypeOK, State
    <3>2. /\ s'.slots[m] # NoFrame /\ ~s'.slots[m].lost
          /\ s'.slots[m].pts = s.slots[m].pts
      BY <2>1, <2>2, <2>5, <3>1, Marked DEF Valid
    <3>3. QED
      BY <1>4, <2>3, <3>2, StaysPinned
  <2>6. ASSUME NEW cut \in Nat, Cut(id) = {cut}, cut <= s.slots[m].pts PROVE PinnedStep
    <3>1. CASE Named(id) # {}
      <4>1. /\ First(Named(id)) \in Named(id) /\ p \in Log
            /\ First(Named(id)).pts = p \/ (First(Named(id)).pts < p /\ CodedTwice(p))
        BY <3>1, FirstNamed, NamedIsReported, Named(id) \in SUBSET s.recent DEF Named
      <4>2. cut = First(Named(id)).pts /\ cut >= s.keyPts
        BY <2>6, <3>1 DEF Cut
      <4>3. CodedTwice(p) => p <= s.keyPts
        BY <4>1 DEF SlotsInv, Dating
      <4>4. s.keyPts \in Nat /\ p \in Nat
        BY <4>1 DEF SlotsInv, TypeOK, State, Log
      <4>5. cut = p
        BY <4>1, <4>2, <4>3, <4>4
      <4>6. QED
        BY <1>1, <2>6, <4>5 DEF PinnedStep
    <3>2. CASE Named(id) = {}
      <4>1. \A r \in s.recent : r.pts # p
        BY <3>2, NamedIsReported
      <4>2. QED
        BY <1>1, <4>1 DEF PinnedStep
    <3>3. QED
      BY <3>1, <3>2
  <2>7. QED
    BY <2>2, <2>4, <2>5, <2>6, CutType
<1>5. QED
  BY <1>3, <1>4 DEF PinnedStep

LEMMA HeldKeepsPinned ==
  ASSUME SlotsAssumption, SlotsInv, SlotsInv', Noted, ReportHeld
  PROVE  PinnedStep /\ Noted'
<1>1. PICK x \in Reportable, held \in BOOLEAN : s' = Acknowledged(Id(coded[x].count), held)
  BY DEF ReportHeld
<1> DEFINE id == Id(coded[x].count)
           p == Last(Named(id)).pts
           S == s.common \cup {p}
           m == Max(Pinned)
<1>2. /\ s'.slots = s.slots /\ s'.nextPts = s.nextPts /\ s'.keyPts = s.keyPts
      /\ \/ s'.common = s.common
         \/ Named(id) # {} /\ s'.common = NewestPts(S, RecentFrames)
  <2>1. s'.slots = s.slots /\ s'.nextPts = s.nextPts /\ s'.keyPts = s.keyPts
    BY <1>1, AcknowledgedType
  <2>2. s \in State
    BY DEF SlotsInv, TypeOK
  <2>3. \/ s'.common = s.common
        \/ Named(id) # {} /\ s'.common = NewestPts(S, RecentFrames)
    BY <1>1, <2>2 DEF Acknowledged, State
  <2>4. QED
    BY <2>1, <2>3
<1>3. Named(id) # {} => p \in Log
  BY LastNamed, Named(id) \in SUBSET s.recent DEF Named
<1>4. Noted'
  <2>1. Log' = Log
    BY <1>2 DEF Log
  <2>2. NewestPts(S, RecentFrames) \subseteq S
    BY DEF NewestPts
  <2>3. QED
    BY <1>2, <1>3, <2>1, <2>2 DEF Noted
<1>5. ASSUME Pinned # {} PROVE PinnedStep
  <2>1. m \in AnchorSlots /\ m \in Slots /\ Valid(m) /\ IsCommon(s.slots[m].pts)
    BY <1>5, PinnedIsHeld
  <2>2. CASE s.slots[m].pts = s'.keyPts \/ s.slots[m].pts \in s'.common
    BY <1>2, <1>5, <2>1, <2>2, StaysPinned DEF Valid
  <2>3. CASE ~(s.slots[m].pts = s'.keyPts \/ s.slots[m].pts \in s'.common)
    <3>1. s.slots[m].pts \in s.common /\ Named(id) # {}
          /\ s'.common = NewestPts(S, RecentFrames)
      BY <1>2, <2>1, <2>3 DEF IsCommon
    <3>2. s.nextPts \in Nat /\ Log \in SUBSET Nat /\ \A k \in Log : k <= s.nextPts
      BY DEF SlotsInv, TypeOK, State, Log
    <3>3. S \in SUBSET Nat /\ \A k \in S : k <= s.nextPts
      BY <1>3, <3>1, <3>2 DEF Noted
    <3> HIDE DEF m, p
    <3>4. Cardinality({k \in NewestPts(S, RecentFrames) : k > s.slots[m].pts}) >= RecentFrames
      BY <2>3, <3>1, <3>2, <3>3, NoteDropped DEF SlotsAssumption
    <3>5. QED
      BY <3>1, <3>4 DEF PinnedStep, m
  <2>4. QED
    BY <2>2, <2>3
<1>6. QED
  BY <1>4, <1>5 DEF PinnedStep

\* What a step keeps of the anchor every consumer holds.
LEMMA NextKeepsPinned ==
  ASSUME SlotsAssumption, SlotsInv, SlotsInv', Noted, RecentIdsDiffer, [Next]_vars
  PROVE  PinnedStep /\ Noted'
<1>1. ASSUME NEW own \in BOOLEAN, Encode(own) PROVE PinnedStep /\ Noted'
  <2>1. (own \/ Key) \in BOOLEAN /\ Coding(own \/ Key, TRUE)
    <3>1. Key \in BOOLEAN
      BY DEF Key, HasReference, SlotsInv, TypeOK
    <3>2. QED
      BY <1>1, <3>1, Zenon DEF Encode
  <2>2. QED
    BY <2>1, EncodeKeepsPinned
<1>2. CASE EncodeFrame \/ EncodeOwnKey
  BY <1>1, <1>2 DEF EncodeFrame, EncodeOwnKey
<1>3. CASE EncodeKeyAgain
  <2>1. s'.keyPts > s.keyPts
    BY <1>3, EncodeKeyAgainSlotsInv
  <2>2. s'.common = {}
    <3> DEFINE u == Recorded(s, TRUE)
    <3>1. s \in State /\ count \in Nat /\ s' = Recorded(u, TRUE)
      BY <1>3 DEF EncodeKeyAgain, SlotsInv, TypeOK
    <3>2. u \in State
      BY <3>1, RecordedFields
    <3> HIDE DEF u
    <3>3. QED
      BY <3>1, <3>2, RecordedFields
  <2>3. QED
    BY <2>1, <2>2 DEF PinnedStep, Noted
<1>4. CASE EncodeKeyAgainFails
  BY <1>4, EncodeKeepsPinned DEF EncodeKeyAgainFails
<1>5. CASE ReportLost
  BY <1>5, ReportKeepsPinned
<1>6. CASE ReportHeld
  BY <1>6, HeldKeepsPinned
<1>7. CASE SkipFrame \/ RequestIdr \/ UNCHANGED vars
  <2>1. s' = s
    BY <1>7 DEF SkipFrame, RequestIdr, vars
  <2>2. Noted'
    BY <2>1 DEF Noted, Log
  <2>3. Pinned # {} => Valid(Max(Pinned)) /\ IsCommon(s.slots[Max(Pinned)].pts)
    BY PinnedIsHeld
  <2>4. Pinned # {} => PinnedStep
    BY <2>1, <2>3, StaysPinned DEF Valid, IsCommon
  <2>5. QED
    BY <2>2, <2>4 DEF PinnedStep
<1>8. QED
  BY <1>2, <1>5, <1>6, <1>7, <1>3, <1>4 DEF Next

LEMMA InitNoted ==
  ASSUME Init
  PROVE  Noted
BY DEF Init, Noted

\* The newest frame every consumer holds stays in an anchor until a newer one
\* is in another, a key frame, a loss that reaches back to it, or as many newer
\* ones noted as the session notes.
THEOREM AnchorStaysPinned ==
  ASSUME SlotsAssumption
  PROVE  Spec /\ []RecentIdsDiffer => [][PinnedStep]_vars
<1>1. Init => SlotsInv /\ Noted
  BY InitSlotsInv, InitNoted
<1>2. SlotsInv /\ Noted /\ RecentIdsDiffer /\ [Next]_vars
        => (SlotsInv /\ Noted)' /\ PinnedStep
  BY NextSlotsInv, NextKeepsPinned
<1>3. QED
  BY <1>1, <1>2, PTL DEF Spec

-----------------------------------------------------------------------------
(* As long as no more frames are captured than there are ids, they differ. *)

FewCaptured ==
    /\ s.nextPts <= MaxFrames /\ events <= MaxEvents
    /\ FirstCount <= count /\ count <= FirstCount + s.nextPts + events
    /\ \A p \in Log : coded[p].count >= FirstCount

LEMMA CountsDiffer ==
  ASSUME SlotsAssumption, NEW a \in Nat, NEW b \in Nat, b <= a, a - b < IdMod, Id(a) = Id(b)
  PROVE  a = b
<1>1. PICK p \in Int : a = IdMod * p + (a % IdMod)
  BY Quotient
<1>2. PICK q \in Int : b = IdMod * q + (b % IdMod)
  BY Quotient
<1>3. a % IdMod = b % IdMod /\ a % IdMod \in Int /\ IdMod \in Nat
  BY IdType DEF Id, Ids, SlotsAssumption
<1> DEFINE x == a % IdMod
<1>4. x \in Int /\ a = IdMod * p + x /\ b = IdMod * q + x
  BY <1>1, <1>2, <1>3, Zenon
<1> HIDE DEF x
<1>5. a - b = IdMod * (p - q) + 0
  BY <1>3, <1>4
<1>6. p - q \in Int /\ 0 \in Ids /\ a - b \in Ids
  BY <1>3 DEF Ids, SlotsAssumption
<1>7. (a - b) % IdMod = 0
  BY <1>5, <1>6, ModOfSum
<1>8. IdMod * 0 + (a - b) = a - b
  BY <1>3
<1>9. (a - b) % IdMod = a - b
  BY <1>6, <1>8, ModOfSum
<1>10. QED
  BY <1>7, <1>9

LEMMA FewIdsDiffer ==
  ASSUME SlotsAssumption, SlotsInv, FewCaptured,
         MaxFrames \in Nat, MaxEvents \in Nat, MaxFrames + MaxEvents <= IdMod
  PROVE  RecentIdsDiffer
<1>1. /\ s \in State /\ count \in Nat /\ events \in Nat /\ FirstCount \in Nat /\ IdMod \in Nat
      /\ s.nextPts \in Nat /\ \A p \in Log : coded[p].count \in Nat
  BY DEF SlotsInv, TypeOK, State, Log, SlotsAssumption, Coded
<1>2. \A p \in Log : coded[p].count >= FirstCount /\ coded[p].count < FirstCount + IdMod
  BY <1>1 DEF FewCaptured, SlotsInv, Dating
<1>3. ASSUME NEW r \in s.recent, NEW q \in s.recent, r.id = q.id
      PROVE  coded[r.pts].count = coded[q.pts].count
  <2>1. /\ r.pts \in Log /\ q.pts \in Log
        /\ Id(coded[r.pts].count) = Id(coded[q.pts].count)
    BY <1>3 DEF SlotsInv, Remembered
  <2>2. coded[r.pts].count = coded[q.pts].count
    <3>1. CASE coded[q.pts].count <= coded[r.pts].count
      BY <1>1, <1>2, <2>1, <3>1, CountsDiffer
    <3>2. CASE coded[r.pts].count <= coded[q.pts].count
      BY <1>1, <1>2, <2>1, <3>2, CountsDiffer
    <3>3. QED
      BY <1>1, <2>1, <3>1, <3>2
  <2>3. QED
    BY <2>2
<1>4. QED
  BY <1>3 DEF RecentIdsDiffer

LEMMA InitFew ==
  ASSUME SlotsAssumption, Init, MaxFrames \in Nat, MaxEvents \in Nat
  PROVE  FewCaptured
BY DEF Init, FewCaptured, Log, SlotsAssumption

LEMMA NextFew ==
  ASSUME SlotsAssumption, SlotsInv, FewCaptured, [Next]_vars,
         MaxFrames \in Nat, MaxEvents \in Nat
  PROVE  FewCaptured'
<1>1. /\ s \in State /\ s.nextPts \in Nat /\ count \in Nat /\ events \in Nat
      /\ FirstCount \in Nat
  BY DEF SlotsInv, TypeOK, State, SlotsAssumption
<1>2. ASSUME s'.nextPts \in Nat, s.nextPts < s'.nextPts, s'.nextPts <= MaxFrames,
             count' = count + 1,
             \A p \in 0 .. s'.nextPts - 1 :
                coded'[p].count \in {count} \cup {coded[k].count : k \in Log},
             events' \in {events, events + 1}, events' <= MaxEvents
      PROVE  FewCaptured'
  <2>1. \A p \in 0 .. s'.nextPts - 1 : coded'[p].count >= FirstCount
    BY <1>2 DEF FewCaptured
  <2>2. FirstCount <= count' /\ count' <= FirstCount + s'.nextPts + events'
    BY <1>1, <1>2 DEF FewCaptured
  <2>3. QED
    BY <1>2, <2>1, <2>2 DEF FewCaptured, Log
<1>3. Event => events' \in {events, events + 1} /\ events' <= MaxEvents
  BY <1>1 DEF Event
<1>4. ASSUME NEW key \in BOOLEAN, NEW sent \in BOOLEAN, Coding(key, sent),
              events' \in {events, events + 1}, events' <= MaxEvents
       PROVE  FewCaptured'
  <2>1. s' = Recorded(s, key)
    BY <1>4 DEF Coding
  <2>2. s'.nextPts = s.nextPts + 1
    BY <1>1, <2>1 DEF Recorded, State
  <2>3. /\ s.nextPts < MaxFrames /\ count' = count + 1
        /\ coded' = [p \in 0 .. s.nextPts |->
                        IF p = s.nextPts
                        THEN [count |-> count, chain |-> Chain(key), sent |-> sent]
                        ELSE coded[p]]
    BY <1>4 DEF Coding
  <2>4. \A p \in 0 .. s.nextPts : coded'[p].count \in {count} \cup {coded[k].count : k \in Log}
    BY <1>1, <2>3 DEF Log
  <2>5. s'.nextPts \in Nat /\ s.nextPts < s'.nextPts /\ s'.nextPts <= MaxFrames
        /\ s'.nextPts - 1 = s.nextPts
    BY <1>1, <2>2, <2>3
  <2>6. QED
    BY <1>2, <1>4, <2>3, <2>4, <2>5
<1>5. CASE EncodeFrame \/ EncodeOwnKey
  <2>1. PICK own \in BOOLEAN : Encode(own)
    BY <1>5, Zenon DEF EncodeFrame, EncodeOwnKey
  <2>2. events' \in {events, events + 1} /\ events' <= MaxEvents
    <3>1. events' = events \/ Event
      BY <1>5, Zenon DEF EncodeFrame, EncodeOwnKey
    <3>2. QED
      BY <1>1, <1>3, <3>1 DEF FewCaptured
  <2>3. (own \/ Key) \in BOOLEAN /\ Coding(own \/ Key, TRUE)
    <3>1. Key \in BOOLEAN
      BY DEF Key, HasReference, SlotsInv, TypeOK
    <3>2. QED
      BY <2>1, <3>1, Zenon DEF Encode
  <2>4. QED
    BY <1>4, <2>2, <2>3
<1>6. CASE EncodeKeyAgainFails
  BY <1>3, <1>4, <1>6 DEF EncodeKeyAgainFails
<1>7. CASE EncodeKeyAgain
  <2> DEFINE u == Recorded(s, TRUE)
  <2>1. /\ s.nextPts + 1 < MaxFrames /\ count' = count + 1 /\ s' = Recorded(u, TRUE)
        /\ coded' = [p \in 0 .. s.nextPts + 1 |->
                        IF p \in DOMAIN coded THEN coded[p]
                        ELSE [count |-> count, chain |-> {p}, sent |-> p > s.nextPts]]
    BY <1>7 DEF EncodeKeyAgain
  <2>2. u \in State /\ u.nextPts = s.nextPts + 1
    BY <1>1, RecordedFields
  <2> HIDE DEF u
  <2>3. s'.nextPts = s.nextPts + 1 + 1
    BY <1>1, <2>1, <2>2, RecordedFields
  <2>4. DOMAIN coded = Log
    BY DEF SlotsInv, TypeOK, Log
  <2>5. \A p \in 0 .. s.nextPts + 1 :
            coded'[p].count \in {count} \cup {coded[k].count : k \in Log}
    BY <1>1, <2>1, <2>4
  <2>6. s'.nextPts \in Nat /\ s.nextPts < s'.nextPts /\ s'.nextPts <= MaxFrames
        /\ s'.nextPts - 1 = s.nextPts + 1
    <3> DEFINE n == s.nextPts
    <3>1. MaxFrames \in Nat /\ n \in Nat /\ n + 1 < MaxFrames /\ s'.nextPts = n + 1 + 1
      BY <1>1, <2>1, <2>3
    <3> HIDE DEF n
    <3>2. /\ s'.nextPts \in Nat /\ n < s'.nextPts /\ s'.nextPts <= MaxFrames
          /\ s'.nextPts - 1 = n + 1
      BY <3>1
    <3>3. QED
      BY <3>2 DEF n
  <2>7. QED
    BY <1>2, <1>3, <1>7, <2>1, <2>5, <2>6 DEF EncodeKeyAgain
<1>8. ASSUME s'.nextPts = s.nextPts, coded' = coded, events' \in {events, events + 1},
             events' <= MaxEvents,
             count' = count \/ (count' = count + 1 /\ events' = events + 1)
      PROVE  FewCaptured'
  BY <1>1, <1>8 DEF FewCaptured, Log
<1>9. CASE SkipFrame \/ RequestIdr \/ UNCHANGED vars
  BY <1>1, <1>8, <1>9 DEF SkipFrame, RequestIdr, Event, vars, FewCaptured
<1>10. CASE ReportLost
  <2>1. PICK p \in Reportable : s' = Invalidated(Id(coded[p].count))
    BY <1>10 DEF ReportLost
  <2>2. s'.nextPts = s.nextPts
    BY <1>1, <2>1 DEF Invalidated, State
  <2>3. QED
    BY <1>1, <1>8, <1>10, <2>2 DEF ReportLost, Event
<1>11. CASE ReportHeld
  <2>1. PICK p \in Reportable, held \in BOOLEAN : s' = Acknowledged(Id(coded[p].count), held)
    BY <1>11 DEF ReportHeld
  <2>2. s'.nextPts = s.nextPts
    BY <1>1, <2>1 DEF Acknowledged, State
  <2>3. QED
    BY <1>1, <1>8, <1>11, <2>2 DEF ReportHeld, Event
<1>12. QED
  BY <1>5, <1>9, <1>10, <1>11, <1>6, <1>7 DEF Next

\* So while no more frames are captured than there are ids, the hypothesis of
\* the two theorems above holds.
THEOREM IdsDifferWhileFew ==
  ASSUME SlotsAssumption, MaxFrames \in Nat, MaxEvents \in Nat,
         MaxFrames + MaxEvents <= IdMod
  PROVE  Spec => []RecentIdsDiffer
<1>1. Init => SlotsInv /\ FewCaptured
  BY InitSlotsInv, InitFew
<1>2. SlotsInv /\ FewCaptured /\ [Next]_vars => SlotsInv' /\ FewCaptured'
  BY FewIdsDiffer, NextSlotsInv, NextFew
<1>3. SlotsInv /\ FewCaptured => RecentIdsDiffer
  BY FewIdsDiffer
<1>4. QED
  BY <1>1, <1>2, <1>3, PTL DEF Spec

=============================================================================
