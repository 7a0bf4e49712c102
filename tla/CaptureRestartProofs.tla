---------------------------- MODULE CaptureRestartProofs ----------------------------
(***************************************************************************)
(* That restarts, demotions and stops of a Wayland capture, however many   *)
(* and however they overlap with the threads left behind, keep the frames  *)
(* in order for Python, deliver none whose host buffer had gone back, and  *)
(* leave no thread once the Barrier has answered.                          *)
(***************************************************************************)
EXTENDS CaptureRestart, TLAPS

Kinds == {"first", "demoted"}
First(c) == <<c, "first">>
Demoted(c) == <<c, "demoted">>
Launched(t) == at[t] # "none"
Idle == {"none", "ended"}

\* The encode thread of a capture that nobody waits for in it.
Last(c) == IF Launched(Demoted(c)) THEN Demoted(c) ELSE First(c)

-----------------------------------------------------------------------------
(* The types, without the bounds.                                          *)

AnyFrame == [of : Captures, n : Nat, host : Nat, torn : BOOLEAN]
Box == {<<>>} \cup {<<f>> : f \in AnyFrame}

CalloopTyped ==
    /\ MaxCaptures \in Nat
    /\ starts \in 0 .. MaxCaptures /\ capture \in 0 .. starts
    /\ stopping \in {"no", "restarting", "barrier"}
    /\ stopping = "restarting" => starts < MaxCaptures /\ capture = 0
    /\ prior \in Threads \cup {NoThread}
    /\ zero \in [Captures -> BOOLEAN] /\ since \in [Captures -> Nat]

ThreadsTyped ==
    /\ pred \in [Threads -> Threads \cup {NoThread}]
    /\ at \in [Threads -> {"none", "joining", "taking", "locking", "encoding", "sending",
                           "ended"}]
    /\ slot \in [Threads -> Box] /\ hand \in [Threads -> Box]
    /\ taken \in [Threads -> BOOLEAN]
    /\ \A t \in Threads : hand[t] # <<>> <=> at[t] \in {"locking", "encoding", "sending"}

DeliveryTyped ==
    /\ dpred \in [Captures -> Nat]
    /\ dat \in [Captures -> {"none", "joining", "receiving", "ended"}]
    /\ discard \in [Captures -> BOOLEAN]
    /\ channel \in [Captures -> Box] /\ calling \in [Captures -> Box]
    /\ python \in [Captures -> Box]
    /\ \A c \in Captures : calling[c] # <<>> => dat[c] = "receiving"

LeaseTyped ==
    /\ published \in Nat /\ recycled \in Nat /\ frames \in Nat
    /\ hosts \in Nat /\ retained \in Nat /\ retainedUse \in Nat
    /\ inflight \subseteq Nat \X Nat /\ back \subseteq Nat

Typed == CalloopTyped /\ ThreadsTyped /\ DeliveryTyped /\ LeaseTyped

\* What the calloop knows of the threads it launched.
Calloop ==
    /\ capture # 0 => capture = starts /\ stopping = "no"
    /\ stopping = "restarting" => starts # 0 /\ prior = Last(starts)
    /\ fenced => capture = 0 /\ stopping # "restarting"
    /\ starts # 0 => (demoted <=> Launched(Demoted(starts)))
    /\ \A c \in Captures :
        /\ c <= starts <=> Launched(First(c))
        /\ Launched(Demoted(c)) => c <= starts
        /\ c <= starts <=> dat[c] # "none"
        /\ c <= starts /\ c # capture => discard[c]

\* The captures from the one after c to d each have their first encode thread wait for
\* the one before.
Chained(c, d) == \A k \in Captures : c < k /\ k <= d => pred[First(k)] # NoThread

\* Whom an encode thread waits for, and that it does.
Joined ==
    /\ \A t \in Threads : at[t] = "joining" => pred[t] # NoThread
    /\ \A c \in Captures :
        /\ pred[First(c)] # NoThread => 1 < c /\ c <= starts /\ pred[First(c)] = Last(c - 1)
        /\ Launched(Demoted(c)) => pred[Demoted(c)] = First(c)

Quiet(c) == at[First(c)] \in Idle /\ at[Demoted(c)] \in Idle

PredecessorsEnded ==
    /\ \A c \in Captures :
        at[Demoted(c)] \notin {"none", "joining"} => at[First(c)] = "ended"
    /\ \A c, d \in Captures :
        c < d /\ Chained(c, d) /\ at[First(d)] \notin {"none", "joining"} => Quiet(c)

\* The Barrier comes to wait for it: it is reaped, or the calloop still holds it.
Anchored(d) ==
    \/ Last(d) \in encodeReaper
    \/ d = starts /\ (capture # 0 \/ stopping = "restarting")

\* Every encode thread that runs is one the Barrier waits for, or one waits for it.
EncodersKept ==
    \A c \in Captures :
        Quiet(c) \/ \E d \in Captures : c <= d /\ d <= starts /\ Chained(c, d) /\ Anchored(d)

Over(c) == dat[c] \in Idle

\* Of the captures that took each other's place, the delivery threads run one by one.
DeliveryInTurn ==
    /\ \A c \in Captures : c <= starts => since[c] \in 1 .. c
    /\ \A c \in Captures :
        dat[c] = "joining" => 1 < c /\ dpred[c] = c - 1 /\ since[c] = since[c - 1]
    /\ \A c, d \in Captures :
        c < d /\ d <= starts /\ since[c] = since[d] /\ dat[d] # "joining" => dat[c] = "ended"

DeliveryAnchored(d) ==
    \/ d \in deliverReaper
    \/ d = starts /\ (capture # 0 \/ stopping = "restarting")

DeliveriesKept ==
    \A c \in Captures :
        Over(c) \/ \E d \in Captures : /\ c <= d /\ d <= starts /\ since[d] = since[c]
                                       /\ DeliveryAnchored(d)

\* What the Barrier answers for.
QuietInv ==
    /\ Joined /\ PredecessorsEnded /\ EncodersKept
    /\ DeliveryInTurn /\ DeliveriesKept
    /\ fenced => \A c \in Captures : Quiet(c) /\ Over(c)

\* A frame is its capture's wherever it is, and Python has it under the captures that
\* took each other's place.
Placed ==
    /\ \A t \in Threads :
        /\ slot[t] # <<>> => Launched(t) /\ slot[t][1].of = t[1] /\ slot[t][1].n <= frames
        /\ hand[t] # <<>> => hand[t][1].of = t[1] /\ hand[t][1].n <= frames
    /\ \A c \in Captures :
        /\ channel[c] # <<>> => channel[c][1].of = c /\ channel[c][1].n <= frames
        /\ calling[c] # <<>> => calling[c][1].of = c /\ calling[c][1].n <= frames
        /\ python[c] # <<>> => /\ python[c][1].n <= frames /\ python[c][1].of <= starts
                               /\ since[python[c][1].of] = c
                               /\ dat[python[c][1].of] # "joining"
        /\ starts < c => channel[c] = <<>>

\* The frame of that number is there.
Has(box, n) == box # <<>> /\ box[1].n = n

Inside(c, n) ==
    \E t \in Threads : t[1] = c /\ at[t] # "ended" /\ (Has(slot[t], n) \/ Has(hand[t], n))

Carries(c, n) ==
    \/ \E t \in Threads : t[1] = c /\ (Has(slot[t], n) \/ Has(hand[t], n))
    \/ Has(channel[c], n) \/ Has(calling[c], n)
    \/ \E g \in Captures : Has(python[g], n) /\ python[g][1].of = c

\* The frames of a capture come before those of a later one, and the further
\* along the earlier.
CapturesOrdered ==
    \A c, d \in Captures : \A m, n \in Nat : c < d /\ Carries(c, m) /\ Carries(d, n) => m < n

ThreadsOrdered ==
    \A t, u \in Threads : \A m, n \in Nat :
        t[1] = u[1] /\ at[t] # "ended" /\ at[u] # "ended" /\ Has(slot[u], n) =>
            /\ Has(hand[t], m) => m < n
            /\ Has(slot[t], m) /\ t[2] = "first" /\ u[2] = "demoted" => m < n

OutOrdered ==
    \A c \in Captures : \A m, n \in Nat :
        /\ Has(channel[c], m) /\ Inside(c, n) => m < n
        /\ Has(calling[c], m) /\ (Inside(c, n) \/ Has(channel[c], n)) => m < n
        /\ (\E g \in Captures : Has(python[g], m) /\ python[g][1].of = c)
           /\ (Inside(c, n) \/ Has(channel[c], n) \/ Has(calling[c], n)) => m < n

Ordered == CapturesOrdered /\ ThreadsOrdered /\ OutOrdered

\* A host frame has one loan at most, and none once it is back.
Lending ==
    /\ retained <= hosts /\ retained \notin back
    /\ \A loan \in inflight : 0 < loan[2] /\ loan[2] < retained /\ loan[2] \notin back
    /\ \A loan, other \in inflight : loan[2] = other[2] => loan[1] = other[1]
    /\ \A host \in back : 0 < host /\ host <= hosts

\* The host's frame is kept until that many encodes are done.
Borrowed(host, use) ==
    \/ host = retained /\ use <= retainedUse
    \/ \E loan \in inflight : loan[2] = host /\ use <= loan[1]

Held(t) == at[t] \in {"locking", "encoding"}

\* A running zero-copy capture counts its encodes right: what it published and is not
\* yet recycled is in the slot and in the thread's hand, on loan for as long.
Counting == capture # 0 /\ zero[starts] /\ ~Launched(Demoted(starts))

CountsRight(t) ==
    /\ retainedUse <= published
    /\ published = recycled + (IF slot[t] = <<>> THEN 0 ELSE 1) + (IF Held(t) THEN 1 ELSE 0)
    /\ slot[t] # <<>> /\ slot[t][1].host # 0 => Borrowed(slot[t][1].host, published)
    /\ Held(t) /\ hand[t][1].host # 0 => Borrowed(hand[t][1].host, recycled + 1)

Counted ==
    /\ \A t \in Threads : taken[t] => t[1] < starts
    /\ Counting => \A t \in Threads : t = First(starts) => CountsRight(t)

Excused(c) == discard[c] \/ Launched(Demoted(c))

\* A frame read after its buffer went back goes no further than the thread of a
\* capture torn down, whose delivery discards it, unless the capture was demoted.
Untorn ==
    /\ \A c \in Captures :
        ~zero[c] => /\ slot[First(c)] # <<>> => slot[First(c)][1].host = 0
                    /\ hand[First(c)] # <<>> => hand[First(c)][1].host = 0
    /\ \A t \in Threads : at[t] = "sending" /\ hand[t][1].torn => Excused(t[1])
    /\ \A c \in Captures :
        /\ channel[c] # <<>> /\ channel[c][1].torn => Excused(c)
        /\ calling[c] # <<>> /\ calling[c][1].torn => Launched(Demoted(c))
        /\ python[c] # <<>> /\ python[c][1].torn => Launched(Demoted(python[c][1].of))

LentInv == Lending /\ Counted /\ Untorn

USE DEF Kinds

LEMMA ThreadsArePairs ==
    /\ \A t \in Threads : t[1] \in Captures /\ t[2] \in Kinds /\ t = <<t[1], t[2]>>
    /\ \A c \in Captures : /\ First(c) \in Threads /\ First(c)[1] = c /\ First(c)[2] = "first"
                           /\ Demoted(c) \in Threads /\ Demoted(c)[1] = c
                           /\ Demoted(c)[2] = "demoted" /\ Demoted(c) # First(c)
    /\ \A t \in Threads : t = First(t[1]) \/ t = Demoted(t[1])
    /\ NoThread \notin Threads
  BY DEF Threads, First, Demoted, NoThread

LEMMA Boxes ==
    /\ <<>> \in Box
    /\ \A f \in AnyFrame : <<f>> \in Box /\ <<f>> # <<>> /\ <<f>>[1] = f
    /\ \A b \in Box : b # <<>> => b[1] \in AnyFrame /\ b = <<b[1]>> /\ Head(b) = b[1]
  BY DEF Box

LEMMA ReadFrame ==
    ASSUME NEW f \in AnyFrame
    PROVE  /\ Read(f) \in AnyFrame /\ Read(f).of = f.of /\ Read(f).n = f.n
           /\ Read(f).torn => f.host \in back
           /\ Read(f).host = 0
<1>1. \A b \in BOOLEAN :
          LET g == [f EXCEPT !.torn = b, !.host = 0] IN
          g \in AnyFrame /\ g.of = f.of /\ g.n = f.n /\ g.torn = b /\ g.host = 0
  BY DEF AnyFrame
<1>2. (f.host \in back) \in BOOLEAN
  OBVIOUS
<1> DEFINE g == [f EXCEPT !.torn = f.host \in back, !.host = 0]
<1>3. g \in AnyFrame /\ g.of = f.of /\ g.n = f.n /\ g.torn = (f.host \in back) /\ g.host = 0
  BY <1>1, <1>2, Zenon
<1>4. g.torn => f.host \in back
  BY <1>3, Zenon
<1> QED
  BY <1>3, <1>4 DEF Read

LEMMA ReleaseTyped ==
    ASSUME NEW lent, NEW done, lent \subseteq Nat \X Nat, back \subseteq Nat, Release(lent, done)
    PROVE  /\ inflight' \subseteq lent /\ inflight' \subseteq Nat \X Nat /\ back' \subseteq Nat
           /\ \A loan \in lent \ inflight' : loan[1] <= done
           /\ back' = back \cup {loan[2] : loan \in lent \ inflight'}
  BY DEF Release

LEMMA InitTyped == ASSUME RestartAssumption, Init PROVE Typed
  BY Boxes DEF RestartAssumption, Init, Typed, CalloopTyped, ThreadsTyped, DeliveryTyped,
     LeaseTyped

LEMMA CalloopTypedKept == ASSUME Typed, Next PROVE CalloopTyped'
<1> USE DEF Typed, CalloopTyped
<1>1. CASE Stop
  BY <1>1 DEF Stop, Teardown, Running
<1>2. CASE BeginRestart
  <2>1. Encoder \in Threads
    BY <1>2 DEF BeginRestart, Running, Encoder, Threads, Captures
  <2> QED
    BY <1>2, <2>1 DEF BeginRestart, Teardown, Running
<1>3. CASE Start \/ FinishRestart
  <2>1. PICK old \in Threads \cup {NoThread}, readback \in BOOLEAN : Launch(old, readback)
    BY <1>3 DEF Start, FinishRestart
  <2>2. starts < MaxCaptures
    BY <1>3 DEF Start, FinishRestart
  <2> QED
    BY <1>3, <2>1, <2>2 DEF Launch, Captures, Threads, Start, FinishRestart
<1>4. CASE Publish \/ Retain \/ Tick \/ Demote \/ Barrier \/ Answer
  BY <1>4 DEF Publish, Retain, Tick, Demote, Barrier, Answer, calloop
<1>5. CASE ThreadStep
  BY <1>5
     DEF ThreadStep, EncodeStep, DeliverStep, Join, Take, Lock, Encode, Send, JoinDelivery,
         Receive, Call, Hangup, calloop
<1> QED
  BY <1>1, <1>2, <1>3, <1>4, <1>5 DEF Next

LEMMA LaunchingTyped ==
    ASSUME Typed, Calloop, NEW old \in Threads \cup {NoThread}, NEW readback \in BOOLEAN,
           Launch(old, readback), starts < MaxCaptures
    PROVE  /\ at[First(starts + 1)] = "none" /\ dat[starts + 1] = "none"
           /\ pred' \in [Threads -> Threads \cup {NoThread}]
           /\ \A t \in Threads : t # First(starts + 1) => at'[t] = at[t]
           /\ at' \in [Threads -> {"none", "joining", "taking", "locking", "encoding", "sending",
                                   "ended"}]
           /\ at'[First(starts + 1)] \in {"joining", "taking"}
           /\ dpred' \in [Captures -> Nat]
           /\ dat' \in [Captures -> {"none", "joining", "receiving", "ended"}]
           /\ starts + 1 \in Captures
<1>1. starts + 1 \in Captures /\ First(starts + 1) \in Threads
  BY DEF Typed, CalloopTyped, Captures, Threads, First
<1>2. old # NoThread => old[1] \in Nat
  BY DEF Threads, Captures, NoThread, Typed, CalloopTyped
<1>3. at[First(starts + 1)] = "none" /\ dat[starts + 1] = "none"
  BY <1>1 DEF Calloop, Launched, Typed, CalloopTyped
<1> QED
  BY <1>1, <1>2, <1>3 DEF Launch, Joins, Typed, ThreadsTyped, DeliveryTyped, First

LEMMA ThreadsTypedKept == ASSUME Typed, Calloop, Next PROVE ThreadsTyped'
<1> USE DEF Typed, ThreadsTyped
<1>1. CASE Start \/ FinishRestart
  <2>1. PICK old \in Threads \cup {NoThread}, readback \in BOOLEAN : Launch(old, readback)
    BY <1>1 DEF Start, FinishRestart, CalloopTyped
  <2>2. starts < MaxCaptures /\ UNCHANGED <<slot, hand>>
    BY <1>1 DEF Start, FinishRestart, CalloopTyped, pool
  <2>4. taken' \in [Threads -> BOOLEAN]
    BY <1>1 DEF Start, FinishRestart
  <2>5. First(starts + 1) \in Threads /\ at[First(starts + 1)] = "none"
    BY <2>1, <2>2, LaunchingTyped, ThreadsArePairs
  <2>6. \A t \in Threads : hand[t] # <<>> => at[t] # "none"
    OBVIOUS
  <2>3. hand[First(starts + 1)] = <<>>
    BY <2>5, <2>6
  <2> QED
    BY <2>1, <2>2, <2>3, <2>4, LaunchingTyped
<1>2. CASE Publish
  <2>1. Encoder \in Threads
    BY <1>2 DEF Publish, Running, Encoder, Threads, Captures, CalloopTyped
  <2>2. PICK f : f = [of |-> capture, n |-> frames + 1,
                      host |-> IF ZeroCopy THEN retained ELSE 0, torn |-> FALSE]
    OBVIOUS
  <2>3. f \in AnyFrame
    BY <1>2, <2>2 DEF Publish, Running, AnyFrame, Captures, CalloopTyped, LeaseTyped
  <2>4. slot' = [slot EXCEPT ![Encoder] = <<f>>] /\ UNCHANGED <<pred, at, hand, taken>>
    BY <1>2, <2>2 DEF Publish, thread
  <2> QED
    BY <2>1, <2>3, <2>4, Boxes
<1>3. CASE Demote
  <2>1. Demoted(capture) \in Threads /\ Encoder \in Threads
    BY <1>3 DEF Demote, Running, Encoder, Threads, Captures, CalloopTyped, Demoted
  <2>2. at[Demoted(capture)] = "none"
    BY <1>3 DEF Demote, Running, ZeroCopy, Calloop, Launched, CalloopTyped
  <2> QED
    BY <1>3, <2>1, <2>2 DEF Demote, Demoted, Joins, thread
<1>4. ASSUME NEW t \in Threads, Join(t) PROVE ThreadsTyped'
  BY <1>4 DEF Join, To, pool
<1>5. ASSUME NEW t \in Threads, Take(t) PROVE ThreadsTyped'
  BY <1>5, Boxes DEF Take, To
<1>6. ASSUME NEW t \in Threads, Lock(t) PROVE ThreadsTyped'
  BY <1>6, Boxes DEF Lock, To, pool
<1>7. ASSUME NEW t \in Threads, Encode(t) PROVE ThreadsTyped'
  <2>1. hand[t][1] \in AnyFrame /\ Head(hand[t]) = hand[t][1]
    BY <1>7, Boxes DEF Encode
  <2>2. hand' = [hand EXCEPT ![t] = <<Read(hand[t][1])>>]
    BY <1>7, <2>1 DEF Encode
  <2>3. <<Read(hand[t][1])>> \in Box /\ <<Read(hand[t][1])>> # <<>>
    BY <2>1, ReadFrame, Boxes
  <2> QED
    BY <1>7, <2>2, <2>3 DEF Encode, To, pool
<1>8. ASSUME NEW t \in Threads, Send(t) PROVE ThreadsTyped'
  BY <1>8, Boxes DEF Send, To, pool
<1>9. CASE Stop \/ BeginRestart \/ Retain \/ Tick \/ Barrier \/ Answer
  BY <1>9 DEF Stop, BeginRestart, Retain, Tick, Barrier, Answer, thread, pool
<1>10. CASE \E c \in Captures : DeliverStep(c)
  BY <1>10 DEF DeliverStep, JoinDelivery, Receive, Call, Hangup, thread, pool
<1> QED
  BY <1>1, <1>2, <1>3, <1>4, <1>5, <1>6, <1>7, <1>8, <1>9, <1>10
     DEF Next, ThreadStep, EncodeStep

LEMMA DeliveryTypedKept == ASSUME Typed, Calloop, Next PROVE DeliveryTyped'
<1> USE DEF Typed, DeliveryTyped
<1>1. CASE Start \/ FinishRestart
  <2>1. PICK old \in Threads \cup {NoThread}, readback \in BOOLEAN : Launch(old, readback)
    BY <1>1 DEF Start, FinishRestart, CalloopTyped
  <2>2. starts < MaxCaptures /\ UNCHANGED <<discard, channel, calling, python>>
    BY <1>1 DEF Start, FinishRestart, CalloopTyped
  <2>3. \A c \in Captures : c # starts + 1 => dat'[c] = dat[c]
    BY <2>1 DEF Launch
  <2> QED
    BY <2>1, <2>2, <2>3, LaunchingTyped
<1>2. CASE Stop \/ BeginRestart
  BY <1>2 DEF Stop, BeginRestart, Teardown
<1>3. ASSUME NEW t \in Threads, Send(t) PROVE DeliveryTyped'
  <2>1. t[1] \in Captures /\ hand[t] \in Box
    BY ThreadsArePairs DEF ThreadsTyped
  <2> QED
    BY <1>3, <2>1 DEF Send
<1>4. ASSUME NEW t \in Threads, Join(t) \/ Take(t) \/ Lock(t) \/ Encode(t) PROVE DeliveryTyped'
  BY <1>4 DEF Join, Take, Lock, Encode, delivery
<1>5. ASSUME NEW c \in Captures, DeliverStep(c) PROVE DeliveryTyped'
  <2>1. CASE JoinDelivery(c) \/ Hangup(c)
    BY <2>1 DEF JoinDelivery, Hangup
  <2>2. CASE Receive(c)
    BY <2>2, Boxes DEF Receive
  <2>3. CASE Call(c)
    BY <2>3, Boxes DEF Call
  <2> QED
    BY <1>5, <2>1, <2>2, <2>3 DEF DeliverStep
<1>6. CASE Publish \/ Retain \/ Tick \/ Demote \/ Barrier \/ Answer
  BY <1>6 DEF Publish, Retain, Tick, Demote, Barrier, Answer, delivery
<1> QED
  BY <1>1, <1>2, <1>3, <1>4, <1>5, <1>6 DEF Next, ThreadStep, EncodeStep

LEMMA LeaseTypedKept == ASSUME Typed, Next PROVE LeaseTyped'
<1> USE DEF Typed, LeaseTyped
<1>1. CASE Start
  BY <1>1 DEF Start, Launch
<1>2. CASE Stop \/ FinishRestart \/ Tick \/ Demote
  <2>1. PICK done : Release(inflight, done)
    BY <1>2 DEF Stop, FinishRestart, Tick, Demote, ReleaseAll
  <2>2. /\ UNCHANGED <<frames, hosts, retained>>
        /\ \/ UNCHANGED <<published, recycled, retainedUse>>
           \/ published' = 0 /\ recycled' = 0 /\ retainedUse' = 0
    BY <1>2 DEF Stop, FinishRestart, Launch, Tick, Demote
  <2> QED
    BY <2>1, <2>2, ReleaseTyped
<1>3. CASE Retain
  <2> DEFINE lent == inflight \cup (IF retained = 0 THEN {} ELSE {<<Lent, retained>>})
  <2>1. lent \subseteq Nat \X Nat
    BY DEF Lent
  <2>2. Release(lent, recycled) /\ UNCHANGED <<published, recycled, frames>>
        /\ hosts' = hosts + 1 /\ retained' = hosts + 1 /\ retainedUse' = 0
    BY <1>3 DEF Retain
  <2> QED
    BY <2>1, <2>2, ReleaseTyped
<1>4. CASE Publish
  BY <1>4 DEF Publish
<1>5. CASE BeginRestart \/ Barrier \/ Answer
  BY <1>5 DEF BeginRestart, Barrier, Answer, lease
<1>6. CASE ThreadStep
  <2>1. UNCHANGED lease /\ recycled' \in {recycled, recycled + 1}
    BY <1>6 DEF ThreadStep, EncodeStep, DeliverStep, Join, Take, Lock, Encode, Send,
                JoinDelivery, Receive, Call, Hangup, lease
  <2> QED
    BY <2>1 DEF lease
<1> QED
  BY <1>1, <1>2, <1>3, <1>4, <1>5, <1>6 DEF Next

LEMMA CalloopKept == ASSUME Typed, Calloop, Next PROVE Calloop'
<1>0. \A c \in Captures : c \in Nat /\ c # 0
  BY DEF Captures, Typed, CalloopTyped
<1>1. CASE Stop \/ BeginRestart
  <2>1. /\ capture # 0 /\ capture' = 0 /\ stopping = "no"
        /\ discard' = [discard EXCEPT ![capture] = TRUE]
        /\ UNCHANGED <<at, dat, starts, demoted>>
        /\ \/ stopping' = "no" /\ fenced' = fenced
           \/ stopping' = "restarting" /\ fenced' = fenced /\ prior' = Encoder
    BY <1>1 DEF Stop, BeginRestart, Running, Teardown, thread
  <2>2. Encoder = Last(starts)
    BY <2>1 DEF Encoder, Last, Calloop, First, Demoted
  <2> QED
    BY <2>1, <2>2 DEF Calloop, Launched, Last, Typed, CalloopTyped, DeliveryTyped
<1>2. CASE Start \/ FinishRestart
  <2>1. PICK old \in Threads \cup {NoThread}, readback \in BOOLEAN : Launch(old, readback)
    BY <1>2 DEF Start, FinishRestart, Typed, CalloopTyped
  <2>2. starts < MaxCaptures /\ UNCHANGED discard /\ stopping' = "no" /\ capture = 0
    BY <1>2 DEF Start, FinishRestart, Typed, CalloopTyped
  <2>3. /\ starts' = starts + 1 /\ capture' = starts + 1 /\ demoted' = FALSE
        /\ fenced' = FALSE
    BY <2>1 DEF Launch
  <2>4. dat'[starts + 1] # "none" /\ \A c \in Captures : c # starts + 1 => dat'[c] = dat[c]
    BY <2>1, <2>2, LaunchingTyped DEF Launch, Typed, DeliveryTyped
  <2>5. \A c \in Captures : at'[Demoted(c)] = at[Demoted(c)]
    BY <2>1, <2>2, LaunchingTyped, ThreadsArePairs
  <2>6. at'[First(starts + 1)] # "none"
        /\ \A c \in Captures : c # starts + 1 => at'[First(c)] = at[First(c)]
    BY <2>1, <2>2, LaunchingTyped, ThreadsArePairs
  <2>7. starts + 1 \in Captures /\ starts \in Nat /\ Captures \subseteq Nat
    BY <2>1, <2>2, LaunchingTyped DEF Captures, Typed, CalloopTyped
  <2>8. at[Demoted(starts + 1)] = "none"
    BY <2>7 DEF Calloop, Launched
  <2>9. \A c \in Captures : /\ c <= starts' <=> at'[First(c)] # "none"
                            /\ at'[Demoted(c)] # "none" => c <= starts'
                            /\ c <= starts' <=> dat'[c] # "none"
                            /\ c <= starts' /\ c # capture' => discard'[c]
    BY <1>0, <2>2, <2>3, <2>4, <2>5, <2>6, <2>7 DEF Calloop, Launched
  <2>10. at'[Demoted(starts')] = "none"
    BY <2>3, <2>5, <2>7, <2>8
  <2> QED
    BY <2>2, <2>3, <2>7, <2>9, <2>10 DEF Calloop, Launched
<1>3. CASE Demote
  <2>1. /\ capture # 0 /\ capture = starts /\ starts \in Captures
        /\ at' = [at EXCEPT ![Demoted(starts)] = Joins(Encoder)] /\ demoted' = TRUE
        /\ UNCHANGED <<capture, starts, stopping, prior, discard, dat, fenced>>
        /\ stopping = "no"
    BY <1>3 DEF Demote, Running, Calloop, delivery, Typed, CalloopTyped, Captures, Demoted
  <2>2. at'[Demoted(starts)] # "none" /\ \A t \in Threads : t # Demoted(starts) => at'[t] = at[t]
    BY <2>1, ThreadsArePairs DEF Joins, Typed, ThreadsTyped
  <2>3. \A c \in Captures : at'[First(c)] = at[First(c)]
                          /\ (c # starts => at'[Demoted(c)] = at[Demoted(c)])
    BY <2>2, ThreadsArePairs DEF First, Demoted
  <2>4. \A c \in Captures : /\ c <= starts' <=> at'[First(c)] # "none"
                            /\ at'[Demoted(c)] # "none" => c <= starts'
                            /\ c <= starts' <=> dat'[c] # "none"
                            /\ c <= starts' /\ c # capture' => discard'[c]
    BY <1>0, <2>1, <2>2, <2>3 DEF Calloop, Launched
  <2> QED
    BY <2>1, <2>2, <2>4 DEF Calloop, Launched
<1>4. CASE Barrier \/ Answer
  BY <1>4 DEF Barrier, Answer, Calloop, Launched, Last, thread, delivery
<1>5. CASE Publish \/ Retain \/ Tick
  BY <1>5 DEF Publish, Retain, Tick, Calloop, Launched, Last, calloop, thread, delivery
<1>6. CASE ThreadStep
  <2>1. UNCHANGED <<calloop, fenced, discard>>
    BY <1>6 DEF ThreadStep, EncodeStep, DeliverStep, Join, Take, Lock, Encode, Send,
                JoinDelivery, Receive, Call, Hangup, delivery
  <2>2. \A t \in Threads : at'[t] = "none" <=> at[t] = "none"
    BY <1>6 DEF ThreadStep, EncodeStep, DeliverStep, Join, Take, Lock, Encode, Send, To,
                JoinDelivery, Receive, Call, Hangup, thread, Typed, ThreadsTyped
  <2>3. \A c \in Captures : dat'[c] = "none" <=> dat[c] = "none"
    BY <1>6 DEF ThreadStep, EncodeStep, DeliverStep, Join, Take, Lock, Encode, Send,
                JoinDelivery, Receive, Call, Hangup, delivery, Typed, DeliveryTyped
  <2>4. \A c \in Captures : Launched(First(c))' <=> Launched(First(c))
    BY <2>2, ThreadsArePairs DEF Launched, First
  <2>5. \A c \in Captures : Launched(Demoted(c))' <=> Launched(Demoted(c))
    BY <2>2, ThreadsArePairs DEF Launched, Demoted
  <2>6. starts # 0 => starts \in Captures
    BY DEF Typed, CalloopTyped, Captures
  <2> QED
    BY <2>1, <2>3, <2>4, <2>5, <2>6 DEF Calloop, calloop, Last, First, Demoted
<1> QED
  BY <1>1, <1>2, <1>3, <1>4, <1>5, <1>6 DEF Next

-----------------------------------------------------------------------------
(* The encode threads.                                                     *)

LEMMA StepMovesThread ==
    ASSUME Typed, NEW t \in Threads, EncodeStep(t)
    PROVE  /\ at[t] \notin Idle /\ at'[t] \notin {"none", "joining"}
           /\ at'[t] \in {"taking", "locking", "encoding", "sending", "ended"}
           /\ \A o \in Threads : o # t => at'[o] = at[o]
           /\ at[t] = "joining" => at[pred[t]] = "ended"
           /\ UNCHANGED <<pred, calloop, encodeReaper, deliverReaper, fenced, dpred, dat, discard>>
  BY DEF EncodeStep, Join, Take, Lock, Encode, Send, To, Idle, Typed, ThreadsTyped, reaper,
         delivery

LEMMA LaunchedCapture ==
    ASSUME Typed, Calloop, Start \/ FinishRestart
    PROVE  /\ starts + 1 \in Captures /\ starts \in Nat
           /\ starts' = starts + 1 /\ capture' = starts + 1 /\ capture = 0
           /\ stopping' = "no" /\ ~fenced'
           /\ UNCHANGED <<slot, hand, discard, channel, calling, python, frames>>
           /\ at[First(starts + 1)] = "none" /\ at[Demoted(starts + 1)] = "none"
           /\ dat[starts + 1] = "none"
           /\ at'[First(starts + 1)] \in {"taking", "joining"}
           /\ at'[First(starts + 1)] = "joining" <=> pred'[First(starts + 1)] # NoThread
           /\ \A t \in Threads : t # First(starts + 1) => pred'[t] = pred[t] /\ at'[t] = at[t]
           /\ \/ Start /\ stopping = "no" /\ pred'[First(starts + 1)] = NoThread
                       /\ encodeReaper' = encodeReaper
              \/ /\ FinishRestart /\ stopping = "restarting" /\ starts # 0
                 /\ \/ /\ pred'[First(starts + 1)] = Last(starts)
                       /\ encodeReaper' = encodeReaper
                    \/ /\ pred'[First(starts + 1)] = NoThread
                       /\ encodeReaper' = encodeReaper \cup {Last(starts)}
<1>1. starts < MaxCaptures /\ UNCHANGED <<slot, hand, discard, channel, calling, python, frames>>
      /\ stopping' = "no" /\ capture = 0
  BY DEF Start, FinishRestart, Typed, CalloopTyped, pool
<1>2. starts + 1 \in Captures /\ starts \in Nat /\ First(starts + 1) \in Threads
  BY <1>1, ThreadsArePairs DEF Typed, CalloopTyped, Captures
<1>3. /\ at[First(starts + 1)] = "none" /\ at[Demoted(starts + 1)] = "none"
      /\ dat[starts + 1] = "none"
  BY <1>2 DEF Calloop, Launched
<1>4. CASE Start
  <2>1. PICK readback \in BOOLEAN : Launch(NoThread, readback)
    BY <1>4 DEF Start
  <2>2. encodeReaper' = encodeReaper
    BY <2>1 DEF Launch
  <2>3. starts' = starts + 1 /\ capture' = starts + 1 /\ ~fenced'
    BY <2>1 DEF Launch
  <2>4. at' = [at EXCEPT ![First(starts + 1)] = "taking"]
        /\ pred' = [pred EXCEPT ![First(starts + 1)] = NoThread]
    BY <2>1 DEF Launch, Joins, First
  <2>5. stopping = "no"
    BY <1>4 DEF Start
  <2> QED
    BY <1>1, <1>2, <1>3, <1>4, <2>2, <2>3, <2>4, <2>5 DEF Typed, ThreadsTyped
<1>5. CASE FinishRestart
  <2>1. PICK readback \in BOOLEAN : Launch(prior, readback)
    BY <1>5 DEF FinishRestart
  <2>2. stopping = "restarting" /\ starts # 0 /\ prior = Last(starts)
    BY <1>5 DEF FinishRestart, Calloop
  <2>3. prior # NoThread
    BY <2>2 DEF Last, First, Demoted, NoThread
  <2> DEFINE joined == IF readback THEN prior ELSE NoThread
  <2>4. /\ at' = [at EXCEPT ![First(starts + 1)] = Joins(joined)]
        /\ pred' = [pred EXCEPT ![First(starts + 1)] = joined]
        /\ encodeReaper' = encodeReaper \cup ({prior} \ {joined, NoThread})
    BY <2>1 DEF Launch, First
  <2>5. starts' = starts + 1 /\ capture' = starts + 1 /\ ~fenced'
    BY <2>1 DEF Launch
  <2>6. CASE readback
    BY <1>1, <1>2, <1>3, <1>5, <2>2, <2>3, <2>4, <2>5, <2>6 DEF Typed, ThreadsTyped, Joins
  <2>7. CASE ~readback
    BY <1>1, <1>2, <1>3, <1>5, <2>2, <2>3, <2>4, <2>5, <2>7 DEF Typed, ThreadsTyped, Joins
  <2> QED
    BY <2>6, <2>7
<1> QED
  BY <1>4, <1>5

\* The other steps that touch the encode threads: only one more, of a demotion.
LEMMA DemotedThread ==
    ASSUME Typed, Calloop, Demote
    PROVE  /\ starts \in Captures /\ capture = starts /\ stopping = "no" /\ ~demoted
           /\ zero[starts] /\ at[Demoted(starts)] = "none" /\ Encoder = First(starts)
           /\ at'[Demoted(starts)] = "joining" /\ pred'[Demoted(starts)] = First(starts)
           /\ \A t \in Threads : t # Demoted(starts) => pred'[t] = pred[t] /\ at'[t] = at[t]
           /\ UNCHANGED <<capture, starts, stopping, zero, since, prior, delivery, reaper, fenced>>
<1>1. /\ starts \in Captures /\ capture = starts /\ stopping = "no" /\ ~demoted /\ zero[starts]
      /\ UNCHANGED <<capture, starts, stopping, zero, since, prior, delivery, reaper, fenced>>
  BY DEF Demote, Running, ZeroCopy, Calloop, Typed, CalloopTyped, Captures
<1>2. Encoder = First(starts) /\ Encoder # NoThread
  BY <1>1 DEF Encoder, First, NoThread
<1>3. at' = [at EXCEPT ![Demoted(starts)] = "joining"]
      /\ pred' = [pred EXCEPT ![Demoted(starts)] = First(starts)]
  BY <1>1, <1>2 DEF Demote, Joins, Demoted
<1>4. at[Demoted(starts)] = "none"
  BY <1>1 DEF Calloop, Launched, Captures, Typed, CalloopTyped
<1> QED
  BY <1>1, <1>2, <1>3, <1>4, ThreadsArePairs DEF Typed, ThreadsTyped

LEMMA OthersLeaveThreads ==
    ASSUME Stop \/ BeginRestart \/ Publish \/ Retain \/ Tick \/ Barrier \/ Answer
           \/ \E c \in Captures : DeliverStep(c)
    PROVE  UNCHANGED <<at, pred, starts>>
  BY DEF Stop, BeginRestart, Publish, Retain, Tick, Barrier, Answer, DeliverStep, JoinDelivery,
         Receive, Call, Hangup, thread, calloop

LEMMA JoinedKept == ASSUME Typed, Calloop, Joined, Next PROVE Joined'
<1>1. CASE Start \/ FinishRestart
  <2>1. \A c \in Captures : c # starts + 1 =>
            /\ pred'[First(c)] = pred[First(c)] /\ pred'[Demoted(c)] = pred[Demoted(c)]
            /\ at'[Demoted(c)] = at[Demoted(c)]
    BY <1>1, LaunchedCapture, ThreadsArePairs DEF First, Demoted
  <2>2. pred'[Demoted(starts + 1)] = pred[Demoted(starts + 1)]
        /\ at'[Demoted(starts + 1)] = "none"
    BY <1>1, LaunchedCapture, ThreadsArePairs
  <2>3. \A c \in Captures : c \in Nat /\ c # 0
    BY DEF Captures, Typed, CalloopTyped
  <2>4. \A c \in Captures : c + 1 \in Captures => Last(c)' = Last(c)
    BY <1>1, <2>1, <2>2, LaunchedCapture DEF Last, Launched, First, Demoted
  <2>5. \A t \in Threads : at'[t] = "joining" => pred'[t] # NoThread
    BY <1>1, LaunchedCapture DEF Joined
  <2>6. \A c \in Captures : Launched(Demoted(c))' => pred'[Demoted(c)] = First(c)
    BY <2>1, <2>2 DEF Joined, Launched
  <2>7. ASSUME NEW c \in Captures, pred'[First(c)] # NoThread
        PROVE  1 < c /\ c <= starts' /\ pred'[First(c)] = Last(c - 1)'
    <3>1. CASE c = starts + 1
      <4>1. starts # 0 /\ pred'[First(c)] = Last(starts) /\ c - 1 = starts /\ starts \in Captures
        BY <1>1, <2>7, <3>1, LaunchedCapture DEF Captures, Typed, CalloopTyped
      <4> QED
        BY <1>1, <2>3, <2>4, <3>1, <4>1, LaunchedCapture
    <3>2. CASE c # starts + 1
      <4>1. 1 < c /\ c <= starts /\ pred'[First(c)] = Last(c - 1)
        BY <2>1, <2>7, <3>2 DEF Joined
      <4>2. c - 1 \in Captures /\ (c - 1) + 1 = c
        BY <2>3, <4>1 DEF Captures, Typed, CalloopTyped
      <4> QED
        BY <1>1, <2>3, <2>4, <4>1, <4>2, LaunchedCapture
    <3> QED
      BY <3>1, <3>2
  <2> QED
    BY <2>5, <2>6, <2>7 DEF Joined
<1>2. CASE Demote
  <2>1. \A c \in Captures : c # starts => Launched(Demoted(c))' = Launched(Demoted(c))
    BY <1>2, DemotedThread, ThreadsArePairs DEF Launched, Demoted
  <2>2. \A c \in Captures : c # starts => Last(c)' = Last(c)
    BY <2>1 DEF Last, First, Demoted
  <2>3. \A c \in Captures : pred'[First(c)] = pred[First(c)]
    BY <1>2, DemotedThread, ThreadsArePairs DEF First, Demoted
  <2>4. \A c \in Captures : Launched(Demoted(c))' => pred'[Demoted(c)] = First(c)
    <3>1. \A c \in Captures : c # starts => pred'[Demoted(c)] = pred[Demoted(c)]
      BY <1>2, DemotedThread, ThreadsArePairs DEF Demoted
    <3> QED
      BY <1>2, <2>1, <3>1, DemotedThread DEF Joined
  <2>5. \A t \in Threads : at'[t] = "joining" => pred'[t] # NoThread
    BY <1>2, DemotedThread, ThreadsArePairs DEF Joined
  <2>6. ASSUME NEW c \in Captures, pred'[First(c)] # NoThread
        PROVE  1 < c /\ c <= starts' /\ pred'[First(c)] = Last(c - 1)'
    <3>1. 1 < c /\ c <= starts /\ pred'[First(c)] = Last(c - 1)
      BY <2>3, <2>6 DEF Joined
    <3>2. c - 1 \in Captures /\ c - 1 # starts
      BY <3>1 DEF Captures, Typed, CalloopTyped
    <3> QED
      BY <1>2, <2>2, <3>1, <3>2, DemotedThread
  <2> QED
    BY <2>4, <2>5, <2>6 DEF Joined
<1>3. ASSUME NEW t \in Threads, EncodeStep(t) PROVE Joined'
  <2>1. \A o \in Threads : Launched(o)' <=> Launched(o)
    BY <1>3, StepMovesThread DEF Launched, Idle
  <2>2. \A c : c \in Captures => Last(c)' = Last(c)
    BY <2>1, ThreadsArePairs DEF Last, First, Demoted
  <2>3. \A c \in Captures : 1 < c => c - 1 \in Captures
    BY DEF Captures, Typed, CalloopTyped
  <2>4. \A o \in Threads : at'[o] = "joining" => at[o] = "joining"
    BY <1>3, StepMovesThread
  <2> QED
    BY <1>3, <2>1, <2>2, <2>3, <2>4, StepMovesThread, ThreadsArePairs DEF Joined, calloop
<1>4. CASE UNCHANGED <<at, pred, starts>>
  BY <1>4 DEF Joined, Last, Launched
<1> QED
  BY <1>1, <1>2, <1>3, <1>4, OthersLeaveThreads DEF Next, ThreadStep

LEMMA PredecessorsEndedKept ==
    ASSUME Typed, Calloop, Joined, PredecessorsEnded, Next PROVE PredecessorsEnded'
<1>0. \A c \in Captures : c \in Nat /\ c # 0
  BY DEF Captures, Typed, CalloopTyped
<1>1. CASE Start \/ FinishRestart
  <2>1. \A c \in Captures : c # starts + 1 =>
            at'[First(c)] = at[First(c)] /\ pred'[First(c)] = pred[First(c)]
    BY <1>1, LaunchedCapture, ThreadsArePairs DEF First, Demoted
  <2>2. \A c \in Captures : at'[Demoted(c)] = at[Demoted(c)]
    BY <1>1, LaunchedCapture, ThreadsArePairs
  <2>3. \A c \in Captures :
          at'[Demoted(c)] \notin {"none", "joining"} => at'[First(c)] = "ended"
    BY <1>1, <2>1, <2>2, LaunchedCapture DEF PredecessorsEnded
  <2>4. ASSUME NEW c \in Captures, NEW d \in Captures, c < d, Chained(c, d)',
               at'[First(d)] \notin {"none", "joining"}
        PROVE  Quiet(c)'
    <3>1. d # starts + 1
      BY <1>0, <1>1, <2>4, LaunchedCapture DEF Chained
    <3>2. d <= starts
      BY <2>1, <2>4, <3>1 DEF Calloop, Launched
    <3>3. Chained(c, d)
      BY <1>0, <1>1, <2>1, <2>4, <3>2, LaunchedCapture DEF Chained
    <3>4. Quiet(c) /\ c # starts + 1
      BY <1>0, <1>1, <2>1, <2>4, <3>1, <3>2, <3>3, LaunchedCapture DEF PredecessorsEnded
    <3> QED
      BY <2>1, <2>2, <3>4 DEF Quiet
  <2> QED
    BY <2>3, <2>4 DEF PredecessorsEnded
<1>2. CASE Demote
  <2>1. \A c \in Captures : at'[First(c)] = at[First(c)] /\ pred'[First(c)] = pred[First(c)]
    BY <1>2, DemotedThread, ThreadsArePairs DEF First, Demoted
  <2>2. \A c \in Captures : c # starts => at'[Demoted(c)] = at[Demoted(c)]
    BY <1>2, DemotedThread, ThreadsArePairs DEF First, Demoted
  <2>3. \A c \in Captures :
          at'[Demoted(c)] \notin {"none", "joining"} => at'[First(c)] = "ended"
    BY <1>2, <2>1, <2>2, DemotedThread DEF PredecessorsEnded
  <2>4. ASSUME NEW c \in Captures, NEW d \in Captures, c < d, Chained(c, d)',
               at'[First(d)] \notin {"none", "joining"}
        PROVE  Quiet(c)'
    <3>1. Chained(c, d) /\ at[First(d)] \notin {"none", "joining"}
      BY <2>1, <2>4 DEF Chained
    <3>2. d <= starts
      BY <3>1 DEF Calloop, Launched
    <3>3. Quiet(c) /\ c # starts
      BY <1>0, <1>2, <2>4, <3>1, <3>2, DemotedThread DEF PredecessorsEnded
    <3> QED
      BY <2>1, <2>2, <3>3 DEF Quiet
  <2> QED
    BY <2>3, <2>4 DEF PredecessorsEnded
<1>3. ASSUME NEW t \in Threads, EncodeStep(t) PROVE PredecessorsEnded'
  <2>1. \A o \in Threads : at[o] \in Idle => at'[o] = at[o]
    BY <1>3, StepMovesThread
  <2>2. \A c \in Captures : Quiet(c) => Quiet(c)'
    BY <2>1, ThreadsArePairs DEF Quiet
  <2>3. \A o \in Threads :
          at'[o] \notin {"none", "joining"} =>
              at[o] \notin {"none", "joining"} \/ (at[o] = "joining" /\ at[pred[o]] = "ended")
    BY <1>3, StepMovesThread DEF Idle
  <2>4. \A c \in Captures :
          at'[Demoted(c)] \notin {"none", "joining"} => at'[First(c)] = "ended"
    <3>1. \A c \in Captures : at[Demoted(c)] = "joining" => pred[Demoted(c)] = First(c)
      BY DEF Joined, Launched
    <3>2. \A c \in Captures :
            at'[Demoted(c)] \notin {"none", "joining"} => at[First(c)] = "ended"
      BY <2>3, <3>1, ThreadsArePairs DEF PredecessorsEnded
    <3> QED
      BY <2>1, <3>2, ThreadsArePairs DEF Idle
  <2>5. ASSUME NEW c \in Captures, NEW d \in Captures, c < d, Chained(c, d)',
               at'[First(d)] \notin {"none", "joining"}
        PROVE  Quiet(c)'
    <3>1. Chained(c, d)
      BY <1>3, <2>5, StepMovesThread DEF Chained
    <3>2. CASE at[First(d)] \notin {"none", "joining"}
      BY <2>2, <2>5, <3>1, <3>2 DEF PredecessorsEnded
    <3>3. CASE at[First(d)] = "joining" /\ at[pred[First(d)]] = "ended"
      <4>1. 1 < d /\ d - 1 \in Captures /\ pred[First(d)] = Last(d - 1)
        BY <3>3, ThreadsArePairs DEF Joined, Captures, Typed, CalloopTyped
      <4>2. at[First(d - 1)] = "ended" /\ at[Demoted(d - 1)] \in Idle
        BY <3>3, <4>1 DEF Last, Launched, PredecessorsEnded, Idle
      <4>3. Quiet(d - 1)
        BY <4>2 DEF Quiet, Idle
      <4>4. CASE c = d - 1
        BY <2>2, <4>3, <4>4
      <4>5. CASE c # d - 1
        <5>1. c < d - 1 /\ Chained(c, d - 1)
          BY <1>0, <2>5, <3>1, <4>5 DEF Chained
        <5> QED
          BY <2>2, <4>1, <4>2, <5>1 DEF PredecessorsEnded
      <4> QED
        BY <4>4, <4>5
    <3> QED
      BY <2>3, <2>5, <3>2, <3>3, ThreadsArePairs
  <2> QED
    BY <2>4, <2>5 DEF PredecessorsEnded
<1>4. CASE UNCHANGED <<at, pred, starts>>
  BY <1>4 DEF PredecessorsEnded, Quiet, Chained
<1> QED
  BY <1>1, <1>2, <1>3, <1>4, OthersLeaveThreads DEF Next, ThreadStep

\* Once what the Barrier waits for has ended, so has all that it waits for.
LEMMA AnsweredIsQuiet ==
    ASSUME Typed, Calloop, Joined, PredecessorsEnded, EncodersKept, Answer
    PROVE  \A c \in Captures : Quiet(c)
<1>1. /\ stopping = "barrier" /\ capture = 0
      /\ \A t \in encodeReaper : at[t] = "ended"
  BY DEF Answer, Calloop
<1> SUFFICES ASSUME NEW c \in Captures, ~Quiet(c) PROVE FALSE
  OBVIOUS
<1>2. PICK d \in Captures : c <= d /\ Chained(c, d) /\ Last(d) \in encodeReaper
  BY <1>1 DEF EncodersKept, Anchored
<1>3. at[First(d)] = "ended" /\ Quiet(d)
  BY <1>1, <1>2 DEF Last, Launched, PredecessorsEnded, Quiet, Idle
<1>4. c < d
  BY <1>2, <1>3 DEF Captures, Typed, CalloopTyped
<1> QED
  BY <1>2, <1>3, <1>4 DEF PredecessorsEnded

LEMMA EncodersKeptKept ==
    ASSUME Typed, Calloop, Joined, PredecessorsEnded, EncodersKept, Next PROVE EncodersKept'
<1>0. \A c \in Captures : c \in Nat /\ c # 0
  BY DEF Captures, Typed, CalloopTyped
<1>1. CASE Start \/ FinishRestart
  <2>0. PICK e : e = starts + 1
    OBVIOUS
  <2>1. \A c \in Captures : c # e => /\ Quiet(c)' = Quiet(c) /\ Last(c)' = Last(c)
                                     /\ pred'[First(c)] = pred[First(c)]
    <3>1. \A c \in Captures : c # e =>
              /\ at'[First(c)] = at[First(c)] /\ at'[Demoted(c)] = at[Demoted(c)]
              /\ pred'[First(c)] = pred[First(c)]
      BY <1>1, <2>0, LaunchedCapture, ThreadsArePairs DEF First, Demoted
    <3> QED
      BY <3>1 DEF Quiet, Last, Launched
  <2>2. \A c, d \in Captures : d <= starts /\ Chained(c, d) => Chained(c, d)'
    BY <1>0, <1>1, <2>0, <2>1, LaunchedCapture DEF Chained
  <2>3. \A c \in Captures : Chained(c, c)'
    BY <1>0 DEF Chained
  <2>4. Anchored(e)'
    BY <1>1, <2>0, LaunchedCapture DEF Anchored
  <2> SUFFICES ASSUME NEW c \in Captures, ~Quiet(c)'
               PROVE \E d \in Captures : c <= d /\ d <= starts' /\ Chained(c, d)' /\ Anchored(d)'
    BY DEF EncodersKept
  <2>5. CASE c = e
    BY <1>0, <1>1, <2>0, <2>3, <2>4, <2>5, LaunchedCapture
  <2>6. CASE c # e
    <3>1. PICK d \in Captures : c <= d /\ d <= starts /\ Chained(c, d) /\ Anchored(d)
      BY <2>1, <2>6 DEF EncodersKept
    <3>2. d # e /\ d <= starts'
      BY <1>0, <1>1, <2>0, <3>1, LaunchedCapture
    <3>3. CASE Last(d) \in encodeReaper
      BY <1>1, <2>0, <2>1, <2>2, <3>1, <3>2, <3>3, LaunchedCapture DEF Anchored
    <3>4. CASE d = starts /\ stopping = "restarting" /\ pred'[First(e)] = NoThread
      <4>1. Last(d) # NoThread
        BY DEF Last, First, Demoted, NoThread
      <4>2. Last(d) \in encodeReaper'
        BY <1>1, <2>0, <3>4, <4>1, LaunchedCapture
      <4> QED
        BY <2>1, <2>2, <3>1, <3>2, <4>2 DEF Anchored
    <3>5. CASE d = starts /\ stopping = "restarting" /\ pred'[First(e)] # NoThread
      <4>1. Chained(c, e)'
        BY <1>0, <1>1, <2>0, <2>2, <3>1, <3>5, LaunchedCapture DEF Chained
      <4>2. c <= e /\ e <= starts' /\ e \in Captures
        BY <1>0, <1>1, <2>0, <3>1, LaunchedCapture
      <4> QED
        BY <2>4, <4>1, <4>2
    <3> QED
      BY <1>1, <3>1, <3>3, <3>4, <3>5, LaunchedCapture DEF Anchored
  <2> QED
    BY <2>5, <2>6
<1>2. CASE Demote
  <2>1. \A c \in Captures : pred'[First(c)] = pred[First(c)]
    BY <1>2, DemotedThread, ThreadsArePairs DEF First, Demoted
  <2>2. \A c, d \in Captures : Chained(c, d) => Chained(c, d)'
    BY <2>1 DEF Chained
  <2>3. \A c \in Captures : c # starts => Quiet(c)' = Quiet(c) /\ Last(c)' = Last(c)
    BY <1>2, DemotedThread, ThreadsArePairs DEF Quiet, Last, Launched, First, Demoted
  <2>4. Anchored(starts)'
    BY <1>2, DemotedThread DEF Anchored, Demote, Running
  <2>5. \A d \in Captures : Anchored(d) => Anchored(d)'
    BY <1>2, <2>3, <2>4, DemotedThread DEF Anchored, reaper
  <2>6. Chained(starts, starts)'
    BY <1>0, <1>2, DemotedThread DEF Chained
  <2> QED
    BY <1>0, <1>2, <2>2, <2>3, <2>4, <2>5, <2>6, DemotedThread DEF EncodersKept
<1>3. ASSUME NEW t \in Threads, EncodeStep(t) PROVE EncodersKept'
  <2>1. \A o \in Threads : /\ at[o] \in Idle => at'[o] = at[o]
                           /\ Launched(o)' <=> Launched(o)
    BY <1>3, StepMovesThread DEF Launched, Idle
  <2>2. \A c \in Captures : /\ Quiet(c) => Quiet(c)'
                            /\ Last(c)' = Last(c)
    BY <2>1, ThreadsArePairs DEF Quiet, Last, First, Demoted
  <2>3. UNCHANGED <<pred, capture, starts, stopping, encodeReaper>>
    BY <1>3, StepMovesThread DEF calloop
  <2> QED
    BY <2>2, <2>3 DEF EncodersKept, Anchored, Chained
<1>4. CASE Stop \/ BeginRestart
  <2>1. UNCHANGED <<at, pred, starts>> /\ capture # 0 /\ Encoder = Last(starts)
        /\ \/ encodeReaper' = encodeReaper \cup {Encoder}
           \/ encodeReaper' = encodeReaper /\ stopping' = "restarting"
    BY <1>4 DEF Stop, BeginRestart, Running, Encoder, Last, Calloop, First, Demoted, thread, reaper
  <2> QED
    BY <2>1 DEF EncodersKept, Quiet, Anchored, Last, Launched, Chained
<1>5. CASE Answer
  BY <1>5, AnsweredIsQuiet DEF Answer, thread, EncodersKept, Quiet
<1>6. CASE Publish \/ Retain \/ Tick \/ Barrier \/ \E c \in Captures : DeliverStep(c)
  <2>1. UNCHANGED <<at, pred, starts, capture, encodeReaper>>
        /\ (stopping = "restarting" => stopping' = "restarting")
    BY <1>6 DEF Publish, Retain, Tick, Barrier, DeliverStep, JoinDelivery, Receive, Call, Hangup,
                thread, calloop, reaper
  <2> QED
    BY <2>1 DEF EncodersKept, Quiet, Anchored, Last, Launched, Chained
<1> QED
  BY <1>1, <1>2, <1>3, <1>4, <1>5, <1>6 DEF Next, ThreadStep

-----------------------------------------------------------------------------
(* The delivery threads.                                                   *)

LEMMA LaunchedDelivery ==
    ASSUME Typed, Calloop, DeliveryInTurn, Start \/ FinishRestart
    PROVE  /\ \A c \in Captures : c # starts + 1 =>
                  since'[c] = since[c] /\ dpred'[c] = dpred[c] /\ dat'[c] = dat[c]
           /\ UNCHANGED deliverReaper
           /\ \/ since'[starts + 1] = starts + 1 /\ dat'[starts + 1] = "receiving"
                    /\ stopping = "no"
              \/ /\ since'[starts + 1] = since[starts] /\ starts # 0
                 /\ dat'[starts + 1] = "joining" /\ dpred'[starts + 1] = starts
<1>1. starts + 1 \in Captures
  BY LaunchedCapture
<1>2. CASE Start
  <2>1. PICK readback \in BOOLEAN : Launch(NoThread, readback)
    BY <1>2 DEF Start
  <2>2. UNCHANGED deliverReaper /\ stopping = "no"
    BY <1>2 DEF Start
  <2> QED
    BY <1>1, <2>1, <2>2 DEF Launch, Typed, CalloopTyped, DeliveryTyped
<1>3. CASE FinishRestart
  <2>1. PICK readback \in BOOLEAN : Launch(prior, readback)
    BY <1>3 DEF FinishRestart
  <2>2. UNCHANGED deliverReaper /\ starts # 0 /\ prior = Last(starts)
    BY <1>3 DEF FinishRestart, Calloop
  <2>3. prior # NoThread /\ prior[1] = starts
    BY <2>2 DEF Last, First, Demoted, NoThread
  <2> QED
    BY <1>1, <2>1, <2>2, <2>3 DEF Launch, Typed, CalloopTyped, DeliveryTyped
<1> QED
  BY <1>2, <1>3

LEMMA StepMovesDelivery ==
    ASSUME Typed, Calloop, NEW c \in Captures, DeliverStep(c)
    PROVE  /\ ~Over(c) /\ dat'[c] \in {"receiving", "ended"}
           /\ \A d \in Captures : d # c => dat'[d] = dat[d]
           /\ dat[c] = "joining" => dat[dpred[c]] = "ended"
           /\ UNCHANGED <<calloop, dpred, deliverReaper, fenced, discard>>
<1>1. ~Over(c)
  BY DEF DeliverStep, JoinDelivery, Receive, Call, Hangup, Over, Idle, Typed, DeliveryTyped
<1>2. dat'[c] \in {"receiving", "ended"} /\ \A d \in Captures : d # c => dat'[d] = dat[d]
  BY DEF DeliverStep, JoinDelivery, Receive, Call, Hangup, Typed, DeliveryTyped
<1> QED
  BY <1>1, <1>2
     DEF DeliverStep, JoinDelivery, Receive, Call, Hangup, reaper, Typed, DeliveryTyped

LEMMA OthersLeaveDelivery ==
    ASSUME Stop \/ BeginRestart \/ Publish \/ Retain \/ Tick \/ Demote \/ Barrier \/ Answer
           \/ \E t \in Threads : EncodeStep(t)
    PROVE  UNCHANGED <<dat, dpred, since, starts, calling, python>>
  BY DEF Stop, BeginRestart, Publish, Retain, Tick, Demote, Barrier, Answer, EncodeStep, Join,
         Take, Lock, Encode, Send, delivery, calloop

LEMMA DeliveryInTurnKept ==
    ASSUME Typed, Calloop, DeliveryInTurn, Next PROVE DeliveryInTurn'
<1>0. \A c \in Captures : c \in Nat /\ c # 0
  BY DEF Captures, Typed, CalloopTyped
<1>1. CASE Start \/ FinishRestart
  <2>0. PICK e : e = starts + 1
    OBVIOUS
  <2>1. e \in Captures /\ starts \in Nat /\ starts' = e /\ (starts # 0 => starts \in Captures)
    BY <1>1, <2>0, LaunchedCapture DEF Captures, Typed, CalloopTyped
  <2>2. \A c \in Captures : c # e =>
            since'[c] = since[c] /\ dpred'[c] = dpred[c] /\ dat'[c] = dat[c]
    BY <1>1, <2>0, LaunchedDelivery
  <2>3. \/ since'[e] = e /\ dat'[e] = "receiving"
        \/ /\ since'[e] = since[starts] /\ starts # 0 /\ starts # e
           /\ dat'[e] = "joining" /\ dpred'[e] = starts
    BY <1>1, <2>0, <2>1, LaunchedDelivery
  <2>4. \A c \in Captures : c <= starts' => since'[c] \in 1 .. c
    BY <1>0, <2>0, <2>1, <2>2, <2>3 DEF DeliveryInTurn
  <2>5. ASSUME NEW c \in Captures, dat'[c] = "joining"
        PROVE  1 < c /\ dpred'[c] = c - 1 /\ since'[c] = since'[c - 1]
    <3>1. CASE c = e
      BY <2>0, <2>1, <2>2, <2>3, <2>5, <3>1
    <3>2. CASE c # e
      <4>1. 1 < c /\ dpred[c] = c - 1 /\ since[c] = since[c - 1] /\ c <= starts
        BY <2>2, <2>5, <3>2 DEF DeliveryInTurn, Calloop
      <4>2. c - 1 \in Captures /\ c - 1 # e
        BY <2>0, <2>1, <4>1 DEF Captures, Typed, CalloopTyped
      <4> QED
        BY <2>2, <3>2, <4>1, <4>2
    <3> QED
      BY <3>1, <3>2
  <2>6. ASSUME NEW c \in Captures, NEW d \in Captures, c < d, d <= starts',
               since'[c] = since'[d], dat'[d] # "joining"
        PROVE  dat'[c] = "ended"
    <3>1. c # e /\ c <= starts
      BY <1>0, <2>0, <2>1, <2>6
    <3>2. since[c] \in 1 .. c /\ since'[c] = since[c]
      BY <2>2, <3>1 DEF DeliveryInTurn
    <3>3. d # e
      <4> SUFFICES ASSUME d = e PROVE FALSE
        OBVIOUS
      <4>1. since'[e] = e
        BY <2>3, <2>6
      <4>2. since[c] = e /\ c \in Nat /\ e \in Nat /\ c < e
        BY <1>0, <2>1, <2>6, <3>2, <4>1
      <4> QED
        BY <3>2, <4>2
    <3> QED
      BY <1>0, <2>0, <2>1, <2>2, <2>6, <3>1, <3>3 DEF DeliveryInTurn
  <2> QED
    BY <2>4, <2>5, <2>6 DEF DeliveryInTurn
<1>2. ASSUME NEW c \in Captures, DeliverStep(c) PROVE DeliveryInTurn'
  <2>1. UNCHANGED <<since, dpred, starts>> /\ \A d \in Captures : dat[d] \in Idle => dat'[d] = dat[d]
    BY <1>2, StepMovesDelivery DEF calloop, Over
  <2>2. \A d \in Captures : dat'[d] = "joining" => dat[d] = "joining"
    BY <1>2, StepMovesDelivery
  <2>3. ASSUME NEW b \in Captures, NEW d \in Captures, b < d, d <= starts, since[b] = since[d],
               dat'[d] # "joining"
        PROVE  dat[b] = "ended"
    <3>1. CASE dat[d] # "joining"
      BY <2>3, <3>1 DEF DeliveryInTurn
    <3>2. CASE dat[d] = "joining"
      <4>1. /\ 1 < d /\ dpred[d] = d - 1 /\ since[d] = since[d - 1] /\ dat[d - 1] = "ended"
            /\ d - 1 \in Captures
        BY <1>2, <2>3, <3>2, StepMovesDelivery DEF DeliveryInTurn, Captures, Typed, CalloopTyped
      <4>2. b = d - 1 \/ (b < d - 1 /\ d - 1 <= starts)
        BY <1>0, <2>3 DEF Typed, CalloopTyped
      <4> QED
        BY <2>3, <4>1, <4>2 DEF DeliveryInTurn
    <3> QED
      BY <3>1, <3>2
  <2> QED
    BY <2>1, <2>2, <2>3 DEF DeliveryInTurn, Idle
<1>3. CASE UNCHANGED <<dat, dpred, since, starts>>
  BY <1>3 DEF DeliveryInTurn
<1> QED
  BY <1>1, <1>2, <1>3, OthersLeaveDelivery DEF Next, ThreadStep

LEMMA AnsweredIsOver ==
    ASSUME Typed, Calloop, DeliveryInTurn, DeliveriesKept, Answer
    PROVE  \A c \in Captures : Over(c)
<1>1. capture = 0 /\ stopping = "barrier" /\ \A c \in deliverReaper : dat[c] = "ended"
  BY DEF Answer, Calloop
<1> SUFFICES ASSUME NEW c \in Captures, ~Over(c) PROVE FALSE
  OBVIOUS
<1>2. PICK d \in Captures : c <= d /\ d <= starts /\ since[d] = since[c] /\ dat[d] = "ended"
  BY <1>1 DEF DeliveriesKept, DeliveryAnchored
<1>3. c = d \/ c < d
  BY <1>2 DEF Captures, Typed, CalloopTyped
<1> QED
  BY <1>2, <1>3 DEF DeliveryInTurn, Over, Idle

LEMMA DeliveriesKeptKept ==
    ASSUME Typed, Calloop, DeliveryInTurn, DeliveriesKept, Next PROVE DeliveriesKept'
<1>0. \A c \in Captures : c \in Nat /\ c # 0
  BY DEF Captures, Typed, CalloopTyped
<1>1. CASE Start \/ FinishRestart
  <2>0. PICK e : e = starts + 1
    OBVIOUS
  <2>1. e \in Captures /\ starts \in Nat /\ starts' = e /\ capture' = e /\ e # 0 /\ capture = 0
    BY <1>1, <2>0, LaunchedCapture
  <2>2. \A c \in Captures : c # e => since'[c] = since[c] /\ dat'[c] = dat[c]
    BY <1>1, <2>0, LaunchedDelivery
  <2>3. UNCHANGED deliverReaper /\ (stopping = "restarting" => since'[e] = since[starts])
    BY <1>1, <2>0, LaunchedDelivery
  <2>4. DeliveryAnchored(e)'
    BY <2>1 DEF DeliveryAnchored
  <2> SUFFICES ASSUME NEW c \in Captures, ~Over(c)'
               PROVE \E d \in Captures : /\ c <= d /\ d <= starts' /\ since'[d] = since'[c]
                                         /\ DeliveryAnchored(d)'
    BY DEF DeliveriesKept
  <2>5. CASE c = e
    BY <1>0, <2>1, <2>4, <2>5
  <2>6. CASE c # e
    <3>1. PICK d \in Captures : c <= d /\ d <= starts /\ since[d] = since[c] /\ DeliveryAnchored(d)
      BY <2>2, <2>6 DEF DeliveriesKept, Over
    <3>2. d # e /\ d <= starts' /\ c <= e
      BY <1>0, <2>0, <2>1, <3>1
    <3>3. CASE d \in deliverReaper
      <4>1. DeliveryAnchored(d)'
        BY <2>3, <3>3 DEF DeliveryAnchored
      <4>2. since'[d] = since'[c]
        BY <2>2, <2>6, <3>1, <3>2
      <4> QED
        BY <3>1, <3>2, <4>1, <4>2
    <3>4. CASE d = starts /\ stopping = "restarting"
      <4>1. since'[e] = since'[c]
        BY <2>2, <2>3, <2>6, <3>1, <3>4
      <4>2. e <= starts'
        BY <1>0, <2>1
      <4> QED
        BY <2>1, <2>4, <3>2, <4>1, <4>2
    <3> QED
      BY <2>1, <3>1, <3>3, <3>4 DEF DeliveryAnchored
  <2> QED
    BY <2>5, <2>6
<1>2. ASSUME NEW c \in Captures, DeliverStep(c) PROVE DeliveriesKept'
  <2>1. UNCHANGED <<since, starts, capture, stopping, deliverReaper>>
        /\ \A d \in Captures : Over(d) => Over(d)'
    BY <1>2, StepMovesDelivery DEF calloop, Over
  <2> QED
    BY <2>1 DEF DeliveriesKept, DeliveryAnchored
<1>3. CASE Stop \/ BeginRestart
  <2>1. UNCHANGED <<dat, since, starts>> /\ capture = starts
        /\ \/ deliverReaper' = deliverReaper \cup {capture}
           \/ deliverReaper' = deliverReaper /\ stopping' = "restarting"
    BY <1>3 DEF Stop, BeginRestart, Running, LeftToReaper, Calloop, delivery, reaper
  <2> QED
    BY <2>1 DEF DeliveriesKept, Over, DeliveryAnchored
<1>4. CASE Answer
  BY <1>4, AnsweredIsOver DEF Answer, delivery, DeliveriesKept, Over
<1>5. CASE Publish \/ Retain \/ Tick \/ Demote \/ Barrier \/ \E t \in Threads : EncodeStep(t)
  <2>1. UNCHANGED <<dat, since, starts, capture, deliverReaper>>
        /\ (stopping = "restarting" => stopping' = "restarting")
    BY <1>5 DEF Publish, Retain, Tick, Demote, Barrier, EncodeStep, Join, Take, Lock, Encode, Send,
                delivery, calloop, reaper
  <2> QED
    BY <2>1 DEF DeliveriesKept, Over, DeliveryAnchored
<1> QED
  BY <1>1, <1>2, <1>3, <1>4, <1>5 DEF Next, ThreadStep

LEMMA QuietInvKept ==
    ASSUME Typed, Calloop, QuietInv, Next PROVE QuietInv'
<1>1. Joined' /\ PredecessorsEnded' /\ EncodersKept' /\ DeliveryInTurn' /\ DeliveriesKept'
  BY JoinedKept, PredecessorsEndedKept, EncodersKeptKept, DeliveryInTurnKept, DeliveriesKeptKept
     DEF QuietInv
<1>2. ASSUME fenced' PROVE \A c \in Captures : Quiet(c)' /\ Over(c)'
  <2>1. CASE Answer
    BY <2>1, AnsweredIsQuiet, AnsweredIsOver DEF QuietInv, Answer, thread, delivery, Quiet, Over
  <2>2. CASE Start \/ FinishRestart
    BY <1>2, <2>2, LaunchedCapture
  <2>3. CASE Demote
    BY <1>2, <2>3, DemotedThread DEF Calloop, Demote, Running
  <2>4. ASSUME NEW t \in Threads, EncodeStep(t) PROVE FALSE
    <3>1. fenced /\ at[t] \notin Idle
      BY <1>2, <2>4, StepMovesThread
    <3> QED
      BY <3>1, ThreadsArePairs DEF QuietInv, Quiet
  <2>5. ASSUME NEW c \in Captures, DeliverStep(c) PROVE FALSE
    BY <1>2, <2>5, StepMovesDelivery DEF QuietInv
  <2>6. CASE Stop \/ BeginRestart \/ Publish \/ Retain \/ Tick \/ Barrier
    <3>1. UNCHANGED <<at, dat, fenced>>
      BY <2>6 DEF Stop, BeginRestart, Publish, Retain, Tick, Barrier, thread, delivery
    <3> QED
      BY <1>2, <3>1 DEF QuietInv, Quiet, Over
  <2> QED
    BY <2>1, <2>2, <2>3, <2>4, <2>5, <2>6 DEF Next, ThreadStep
<1> QED
  BY <1>1, <1>2 DEF QuietInv

-----------------------------------------------------------------------------
(* Where the frames are.                                                   *)

\* The steps that move frames, in what they leave alone.
LEMMA FramesStay ==
    ASSUME Start \/ FinishRestart \/ Stop \/ BeginRestart \/ Retain \/ Tick \/ Demote
           \/ Barrier \/ Answer
           \/ (\E t \in Threads : Join(t)) \/ (\E c \in Captures : JoinDelivery(c) \/ Hangup(c))
    PROVE  UNCHANGED <<slot, hand, channel, calling, python, frames>>
  BY DEF Start, FinishRestart, Launch, Stop, BeginRestart, Retain, Tick, Demote, Barrier, Answer,
         Join, JoinDelivery, Hangup, pool, delivery, thread, lease

LEMMA PublishedFrame ==
    ASSUME Typed, Calloop, Publish
    PROVE  /\ Encoder \in Threads /\ Encoder[1] = starts /\ capture = starts /\ starts \in Captures
           /\ Encoder = Last(starts) /\ Launched(Encoder) /\ slot[Encoder] = <<>>
           /\ slot'[Encoder] # <<>> /\ slot'[Encoder][1].of = starts
           /\ slot'[Encoder][1].n = frames + 1
           /\ slot'[Encoder][1].host = (IF ZeroCopy THEN retained ELSE 0)
           /\ \A t \in Threads : t # Encoder => slot'[t] = slot[t]
           /\ frames' = frames + 1
           /\ UNCHANGED <<calloop, thread, delivery>>
<1>1. capture = starts /\ starts \in Captures /\ slot[Encoder] = <<>>
  BY DEF Publish, Running, Calloop, Typed, CalloopTyped, Captures
<1>2. Encoder \in Threads /\ Encoder[1] = starts
  BY <1>1 DEF Encoder, Threads
<1>3. Encoder = Last(starts) /\ Launched(Encoder)
  <2>1. starts # 0 /\ starts <= starts
    BY <1>1 DEF Captures, Typed, CalloopTyped
  <2>2. Launched(First(starts)) /\ (demoted <=> Launched(Demoted(starts)))
    BY <1>1, <2>1 DEF Calloop
  <2>3. Encoder = IF demoted THEN Demoted(starts) ELSE First(starts)
    BY <1>1 DEF Encoder, First, Demoted
  <2> QED
    BY <2>2, <2>3 DEF Last
<1>4. PICK f : f = [of |-> capture, n |-> frames + 1,
                    host |-> IF ZeroCopy THEN retained ELSE 0, torn |-> FALSE]
  OBVIOUS
<1>5. slot' = [slot EXCEPT ![Encoder] = <<f>>]
  BY <1>4 DEF Publish
<1> QED
  BY <1>1, <1>2, <1>3, <1>4, <1>5 DEF Publish, Typed, ThreadsTyped

LEMMA PlacedKept ==
    ASSUME Typed, Calloop, DeliveryInTurn, Placed, Next PROVE Placed'
<1>1. CASE Start \/ FinishRestart
  <2>1. UNCHANGED <<slot, hand, channel, calling, python, frames>>
        /\ \A t \in Threads : Launched(t) => Launched(t)'
    BY <1>1, LaunchedCapture DEF Launched
  <2>2. \A c \in Captures : c <= starts => since'[c] = since[c] /\ dat'[c] = dat[c]
    BY <1>1, LaunchedDelivery DEF Captures, Typed, CalloopTyped
  <2>3. starts' = starts + 1 /\ starts \in Nat /\ \A c \in Captures : c \in Nat
    BY <1>1, LaunchedCapture DEF Captures, Typed, CalloopTyped
  <2>4. \A c \in Captures : python[c] # <<>> => python[c][1].of \in Captures
    BY Boxes DEF Typed, DeliveryTyped, AnyFrame
  <2> QED
    BY <2>1, <2>2, <2>3, <2>4 DEF Placed
<1>2. CASE Publish
  <2>1. \A n \in Nat : n <= frames => n <= frames + 1
    BY DEF Typed, LeaseTyped
  <2>2. \A b \in Box : b # <<>> => b[1].n \in Nat
    BY Boxes DEF AnyFrame
  <2>3. frames' = frames + 1 /\ frames + 1 <= frames + 1
        /\ UNCHANGED <<hand, at, channel, calling, python, starts, since, dat>>
    BY <1>2, PublishedFrame DEF thread, delivery, calloop, Typed, LeaseTyped
  <2>4. \A t \in Threads :
           slot'[t] # <<>> => Launched(t)' /\ slot'[t][1].of = t[1] /\ slot'[t][1].n <= frames'
    BY <1>2, <2>1, <2>2, <2>3, PublishedFrame DEF Placed, Launched, Typed, ThreadsTyped
  <2> QED
    BY <2>1, <2>2, <2>3, <2>4 DEF Placed, Typed, ThreadsTyped, DeliveryTyped
<1>3. ASSUME NEW t \in Threads, EncodeStep(t) PROVE Placed'
  <2>1. \A o \in Threads : Launched(o) => Launched(o)'
    BY <1>3, StepMovesThread DEF Launched, Idle
  <2>2. UNCHANGED <<dat, starts, since, python, calling, frames>>
    BY <1>3 DEF EncodeStep, Join, Take, Lock, Encode, Send, calloop, delivery, lease
  <2>3. CASE Join(t) \/ Take(t) \/ Lock(t)
    <3>1. UNCHANGED channel
      BY <2>3 DEF Join, Take, Lock, delivery
    <3> QED
      BY <2>1, <2>2, <2>3, <3>1 DEF Placed, Join, Take, Lock, pool, Typed, ThreadsTyped
  <2>4. CASE Encode(t)
    <3>1. hand[t] # <<>> /\ hand[t][1] \in AnyFrame /\ Head(hand[t]) = hand[t][1]
      BY <2>4, Boxes DEF Encode, Typed, ThreadsTyped
    <3>2. hand' = [hand EXCEPT ![t] = <<Read(hand[t][1])>>] /\ UNCHANGED <<slot, channel>>
      BY <2>4, <3>1 DEF Encode, pool, delivery
    <3>3. <<Read(hand[t][1])>>[1].of = hand[t][1].of /\ <<Read(hand[t][1])>>[1].n = hand[t][1].n
      BY <3>1, ReadFrame, Boxes
    <3> QED
      BY <2>1, <2>2, <3>1, <3>2, <3>3 DEF Placed, Typed, ThreadsTyped
  <2>5. CASE Send(t)
    <3>1. t[1] \in Captures /\ t[1] <= starts /\ hand[t] # <<>>
      BY <2>5, ThreadsArePairs DEF Send, Calloop, Launched, Typed, ThreadsTyped
    <3>2. ~(starts < t[1])
      BY <3>1 DEF Captures, Typed, CalloopTyped
    <3> QED
      BY <2>1, <2>2, <2>5, <3>1, <3>2 DEF Placed, Send, pool, Typed, ThreadsTyped, DeliveryTyped
  <2> QED
    BY <1>3, <2>3, <2>4, <2>5 DEF EncodeStep
<1>4. ASSUME NEW c \in Captures, DeliverStep(c) PROVE Placed'
  <2>1. \A d \in Captures : dat[d] # "joining" => dat'[d] # "joining"
    BY <1>4, StepMovesDelivery DEF Over, Idle
  <2>2. UNCHANGED <<at, slot, hand, starts, since, frames>>
    BY <1>4 DEF DeliverStep, JoinDelivery, Receive, Call, Hangup, calloop, thread, pool, lease
  <2>3. \A d \in Captures : python[d] # <<>> => python[d][1].of \in Captures
    BY Boxes DEF Typed, DeliveryTyped, AnyFrame
  <2>4. CASE JoinDelivery(c) \/ Hangup(c)
    BY <2>1, <2>2, <2>3, <2>4 DEF Placed, JoinDelivery, Hangup, Launched
  <2>5. CASE Receive(c)
    BY <2>1, <2>2, <2>3, <2>5 DEF Placed, Receive, Launched, Typed, DeliveryTyped
  <2>6. CASE Call(c)
    <3>1. c <= starts /\ dat[c] = "receiving" /\ calling[c] # <<>> /\ dat' = dat
      BY <2>6 DEF Call, Calloop, Typed, DeliveryTyped
    <3> QED
      BY <2>1, <2>2, <2>3, <2>6, <3>1 DEF Placed, Call, Launched, Typed, DeliveryTyped
  <2> QED
    BY <1>4, <2>4, <2>5, <2>6 DEF DeliverStep
<1>5. CASE Stop \/ BeginRestart \/ Retain \/ Tick \/ Demote \/ Barrier \/ Answer
  <2>1. UNCHANGED <<slot, hand, channel, calling, python, frames>>
    BY <1>5, FramesStay
  <2>2. UNCHANGED <<dat, starts, since>>
    BY <1>5 DEF Stop, BeginRestart, Retain, Tick, Demote, Barrier, Answer, delivery, calloop
  <2>3. \A t \in Threads : Launched(t) => Launched(t)'
    <3>1. CASE Demote
      BY <3>1, DemotedThread DEF Launched
    <3>2. CASE ~Demote
      BY <1>5, <3>2, OthersLeaveThreads DEF Launched
    <3> QED
      BY <3>1, <3>2
  <2> QED
    BY <2>1, <2>2, <2>3 DEF Placed
<1> QED
  BY <1>1, <1>2, <1>3, <1>4, <1>5 DEF Next, ThreadStep

-----------------------------------------------------------------------------
(* The order of the frames.                                                *)

LEMMA CarriedAreFrames ==
    ASSUME Typed, Placed, NEW c \in Captures, NEW n, Carries(c, n) PROVE n \in Nat /\ n <= frames
<1>1. \A b \in Box : \A m : Has(b, m) => m \in Nat /\ b[1].n = m /\ b # <<>>
  BY Boxes DEF Has, AnyFrame
<1>2. CASE \E t \in Threads : t[1] = c /\ (Has(slot[t], n) \/ Has(hand[t], n))
  BY <1>1, <1>2 DEF Placed, Typed, ThreadsTyped
<1>3. ASSUME NEW b, b = channel[c] \/ b = calling[c], Has(b, n) PROVE n \in Nat /\ n <= frames
  <2>1. b \in Box
    BY <1>3 DEF Typed, DeliveryTyped
  <2>2. n \in Nat /\ b[1].n = n /\ b # <<>>
    BY <1>1, <1>3, <2>1
  <2> QED
    BY <1>3, <2>2 DEF Placed
<1>4. CASE \E g \in Captures : Has(python[g], n) /\ python[g][1].of = c
  BY <1>1, <1>4 DEF Placed, Typed, DeliveryTyped
<1> QED
  BY <1>2, <1>3, <1>4 DEF Carries

LEMMA InsideIsCarried == \A c, n : Inside(c, n) => Carries(c, n)
  BY DEF Inside, Carries

\* The frames of a capture are the same ones after every step, or fewer.
LEMMA NoFrameComesBack ==
    ASSUME Typed, Calloop, Placed, Next, ~Publish
    PROVE  \A c \in Captures : \A n \in Nat : /\ Carries(c, n)' => Carries(c, n)
                                              /\ Inside(c, n)' => Inside(c, n)
<1>1. \A t \in Threads : at[t] = "ended" => at'[t] = "ended"
  <2>1. CASE Start \/ FinishRestart
    BY <2>1, LaunchedCapture
  <2>2. CASE Demote
    BY <2>2, DemotedThread
  <2>3. CASE \E t \in Threads : EncodeStep(t)
    BY <2>3, StepMovesThread DEF Idle
  <2> QED
    BY <2>1, <2>2, <2>3, OthersLeaveThreads DEF Next, ThreadStep
<1>2. ASSUME NEW t \in Threads, EncodeStep(t) /\ ~Join(t)
      PROVE  \A c \in Captures : \A n \in Nat : /\ Carries(c, n)' => Carries(c, n)
                                                /\ Inside(c, n)' => Inside(c, n)
  <2>1. UNCHANGED <<python, calling>> /\ t[1] \in Captures
    BY <1>2, ThreadsArePairs DEF EncodeStep, Take, Lock, Encode, Send, delivery
  <2>2. /\ \A o \in Threads : o # t => slot'[o] = slot[o] /\ hand'[o] = hand[o]
        /\ \A n : /\ Has(slot'[t], n) => Has(slot[t], n)
                  /\ Has(hand'[t], n) => Has(slot[t], n) \/ Has(hand[t], n)
        /\ at[t] # "ended"
        /\ \A c \in Captures : channel'[c] = channel[c] \/ (c = t[1] /\ channel'[c] = hand[t])
    <3>1. CASE Take(t)
      BY <3>1 DEF Take, delivery, Has, Typed, ThreadsTyped
    <3>2. CASE Lock(t)
      BY <3>2 DEF Lock, pool, delivery, Has, Typed, ThreadsTyped
    <3>3. CASE Encode(t)
      <4>1. hand[t] # <<>> /\ hand[t][1] \in AnyFrame /\ Head(hand[t]) = hand[t][1]
        BY <3>3, Boxes DEF Encode, Typed, ThreadsTyped
      <4>2. hand' = [hand EXCEPT ![t] = <<Read(hand[t][1])>>] /\ UNCHANGED <<slot, channel>>
            /\ at[t] = "encoding"
        BY <3>3, <4>1 DEF Encode, pool, delivery
      <4>3. <<Read(hand[t][1])>>[1].n = hand[t][1].n
        BY <4>1, ReadFrame, Boxes
      <4> QED
        BY <4>1, <4>2, <4>3 DEF Has, Typed, ThreadsTyped
    <3>4. CASE Send(t)
      BY <3>4 DEF Send, pool, Has, Typed, ThreadsTyped, DeliveryTyped
    <3> QED
      BY <1>2, <3>1, <3>2, <3>3, <3>4 DEF EncodeStep
  <2>3. \A n : Has(hand'[t], n) \/ Has(slot'[t], n) => Has(slot[t], n) \/ Has(hand[t], n)
    BY <2>2
  <2>4. \A c \in Captures : \A n \in Nat : Inside(c, n)' => Inside(c, n)
    BY <1>1, <2>2, <2>3 DEF Inside
  <2>5. \A c \in Captures : \A n \in Nat : Carries(c, n)' => Carries(c, n)
    BY <2>1, <2>2, <2>3 DEF Carries
  <2> QED
    BY <2>4, <2>5
<1>3. ASSUME NEW c \in Captures, Receive(c) \/ Call(c)
      PROVE  \A d \in Captures : \A n \in Nat : /\ Carries(d, n)' => Carries(d, n)
                                                /\ Inside(d, n)' => Inside(d, n)
  <2>1. UNCHANGED <<at, slot, hand>>
    BY <1>3 DEF Receive, Call, thread, pool
  <2>2. CASE Receive(c)
    <3>1. /\ UNCHANGED python
          /\ \A d \in Captures : /\ channel'[d] = <<>> \/ channel'[d] = channel[d]
                                 /\ calling'[d] \in {<<>>, calling[d], channel[d]}
      BY <2>2 DEF Receive, Typed, DeliveryTyped
    <3> QED
      BY <2>1, <3>1 DEF Inside, Carries, Has
  <2>3. CASE Call(c)
    <3>1. /\ UNCHANGED channel
          /\ \A d \in Captures : /\ calling'[d] \in {<<>>, calling[d]}
                                 /\ python'[d] \in {python[d], calling[c]}
      BY <2>3 DEF Call, Typed, DeliveryTyped
    <3>2. calling[c] # <<>> => calling[c][1].of = c
      BY DEF Placed
    <3> QED
      BY <2>1, <3>1, <3>2 DEF Inside, Carries, Has
  <2> QED
    BY <1>3, <2>2, <2>3
<1>4. CASE UNCHANGED <<slot, hand, channel, calling, python>>
  BY <1>1, <1>4 DEF Inside, Carries
<1> QED
  BY <1>2, <1>3, <1>4, FramesStay DEF Next, ThreadStep, EncodeStep, DeliverStep

\* Publishing adds the newest frame to the newest capture.
LEMMA PublishedCarries ==
    ASSUME Typed, Calloop, Placed, Publish
    PROVE  /\ \A c \in Captures : \A n \in Nat :
                 /\ Carries(c, n)' => Carries(c, n) \/ (c = starts /\ n = frames + 1)
                 /\ Inside(c, n)' => Inside(c, n) \/ (c = starts /\ n = frames + 1)
           /\ \A c \in Captures : \A n \in Nat : Carries(c, n) => n < frames + 1 /\ c <= starts
<1>1. UNCHANGED <<at, hand, channel, calling, python>>
  BY PublishedFrame DEF thread, delivery
<1>2. \A t \in Threads : \A n : Has(slot'[t], n) =>
          Has(slot[t], n) \/ (t[1] = starts /\ n = frames + 1)
  BY PublishedFrame DEF Has
<1>3. \A c \in Captures : \A n \in Nat :
          /\ Carries(c, n)' => Carries(c, n) \/ (c = starts /\ n = frames + 1)
          /\ Inside(c, n)' => Inside(c, n) \/ (c = starts /\ n = frames + 1)
  BY <1>1, <1>2 DEF Carries, Inside
<1>4. ASSUME NEW c \in Captures, NEW n \in Nat, Carries(c, n) PROVE n < frames + 1 /\ c <= starts
  <2>1. n <= frames /\ frames \in Nat
    BY <1>4, CarriedAreFrames DEF Typed, LeaseTyped
  <2>5. \A t \in Threads : hand[t] # <<>> => Launched(t)
    BY DEF Launched, Typed, ThreadsTyped
  <2>6. \A t \in Threads : slot[t] # <<>> => Launched(t)
    BY DEF Placed
  <2>7. \A t \in Threads : Launched(t) => t[1] <= starts
    BY ThreadsArePairs DEF Calloop
  <2>2. \A t \in Threads : t[1] = c /\ (slot[t] # <<>> \/ hand[t] # <<>>) => c <= starts
    BY <2>5, <2>6, <2>7
  <2>3. calling[c] # <<>> => c <= starts
    BY DEF Calloop, Typed, DeliveryTyped
  <2>4. channel[c] # <<>> => c <= starts
    BY DEF Placed, Captures, Typed, CalloopTyped
  <2> QED
    BY <1>4, <2>1, <2>2, <2>3, <2>4 DEF Carries, Has, Placed
<1> QED
  BY <1>3, <1>4

LEMMA CapturesOrderedKept ==
    ASSUME Typed, Calloop, Placed, CapturesOrdered, Next PROVE CapturesOrdered'
<1>1. CASE Publish
  <2> SUFFICES ASSUME NEW c \in Captures, NEW d \in Captures, NEW m \in Nat, NEW n \in Nat,
                      c < d, Carries(c, m)', Carries(d, n)'
               PROVE  m < n
    BY DEF CapturesOrdered
  <2>1. Carries(c, m) \/ (c = starts /\ m = frames + 1)
    BY <1>1, PublishedCarries
  <2>2. Carries(d, n) \/ (d = starts /\ n = frames + 1)
    BY <1>1, PublishedCarries
  <2>3. d <= starts /\ ~(c = starts)
    BY <1>1, <2>2, PublishedCarries DEF Captures, Typed, CalloopTyped
  <2> QED
    BY <1>1, <2>1, <2>2, <2>3, PublishedCarries DEF CapturesOrdered
<1>2. CASE ~Publish
  <2>1. \A c \in Captures : \A n \in Nat : Carries(c, n)' => Carries(c, n)
    BY <1>2, NoFrameComesBack
  <2> QED
    BY <2>1 DEF CapturesOrdered
<1> QED
  BY <1>1, <1>2

\* No frame is in one encode thread's hand while the other of its capture has one.
LEMMA OneEncodesAtATime ==
    ASSUME Typed, PredecessorsEnded, NEW t \in Threads, NEW u \in Threads, t[1] = u[1],
           at[t] \notin {"none", "joining"}, t # u, u[2] = "first"
    PROVE  at[u] = "ended" /\ t = Demoted(t[1])
<1>1. u = First(u[1])
  BY ThreadsArePairs
<1>2. t = Demoted(u[1])
  BY <1>1, ThreadsArePairs
<1> QED
  BY <1>1, <1>2, ThreadsArePairs DEF PredecessorsEnded

LEMMA ThreadsOrderedKept ==
    ASSUME Typed, Calloop, PredecessorsEnded, Placed, ThreadsOrdered, Next PROVE ThreadsOrdered'
<1>1. CASE Publish
  <2> SUFFICES ASSUME NEW t \in Threads, NEW u \in Threads, NEW m \in Nat, NEW n \in Nat,
                      t[1] = u[1], at'[t] # "ended", at'[u] # "ended", Has(slot'[u], n)
               PROVE  /\ Has(hand'[t], m) => m < n
                      /\ Has(slot'[t], m) /\ t[2] = "first" /\ u[2] = "demoted" => m < n
    BY DEF ThreadsOrdered
  <2>1. UNCHANGED <<at, hand>>
    BY <1>1, PublishedFrame DEF thread
  <2>2. CASE u = Encoder
    <3>1. n = frames + 1
      BY <1>1, <2>2, PublishedFrame DEF Has
    <3>2. ASSUME Has(hand[t], m) \/ Has(slot[t], m) PROVE m < n
      <4>1. Carries(t[1], m) /\ t[1] \in Captures
        BY <3>2, ThreadsArePairs DEF Carries
      <4> QED
        BY <1>1, <3>1, <4>1, PublishedCarries
    <3>3. t # u => slot'[t] = slot[t]
      BY <1>1, <2>2, PublishedFrame
    <3> QED
      BY <2>1, <3>2, <3>3
  <2>3. CASE u # Encoder
    <3>1. Has(slot[u], n) /\ Launched(u)
      BY <1>1, <2>3, PublishedFrame DEF Has, Placed
    <3>2. t[2] = "first" /\ u[2] = "demoted" => t # Encoder
      BY <1>1, <3>1, PublishedFrame, ThreadsArePairs DEF Last
    <3> QED
      BY <1>1, <2>1, <3>1, <3>2, PublishedFrame DEF ThreadsOrdered
  <2> QED
    BY <2>2, <2>3
<1>2. ASSUME NEW s \in Threads, EncodeStep(s) PROVE ThreadsOrdered'
  <2>1. \A o \in Threads : at[o] = "ended" => at'[o] = "ended"
    BY <1>2, StepMovesThread DEF Idle
  <2>2. CASE Take(s)
    <3>1. /\ slot'[s] = <<>> /\ hand'[s] = slot[s] /\ at[s] = "taking"
          /\ \A o \in Threads : o # s => slot'[o] = slot[o] /\ hand'[o] = hand[o]
      BY <2>2 DEF Take, Typed, ThreadsTyped
    <3> SUFFICES ASSUME NEW t \in Threads, NEW u \in Threads, NEW m \in Nat, NEW n \in Nat,
                        t[1] = u[1], at'[t] # "ended", at'[u] # "ended", Has(slot'[u], n)
                 PROVE  /\ Has(hand'[t], m) => m < n
                        /\ Has(slot'[t], m) /\ t[2] = "first" /\ u[2] = "demoted" => m < n
      BY DEF ThreadsOrdered
    <3>2. at[t] # "ended" /\ at[u] # "ended" /\ u # s /\ Has(slot[u], n)
      BY <2>1, <3>1 DEF Has
    <3>3. CASE t # s
      BY <3>1, <3>2, <3>3 DEF ThreadsOrdered
    <3>4. CASE t = s
      <4>1. u[2] # "first"
        BY <3>1, <3>2, <3>4, OneEncodesAtATime
      <4>2. t[2] = "first" /\ u[2] = "demoted"
        BY <3>2, <3>4, <4>1, ThreadsArePairs
      <4> QED
        BY <3>1, <3>2, <3>4, <4>2 DEF ThreadsOrdered, Has
    <3> QED
      BY <3>3, <3>4
  <2>3. CASE Encode(s)
    <3>1. hand[s] # <<>> /\ hand[s][1] \in AnyFrame /\ Head(hand[s]) = hand[s][1]
      BY <2>3, Boxes DEF Encode, Typed, ThreadsTyped
    <3>2. hand' = [hand EXCEPT ![s] = <<Read(hand[s][1])>>] /\ UNCHANGED slot
      BY <2>3, <3>1 DEF Encode, pool
    <3>3. <<Read(hand[s][1])>>[1].n = hand[s][1].n
      BY <3>1, ReadFrame, Boxes
    <3>4. \A t \in Threads : \A m : Has(hand'[t], m) => Has(hand[t], m)
      BY <3>1, <3>2, <3>3 DEF Has, Typed, ThreadsTyped
    <3> QED
      BY <2>1, <3>2, <3>4 DEF ThreadsOrdered
  <2>4. CASE Join(s) \/ Lock(s) \/ Send(s)
    <3>1. slot' = slot /\ \A t \in Threads : hand'[t] = <<>> \/ hand'[t] = hand[t]
      BY <2>4 DEF Join, Lock, Send, pool, Typed, ThreadsTyped
    <3> QED
      BY <2>1, <3>1 DEF ThreadsOrdered, Has
  <2> QED
    BY <1>2, <2>2, <2>3, <2>4 DEF EncodeStep
<1>3. CASE UNCHANGED <<slot, hand>> /\ \A o \in Threads : at[o] = "ended" => at'[o] = "ended"
  BY <1>3 DEF ThreadsOrdered
<1>4. CASE Start \/ FinishRestart
  BY <1>3, <1>4, LaunchedCapture
<1>5. CASE Demote
  BY <1>3, <1>5, DemotedThread, FramesStay
<1>6. CASE Stop \/ BeginRestart \/ Retain \/ Tick \/ Barrier \/ Answer \/ \E c \in Captures : DeliverStep(c)
  <2>1. UNCHANGED <<slot, hand>>
    BY <1>6, FramesStay DEF DeliverStep, Receive, Call, thread, pool
  <2> QED
    BY <1>3, <1>6, <2>1, OthersLeaveThreads
<1> QED
  BY <1>1, <1>2, <1>4, <1>5, <1>6 DEF Next, ThreadStep

LEMMA OutOrderedKept ==
    ASSUME Typed, Calloop, PredecessorsEnded, Placed, ThreadsOrdered, OutOrdered, Next
    PROVE  OutOrdered'
<1>1. CASE Publish
  <2>1. UNCHANGED <<channel, calling, python>>
    BY <1>1, PublishedFrame DEF delivery
  <2>2. \A c \in Captures : \A n \in Nat : Inside(c, n)' => Inside(c, n) \/ (c = starts /\ n = frames + 1)
    BY <1>1, PublishedCarries
  <2>3. \A c \in Captures : \A n \in Nat :
          (\/ Has(channel[c], n) \/ Has(calling[c], n)
           \/ \E g \in Captures : Has(python[g], n) /\ python[g][1].of = c) => n < frames + 1
    BY <1>1, PublishedCarries DEF Carries
  <2> QED
    BY <2>1, <2>2, <2>3 DEF OutOrdered
<1>2. ASSUME NEW t \in Threads, Send(t) PROVE OutOrdered'
  <2>1. /\ channel'[t[1]] = hand[t] /\ hand'[t] = <<>> /\ at[t] = "sending" /\ t[1] \in Captures
        /\ \A c \in Captures : c # t[1] => channel'[c] = channel[c]
        /\ \A o \in Threads : o # t => hand'[o] = hand[o]
        /\ UNCHANGED <<slot, calling, python>>
    BY <1>2, ThreadsArePairs DEF Send, pool, Typed, ThreadsTyped, DeliveryTyped
  <2>2. \A c \in Captures : \A n \in Nat : Inside(c, n)' => Inside(c, n)
    <3>1. ~Publish
      BY <1>2 DEF Publish, Send, lease, Typed, LeaseTyped
    <3> QED
      BY <3>1, NoFrameComesBack
  <2>3. \A n \in Nat : Has(hand[t], n) => Inside(t[1], n)
    BY <2>1 DEF Inside
  <2>4. ASSUME NEW m \in Nat, NEW n \in Nat, Has(hand[t], m), Inside(t[1], n)' PROVE m < n
    <3>1. PICK u \in Threads : u[1] = t[1] /\ at'[u] # "ended" /\ (Has(slot'[u], n) \/ Has(hand'[u], n))
      BY <2>4 DEF Inside
    <3>2. at[u] # "ended"
      BY <1>2, <3>1, StepMovesThread DEF Idle, EncodeStep
    <3>3. CASE Has(slot'[u], n)
      BY <2>1, <2>4, <3>1, <3>2, <3>3 DEF ThreadsOrdered
    <3>4. CASE Has(hand'[u], n)
      <4>1. u # t /\ hand[u] # <<>>
        BY <2>1, <3>4 DEF Has
      <4>2. at[u] \notin {"none", "joining"}
        BY <4>1 DEF Typed, ThreadsTyped
      <4>3. t[2] = "first" \/ u[2] = "first"
        BY <3>1, <4>1, ThreadsArePairs
      <4> QED
        BY <2>1, <3>1, <3>2, <4>1, <4>2, <4>3, OneEncodesAtATime
    <3> QED
      BY <3>1, <3>3, <3>4
  <2> SUFFICES ASSUME NEW c \in Captures, NEW m \in Nat, NEW n \in Nat
               PROVE  /\ Has(channel'[c], m) /\ Inside(c, n)' => m < n
                      /\ Has(calling'[c], m) /\ (Inside(c, n)' \/ Has(channel'[c], n)) => m < n
                      /\ (\E g \in Captures : Has(python'[g], m) /\ python'[g][1].of = c)
                         /\ (Inside(c, n)' \/ Has(channel'[c], n) \/ Has(calling'[c], n)) => m < n
    BY DEF OutOrdered
  <2>5. Has(channel'[c], n) => Has(channel[c], n) \/ Inside(c, n)
    BY <2>1, <2>3
  <2>6. Has(channel'[c], m) /\ Inside(c, n)' => m < n
    BY <2>1, <2>2, <2>4 DEF OutOrdered
  <2> QED
    BY <2>1, <2>2, <2>5, <2>6 DEF OutOrdered
<1>3. ASSUME NEW t \in Threads, Join(t) \/ Take(t) \/ Lock(t) \/ Encode(t) PROVE OutOrdered'
  <2>1. UNCHANGED <<channel, calling, python>>
    BY <1>3 DEF Join, Take, Lock, Encode, delivery
  <2>2. ~Publish
    BY <1>3 DEF Publish, Join, Take, Lock, Encode, lease, Typed, LeaseTyped
  <2>3. \A c \in Captures : \A n \in Nat : Inside(c, n)' => Inside(c, n)
    BY <2>2, NoFrameComesBack
  <2> QED
    BY <2>1, <2>3 DEF OutOrdered
<1>4. ASSUME NEW c \in Captures, Receive(c) PROVE OutOrdered'
  <2>1. /\ channel'[c] = <<>> /\ calling'[c] \in {<<>>, channel[c]}
        /\ \A d \in Captures : d # c => channel'[d] = channel[d] /\ calling'[d] = calling[d]
        /\ UNCHANGED <<at, slot, hand, python>>
    BY <1>4 DEF Receive, thread, pool, Typed, DeliveryTyped
  <2>2. \A d \in Captures : \A n \in Nat : Inside(d, n)' = Inside(d, n)
    BY <2>1 DEF Inside
  <2>3. \A n : /\ ~Has(channel'[c], n)
               /\ Has(calling'[c], n) => Has(channel[c], n)
    BY <2>1 DEF Has
  <2> QED
    BY <2>1, <2>2, <2>3 DEF OutOrdered
<1>5. ASSUME NEW c \in Captures, Call(c) PROVE OutOrdered'
  <2>1. /\ calling[c] # <<>> /\ calling'[c] = <<>> /\ calling[c][1].of = c
        /\ \A d \in Captures : d # c => calling'[d] = calling[d]
        /\ \A g \in Captures : python'[g] = python[g] \/ python'[g] = calling[c]
        /\ UNCHANGED <<at, slot, hand, channel>>
    BY <1>5 DEF Call, thread, pool, Placed, Typed, DeliveryTyped
  <2>2. \A d \in Captures : \A n \in Nat : Inside(d, n)' = Inside(d, n)
    BY <2>1 DEF Inside
  <2>3. \A d \in Captures : \A n : Has(calling'[d], n) => Has(calling[d], n) /\ d # c
    BY <2>1 DEF Has
  <2>4. \A d \in Captures : \A m \in Nat :
          (\E g \in Captures : Has(python'[g], m) /\ python'[g][1].of = d) =>
              \/ \E g \in Captures : Has(python[g], m) /\ python[g][1].of = d
              \/ d = c /\ Has(calling[c], m)
    BY <2>1
  <2> QED
    BY <2>1, <2>2, <2>3, <2>4 DEF OutOrdered
<1>6. CASE UNCHANGED <<slot, hand, channel, calling, python, frames>>
  <2>1. ~Publish
    BY <1>6 DEF Publish, Typed, LeaseTyped
  <2>2. \A c \in Captures : \A n \in Nat : Inside(c, n)' => Inside(c, n)
    BY <2>1, NoFrameComesBack
  <2> QED
    BY <1>6, <2>2 DEF OutOrdered
<1> QED
  BY <1>1, <1>2, <1>3, <1>4, <1>5, <1>6, FramesStay
     DEF Next, ThreadStep, EncodeStep, DeliverStep

\* What comes to Python is newer than what it had of the captures replaced.
LEMMA CallIsNewer ==
    ASSUME Typed, Calloop, DeliveryInTurn, Placed, Ordered, Next, NEW g \in Captures,
           python[g] # <<>>
    PROVE  python'[g] = python[g] \/ python'[g][1].n > python[g][1].n
<1>1. ASSUME NEW c \in Captures, Call(c), since[c] = g
      PROVE  python'[g][1].n > python[g][1].n
  <2>1. /\ calling[c] # <<>> /\ dat[c] = "receiving" /\ c <= starts
        /\ python'[g] = calling[c]
    BY <1>1 DEF Call, Calloop, Typed, DeliveryTyped
  <2>2. PICK m \in Nat, n \in Nat : python[g][1].n = m /\ calling[c][1].n = n
    BY <2>1, Boxes DEF Typed, DeliveryTyped, AnyFrame
  <2>3. PICK d \in Captures : python[g][1].of = d /\ d <= starts /\ since[d] = g /\ dat[d] # "joining"
    BY Boxes DEF Placed, Typed, DeliveryTyped, AnyFrame
  <2>4. Carries(c, n) /\ Carries(d, m)
    BY <2>1, <2>2, <2>3 DEF Carries, Has
  <2>5. ~(c < d)
    BY <1>1, <2>1, <2>3 DEF DeliveryInTurn
  <2>6. CASE d = c
    BY <2>1, <2>2, <2>3, <2>6 DEF Ordered, OutOrdered, Has
  <2>7. CASE d < c
    BY <2>1, <2>2, <2>4, <2>7 DEF Ordered, CapturesOrdered
  <2> QED
    BY <2>5, <2>6, <2>7 DEF Captures, Typed, CalloopTyped
<1>2. ASSUME NEW c \in Captures, Call(c), since[c] # g
      PROVE  python'[g] = python[g]
  BY <1>2 DEF Call, Typed, DeliveryTyped
<1>3. CASE UNCHANGED python
  BY <1>3
<1>4. ASSUME NEW t \in Threads, EncodeStep(t) PROVE UNCHANGED python
  BY <1>4, OthersLeaveDelivery
<1>5. CASE Publish
  BY <1>5, PublishedFrame DEF delivery
<1>6. ASSUME NEW c \in Captures, Receive(c) PROVE UNCHANGED python
  BY <1>6 DEF Receive
<1> QED
  BY <1>1, <1>2, <1>3, <1>4, <1>5, <1>6, FramesStay DEF Next, ThreadStep, DeliverStep

-----------------------------------------------------------------------------
(* The host's frames.                                                      *)

LEMMA Released ==
    ASSUME Typed, NEW lent, NEW done \in Nat, lent \subseteq Nat \X Nat, Release(lent, done),
           \A loan \in lent : 0 < loan[2] /\ loan[2] <= hosts /\ loan[2] \notin back,
           \A loan, other \in lent : loan[2] = other[2] => loan[1] = other[1],
           \A host \in back : 0 < host /\ host <= hosts
    PROVE  /\ inflight' \subseteq lent
           /\ \A loan \in lent : done < loan[1] => loan \in inflight'
           /\ \A loan \in inflight' : loan[2] \notin back'
           /\ \A host \in back' : 0 < host /\ host <= hosts
           /\ \A host : host \in back' => host \in back \/ \E loan \in lent : host = loan[2]
<1>1. /\ inflight' = lent \ {loan \in lent : loan[1] <= done}
      /\ back' = back \cup {loan[2] : loan \in {loan \in lent : loan[1] <= done}}
  BY DEF Release
<1>2. \A loan \in lent : loan[1] \in Nat /\ loan[2] \in Nat
  OBVIOUS
<1>3. \A loan \in lent : done < loan[1] => ~(loan[1] <= done)
  BY <1>2
<1>4. \A loan \in inflight' : loan[2] \notin back'
  BY <1>1
<1> QED
  BY <1>1, <1>3, <1>4

\* What is on loan for longer than what is recycled stays on loan.
LEMMA LendingKept == ASSUME Typed, Lending, Next PROVE Lending'
<1>1. CASE Stop \/ FinishRestart \/ Tick \/ Demote
  <2>1. PICK done : Release(inflight, done)
    BY <1>1 DEF Stop, FinishRestart, Tick, Demote, ReleaseAll
  <2>2. UNCHANGED <<hosts, retained>>
    BY <1>1 DEF Stop, FinishRestart, Tick, Demote
  <2>3. inflight' \subseteq inflight /\ back' = back \cup {loan[2] : loan \in inflight \ inflight'}
    BY <2>1 DEF Release
  <2>4. \A loan \in inflight : loan[1] \in Nat /\ loan[2] \in Nat /\ loan = <<loan[1], loan[2]>>
    BY DEF Typed, LeaseTyped
  <2>5. \A loan \in inflight' : loan[2] \notin back'
    BY <2>3, <2>4 DEF Lending
  <2>6. retained \in Nat /\ hosts \in Nat
    BY DEF Typed, LeaseTyped
  <2>7. retained \notin back'
    BY <2>3, <2>4, <2>6 DEF Lending
  <2>8. \A host \in back' : 0 < host /\ host <= hosts
    BY <2>3, <2>4, <2>6 DEF Lending
  <2> QED
    BY <2>2, <2>3, <2>5, <2>7, <2>8 DEF Lending
<1>2. CASE Retain
  <2> DEFINE lent == inflight \cup (IF retained = 0 THEN {} ELSE {<<Lent, retained>>})
  <2>1. Release(lent, recycled) /\ hosts' = hosts + 1 /\ retained' = hosts + 1
    BY <1>2 DEF Retain
  <2>2. retained \in Nat /\ hosts \in Nat /\ recycled \in Nat /\ Lent \in Nat
        /\ lent \subseteq Nat \X Nat
    BY DEF Lent, Typed, LeaseTyped
  <2>3. /\ \A loan \in lent : 0 < loan[2] /\ loan[2] <= hosts /\ loan[2] \notin back
        /\ \A loan, other \in lent : loan[2] = other[2] => loan[1] = other[1]
    BY <2>2 DEF Lending
  <2> HIDE DEF lent
  <2>4. /\ inflight' \subseteq lent
        /\ \A loan \in inflight' : loan[2] \notin back'
        /\ \A host \in back' : 0 < host /\ host <= hosts
    BY <2>1, <2>2, <2>3, Released DEF Lending
  <2>5. \A loan \in lent : loan[2] \in Nat
    BY <2>2
  <2>6. \A loan \in inflight' : 0 < loan[2] /\ loan[2] < hosts + 1
    BY <2>2, <2>3, <2>4, <2>5
  <2>7. back' \subseteq Nat
    BY <2>1, <2>2, ReleaseTyped DEF Typed, LeaseTyped
  <2>8. \A host \in back' : 0 < host /\ host <= hosts + 1 /\ host # hosts + 1
    BY <2>2, <2>4, <2>7
  <2> QED
    BY <2>1, <2>2, <2>3, <2>4, <2>6, <2>8 DEF Lending
<1>3. CASE Start \/ BeginRestart \/ Publish \/ Barrier \/ Answer \/ ThreadStep
  <2>1. UNCHANGED <<hosts, retained, inflight, back>>
    BY <1>3 DEF Start, BeginRestart, Publish, Barrier, Answer, ThreadStep, EncodeStep, DeliverStep,
                Join, Take, Lock, Encode, Send, JoinDelivery, Receive, Call, Hangup, lease
  <2> QED
    BY <2>1 DEF Lending
<1> QED
  BY <1>1, <1>2, <1>3 DEF Next

LEMMA TakenBefore == ASSUME Typed, Calloop, Counted, Next PROVE \A t \in Threads : taken'[t] => t[1] < starts'
<1>0. \A t \in Threads : t[1] \in Nat
  BY ThreadsArePairs DEF Captures, Typed, CalloopTyped
<1>1. CASE Start
  BY <1>0, <1>1, LaunchedCapture DEF Start, Counted
<1>2. CASE FinishRestart
  <2>1. prior[1] = starts
    BY <1>2, ThreadsArePairs DEF FinishRestart, Calloop, Last, Captures, Typed, CalloopTyped, First, Demoted
  <2>2. \A t \in Threads : taken'[t] => taken[t] \/ t = prior
    BY <1>2 DEF FinishRestart, Typed, ThreadsTyped
  <2> QED
    BY <1>0, <1>2, <2>1, <2>2, LaunchedCapture DEF Counted
<1>3. CASE ~(Start \/ FinishRestart)
  <2>1. UNCHANGED <<taken, starts>>
    BY <1>3 DEF Next, Stop, BeginRestart, Publish, Retain, Tick, Demote, Barrier, Answer, ThreadStep,
                EncodeStep, DeliverStep, Join, Take, Lock, Encode, Send, JoinDelivery, Receive,
                Call, Hangup, thread, calloop
  <2> QED
    BY <2>1 DEF Counted
<1> QED
  BY <1>1, <1>2, <1>3

\* What is still to be encoded stays on loan when the calloop hands frames back.
LEMMA BorrowedStays ==
    ASSUME Typed, Lending, NEW lent, NEW use \in Nat, NEW host \in Nat, lent \subseteq Nat \X Nat,
           Release(lent, recycled), inflight \subseteq lent, recycled < use,
           Borrowed(host, use),
           retained' = retained \/ host # retained \/ <<retainedUse, retained>> \in lent,
           retained' = retained => retainedUse' = retainedUse
    PROVE  Borrowed(host, use)'
<1>1. recycled \in Nat /\ retainedUse \in Nat
  BY DEF Typed, LeaseTyped
<1>2. \A loan \in lent : loan[1] \in Nat /\ (recycled < loan[1] => loan \in inflight')
  BY <1>1 DEF Release
<1>3. CASE host = retained /\ use <= retainedUse
  <2>1. CASE retained' = retained
    BY <1>3, <2>1 DEF Borrowed
  <2>2. CASE <<retainedUse, retained>> \in lent
    <3>1. <<retainedUse, retained>> \in inflight'
      BY <1>1, <1>2, <1>3, <2>2
    <3> QED
      BY <1>3, <3>1 DEF Borrowed
  <2> QED
    BY <1>3, <2>1, <2>2
<1>4. ASSUME NEW loan \in inflight, loan[2] = host, use <= loan[1] PROVE Borrowed(host, use)'
  <2>1. loan \in inflight'
    BY <1>1, <1>2, <1>4
  <2> QED
    BY <1>4, <2>1 DEF Borrowed
<1> QED
  BY <1>3, <1>4 DEF Borrowed

LEMMA CountingUses ==
    ASSUME Typed, NEW t \in Threads, CountsRight(t)
    PROVE  /\ published \in Nat /\ recycled \in Nat /\ retainedUse \in Nat
           /\ slot[t] # <<>> => recycled < published /\ slot[t][1].host \in Nat
           /\ Held(t) => hand[t][1].host \in Nat /\ hand[t] # <<>>
<1>1. \A b \in Box : b # <<>> => b[1].host \in Nat
  BY Boxes DEF AnyFrame
<1>2. Held(t) => hand[t] # <<>>
  BY DEF Held, Typed, ThreadsTyped
<1>3. slot[t] \in Box /\ hand[t] \in Box /\ published \in Nat /\ recycled \in Nat /\ retainedUse \in Nat
  BY DEF Typed, ThreadsTyped, LeaseTyped
<1>4. slot[t] # <<>> => recycled < published
  BY <1>3 DEF CountsRight
<1> QED
  BY <1>1, <1>2, <1>3, <1>4

LEMMA CountsRightKept ==
    ASSUME Typed, Calloop, Placed, Lending, Counted, Next, Counting', NEW t \in Threads,
           t = First(starts')
    PROVE  CountsRight(t)'
<1>1. CASE Start \/ FinishRestart
  <2>1. PICK e \in Captures : e = starts + 1
    BY <1>1, LaunchedCapture
  <2>2. t = First(e) /\ at[t] = "none" /\ at'[t] \in {"taking", "joining"} /\ UNCHANGED <<slot, hand>>
    BY <1>1, <2>1, LaunchedCapture
  <2>3. slot[t] = <<>>
    BY <2>2 DEF Placed, Launched
  <2>4. published' = 0 /\ recycled' = 0 /\ retainedUse' = 0
    BY <1>1 DEF Start, FinishRestart, Launch
  <2>5. ~Held(t)'
    BY <2>2 DEF Held
  <2> QED
    BY <2>2, <2>3, <2>4, <2>5 DEF CountsRight
<1>2. CASE Stop \/ BeginRestart \/ Barrier \/ Answer
  <2>1. capture' = 0
    BY <1>2 DEF Stop, BeginRestart, Teardown, Barrier, Answer, Calloop, Typed, CalloopTyped
  <2> QED
    BY <2>1 DEF Counting
<1>3. CASE Demote
  BY <1>3, DemotedThread DEF Counting, Launched
<1>4. ASSUME Publish \/ Retain \/ Tick \/ ThreadStep
      PROVE  UNCHANGED <<capture, starts, zero, taken>> /\ Counting /\ CountsRight(t) /\ t = First(starts)
             /\ ~taken[t] /\ t[1] = starts /\ capture = starts /\ starts \in Captures
  <2>1. UNCHANGED <<capture, starts, zero, taken>>
    BY <1>4 DEF Next, Publish, Retain, Tick, ThreadStep, EncodeStep, DeliverStep, Join, Take, Lock,
                Encode, Send, JoinDelivery, Receive, Call, Hangup, thread, calloop
  <2>2. \A o \in Threads : Launched(o) => Launched(o)'
    BY <1>4, StepMovesThread, OthersLeaveThreads DEF Next, ThreadStep, Launched
  <2>3. capture # 0 /\ starts \in Captures /\ capture = starts
    BY <2>1 DEF Counting, Calloop, Typed, CalloopTyped, Captures
  <2>4. Counting
    BY <2>1, <2>2, <2>3, ThreadsArePairs DEF Counting
  <2>5. t = First(starts) /\ CountsRight(t)
    BY <2>1, <2>4 DEF Counted
  <2>6. t[1] = starts
    BY <2>3, <2>5, ThreadsArePairs
  <2>7. ~taken[t]
    BY <2>3, <2>6 DEF Counted, Captures, Typed, CalloopTyped
  <2> QED
    BY <2>1, <2>3, <2>4, <2>5, <2>6, <2>7
<1>5. CASE Publish
  <2>0. CountsRight(t) /\ ~Launched(Demoted(starts)) /\ zero[starts] /\ t = First(starts)
    BY <1>4, <1>5 DEF Counting
  <2>1. Encoder = t /\ ZeroCopy
    <3>1. starts # 0 /\ capture = starts
      BY <1>5, PublishedFrame DEF Captures, Typed, CalloopTyped
    <3> QED
      BY <1>5, <2>0, <3>1, PublishedFrame DEF Last, ZeroCopy, Calloop
  <2>2. /\ slot[t] = <<>> /\ slot'[t] # <<>> /\ slot'[t][1].host = retained
        /\ UNCHANGED <<at, hand, retained, inflight, recycled>>
        /\ published' = published + 1
        /\ retainedUse' = IF retained # 0 THEN published + 1 ELSE retainedUse
    BY <1>5, <2>1, PublishedFrame DEF Publish, thread
  <2>3. published \in Nat /\ recycled \in Nat /\ retainedUse \in Nat
    BY DEF Typed, LeaseTyped
  <2>4. retainedUse' <= published' /\ retainedUse <= retainedUse'
    BY <2>0, <2>2, <2>3 DEF CountsRight
  <2>8. Held(t)' = Held(t)
    BY <2>2 DEF Held
  <2>9. published = recycled + (IF Held(t) THEN 1 ELSE 0)
    BY <2>0, <2>2, <2>3 DEF CountsRight
  <2>5. published' = recycled' + (IF slot'[t] = <<>> THEN 0 ELSE 1) + (IF Held(t)' THEN 1 ELSE 0)
    BY <2>2, <2>3, <2>8, <2>9
  <2>6. \A host, use : host # 0 /\ host = retained /\ use = published + 1 => Borrowed(host, use)'
    BY <2>2, <2>3 DEF Borrowed
  <2>10. slot'[t] # <<>> /\ slot'[t][1].host # 0 => Borrowed(slot[t][1].host, published)'
    BY <2>2, <2>6
  <2>7. ASSUME Held(t), hand[t][1].host # 0 PROVE Borrowed(hand[t][1].host, recycled + 1)'
    <3>1. Borrowed(hand[t][1].host, recycled + 1)
      BY <2>0, <2>7 DEF CountsRight
    <3>2. recycled + 1 <= retainedUse => recycled + 1 <= retainedUse'
      BY <2>2, <2>3, <2>4
    <3> QED
      BY <2>2, <3>1, <3>2 DEF Borrowed
  <2> QED
    BY <2>2, <2>4, <2>5, <2>7, <2>8, <2>10 DEF CountsRight
<1>6. CASE Retain \/ Tick
  <2>0. CountsRight(t)
    BY <1>4, <1>6
  <2>1. UNCHANGED <<at, hand, slot, published, recycled>>
    BY <1>6 DEF Retain, Tick, thread, pool
  <2>2. PICK lent : /\ Release(lent, recycled) /\ inflight \subseteq lent /\ lent \subseteq Nat \X Nat
                    /\ \/ UNCHANGED <<retained, retainedUse>>
                       \/ /\ retained' = hosts + 1 /\ retainedUse' = 0
                          /\ retained # 0 => <<retainedUse, retained>> \in lent
    BY <1>6 DEF Retain, Tick, Lent, Typed, LeaseTyped
  <2>3. retained <= hosts /\ retained \in Nat /\ hosts \in Nat
    BY DEF Lending, Typed, LeaseTyped
  <2>4. ASSUME NEW host \in Nat, NEW use \in Nat, host # 0, recycled < use, Borrowed(host, use)
        PROVE  Borrowed(host, use)'
    <3>1. retained' = retained => retainedUse' = retainedUse
      BY <2>2, <2>3
    <3>2. retained' = retained \/ host # retained \/ <<retainedUse, retained>> \in lent
      BY <2>2, <2>4
    <3> QED
      BY <2>2, <2>4, <3>1, <3>2, BorrowedStays
  <2>5. retainedUse' <= published'
    BY <2>0, <2>1, <2>2, CountingUses DEF CountsRight
  <2>6. \A host, use : slot[t] # <<>> /\ host # 0 /\ host = slot[t][1].host /\ use = published
                       => Borrowed(host, use)'
    BY <2>0, <2>4, CountingUses DEF CountsRight
  <2>7. \A host, use : Held(t) /\ host # 0 /\ host = hand[t][1].host /\ use = recycled + 1
                       => Borrowed(host, use)'
    <3>1. recycled < recycled + 1 /\ recycled + 1 \in Nat
      BY <2>0, CountingUses
    <3> QED
      BY <2>0, <2>4, <3>1, CountingUses DEF CountsRight
  <2>8. Held(t)' = Held(t)
    BY <2>1 DEF Held
  <2>9. slot'[t] # <<>> /\ slot'[t][1].host # 0 => Borrowed(slot[t][1].host, published)'
    BY <2>1, <2>6
  <2>10. Held(t)' /\ hand'[t][1].host # 0 => Borrowed(hand[t][1].host, recycled + 1)'
    BY <2>1, <2>7, <2>8
  <2>11. published' = recycled' + (IF slot'[t] = <<>> THEN 0 ELSE 1) + (IF Held(t)' THEN 1 ELSE 0)
    BY <2>0, <2>1, <2>8 DEF CountsRight
  <2> QED
    BY <2>5, <2>9, <2>10, <2>11 DEF CountsRight
<1>7. CASE \E c \in Captures : DeliverStep(c)
  <2>1. UNCHANGED <<at, hand, slot, published, recycled, retained, retainedUse, inflight>>
    BY <1>7 DEF DeliverStep, JoinDelivery, Receive, Call, Hangup, thread, pool, lease
  <2>2. CountsRight(t)
    BY <1>4, <1>7 DEF ThreadStep
  <2> QED
    BY <2>1, <2>2 DEF CountsRight, Held, Borrowed
<1>8. ASSUME NEW u \in Threads, EncodeStep(u) PROVE CountsRight(t)'
  <2>0. CountsRight(t) /\ ~Launched(Demoted(starts)) /\ t = First(starts) /\ ~taken[t] /\ capture = t[1]
    BY <1>4, <1>8 DEF ThreadStep, Counting
  <2>1. UNCHANGED <<published, retained, retainedUse, inflight>>
    BY <1>8 DEF EncodeStep, Join, Take, Lock, Encode, Send, lease
  <2>2. CASE u # t
    <3>1. u[1] # starts
      <4>1. u # Demoted(starts)
        BY <1>8, <2>0, StepMovesThread DEF Launched, Idle
      <4> QED
        BY <2>0, <2>2, <4>1, ThreadsArePairs
    <3>2. UNCHANGED recycled /\ at'[t] = at[t] /\ slot'[t] = slot[t] /\ hand'[t] = hand[t]
      BY <1>4, <1>8, <2>2, <3>1
         DEF EncodeStep, Join, Take, Lock, Encode, Send, To, pool, ThreadStep, Typed, ThreadsTyped
    <3> QED
      BY <2>0, <2>1, <3>2 DEF CountsRight, Held, Borrowed
  <2>3. CASE u = t /\ (Join(t) \/ Send(t) \/ Lock(t))
    <3>1. UNCHANGED <<recycled, slot>> /\ Held(t)' = Held(t) /\ (Held(t) => hand'[t] = hand[t])
      BY <2>0, <2>3 DEF Join, Send, Lock, To, Held, pool, Typed, ThreadsTyped
    <3> QED
      BY <2>0, <2>1, <3>1 DEF CountsRight, Borrowed
  <2>4. CASE u = t /\ Take(t)
    <3>1. /\ UNCHANGED recycled /\ ~Held(t) /\ slot'[t] = <<>> /\ hand'[t] = slot[t]
          /\ Held(t)' <=> slot[t] # <<>>
      BY <2>4 DEF Take, To, Held, Typed, ThreadsTyped
    <3>2. slot[t] # <<>> => published = recycled + 1
      BY <2>0, <3>1, CountingUses DEF CountsRight
    <3>3. published = recycled + (IF slot[t] = <<>> THEN 0 ELSE 1)
      BY <2>0, <3>1, CountingUses DEF CountsRight
    <3>4. published' = recycled' + (IF Held(t)' THEN 1 ELSE 0)
      BY <2>1, <3>1, <3>3
    <3>5. slot[t] # <<>> /\ slot[t][1].host # 0 => Borrowed(slot[t][1].host, recycled + 1)
      BY <2>0, <3>2 DEF CountsRight
    <3>6. published' = recycled' + (IF slot'[t] = <<>> THEN 0 ELSE 1) + (IF Held(t)' THEN 1 ELSE 0)
      BY <3>1, <3>4, CountingUses, <2>0
    <3> QED
      BY <2>0, <2>1, <3>1, <3>5, <3>6 DEF CountsRight, Borrowed
  <2>5. CASE u = t /\ Encode(t)
    <3>1. recycled' = recycled + 1 /\ Held(t) /\ ~Held(t)' /\ UNCHANGED slot
      BY <2>0, <2>5 DEF Encode, To, Held, pool, Typed, ThreadsTyped
    <3>3. published = recycled + (IF slot[t] = <<>> THEN 0 ELSE 1) + 1
      BY <2>0, <3>1 DEF CountsRight
    <3>2. published' = recycled' + (IF slot'[t] = <<>> THEN 0 ELSE 1) + (IF Held(t)' THEN 1 ELSE 0)
      BY <2>0, <2>1, <3>1, <3>3, CountingUses
    <3> QED
      BY <2>0, <2>1, <3>1, <3>2 DEF CountsRight, Borrowed
  <2> QED
    BY <1>8, <2>2, <2>3, <2>4, <2>5 DEF EncodeStep
<1> QED
  BY <1>1, <1>2, <1>3, <1>5, <1>6, <1>7, <1>8 DEF Next, ThreadStep

LEMMA CountedKept == ASSUME Typed, Calloop, Placed, Lending, Counted, Next PROVE Counted'
  BY TakenBefore, CountsRightKept DEF Counted

\* What a frame is read from while it is on loan has not gone back.
LEMMA TornIsExcused ==
    ASSUME Typed, Calloop, Lending, Counted, Untorn, NEW t \in Threads, Encode(t),
           hand[t] # <<>>, hand[t][1].host \in back
    PROVE  Excused(t[1])
<1>0. PICK c \in Captures : c = t[1]
  BY ThreadsArePairs
<1>1. Launched(t) /\ Held(t)
  BY DEF Encode, Launched, Held
<1>2. hand[t][1].host # 0
  BY DEF Lending
<1> SUFFICES ASSUME ~Excused(c) PROVE FALSE
  BY <1>0
<1>3. t = First(c)
  BY <1>0, <1>1, ThreadsArePairs DEF Excused
<1>4. c = capture /\ capture = starts /\ c # 0
  BY <1>1, <1>3 DEF Excused, Calloop, Captures, Typed, CalloopTyped
<1>5. zero[c]
  BY <1>2, <1>3 DEF Untorn
<1>6. CountsRight(t)
  BY <1>3, <1>4, <1>5 DEF Counted, Counting, Excused
<1>7. Borrowed(hand[t][1].host, recycled + 1)
  BY <1>1, <1>2, <1>6 DEF CountsRight
<1> QED
  BY <1>7 DEF Borrowed, Lending

LEMMA UntornKept ==
    ASSUME Typed, Calloop, DeliveryInTurn, Placed, Lending, Counted, Untorn, Next PROVE Untorn'
<1>1. CASE Start \/ FinishRestart
  <2>1. PICK e \in Captures : e = starts + 1
    BY <1>1, LaunchedCapture
  <2>2. /\ UNCHANGED <<slot, hand, discard, channel, calling, python>>
        /\ at[First(e)] = "none" /\ at'[First(e)] \in {"joining", "taking"}
        /\ \A t \in Threads : t # First(e) => at'[t] = at[t]
    BY <1>1, <2>1, LaunchedCapture
  <2>3. slot[First(e)] = <<>>
    BY <2>2, ThreadsArePairs DEF Placed, Launched
  <2>4. \A t \in Threads : hand[t] # <<>> => at[t] # "none"
    BY DEF Typed, ThreadsTyped
  <2>5. hand[First(e)] = <<>>
    BY <2>2, <2>4, ThreadsArePairs
  <2>6. \A c \in Captures : c # e => zero'[c] = zero[c]
    BY <1>1, <2>1 DEF Start, FinishRestart, Launch, Typed, CalloopTyped
  <2>7. \A c \in Captures : Launched(Demoted(c)) => Launched(Demoted(c))'
    BY <2>2, ThreadsArePairs DEF Launched
  <2>8. \A c \in Captures : Excused(c) => Excused(c)'
    BY <2>2, <2>7 DEF Excused
  <2>9. \A t \in Threads : at'[t] = "sending" => at[t] = "sending" /\ t[1] \in Captures
    BY <2>2, ThreadsArePairs
  <2>10. \A c \in Captures : python[c] # <<>> => python[c][1].of \in Captures
    BY Boxes DEF Typed, DeliveryTyped, AnyFrame
  <2>11. /\ \A c \in Captures :
            ~zero'[c] => /\ slot'[First(c)] # <<>> => slot'[First(c)][1].host = 0
                         /\ hand'[First(c)] # <<>> => hand'[First(c)][1].host = 0
    BY <2>2, <2>3, <2>5, <2>6 DEF Untorn
  <2> QED
    BY <2>2, <2>7, <2>8, <2>9, <2>10, <2>11 DEF Untorn
<1>2. CASE Publish
  <2>1. UNCHANGED <<at, hand, zero, discard, channel, calling, python>>
    BY <1>2 DEF Publish, thread, calloop, delivery
  <2>2. \A c \in Captures : ~zero[c] /\ slot'[First(c)] # <<>> => slot'[First(c)][1].host = 0
    <3> SUFFICES ASSUME NEW c \in Captures, ~zero[c], slot'[First(c)] # <<>>
                 PROVE  slot'[First(c)][1].host = 0
      OBVIOUS
    <3>1. CASE First(c) = Encoder
      <4>1. c = capture
        BY <1>2, <3>1, ThreadsArePairs, PublishedFrame
      <4> QED
        BY <1>2, <3>1, <4>1, PublishedFrame DEF ZeroCopy
    <3>2. CASE First(c) # Encoder
      BY <1>2, <3>2, PublishedFrame, ThreadsArePairs DEF Untorn
    <3> QED
      BY <3>1, <3>2
  <2> QED
    BY <2>1, <2>2 DEF Untorn, Excused, Launched
<1>3. CASE Demote
  <2>1. /\ UNCHANGED <<slot, hand, zero, discard, channel, calling, python>>
        /\ at'[Demoted(starts)] = "joining" /\ at[Demoted(starts)] = "none" /\ starts \in Captures
        /\ \A t \in Threads : t # Demoted(starts) => at'[t] = at[t]
    BY <1>3, DemotedThread, FramesStay DEF delivery
  <2>2. \A c \in Captures : Launched(Demoted(c)) => Launched(Demoted(c))'
    BY <2>1, ThreadsArePairs DEF Launched
  <2>3. \A c \in Captures : Excused(c) => Excused(c)'
    BY <2>1, <2>2 DEF Excused
  <2>4. \A t \in Threads : at'[t] = "sending" => at[t] = "sending" /\ t[1] \in Captures
    BY <2>1, ThreadsArePairs
  <2>5. \A c \in Captures : python[c] # <<>> => python[c][1].of \in Captures
    BY Boxes DEF Typed, DeliveryTyped, AnyFrame
  <2> QED
    BY <2>1, <2>2, <2>3, <2>4, <2>5 DEF Untorn
<1>4. CASE Stop \/ BeginRestart
  <2>1. /\ UNCHANGED <<at, slot, hand, zero, channel, calling, python>>
        /\ \A c \in Captures : discard[c] => discard'[c]
    BY <1>4 DEF Stop, BeginRestart, Teardown, thread, Typed, DeliveryTyped
  <2> QED
    BY <2>1, ThreadsArePairs DEF Untorn, Excused, Launched
<1>5. CASE Retain \/ Tick \/ Barrier \/ Answer
  <2>1. UNCHANGED <<at, slot, hand, zero, discard, channel, calling, python>>
    BY <1>5 DEF Retain, Tick, Barrier, Answer, thread, pool, calloop, delivery
  <2> QED
    BY <2>1 DEF Untorn, Excused, Launched
<1>6. ASSUME NEW u \in Threads, EncodeStep(u) PROVE Untorn'
  <2>1. /\ UNCHANGED <<zero, discard, calling, python>>
        /\ \A t \in Threads : Launched(t) <=> Launched(t)'
        /\ \A t \in Threads : t # u => at'[t] = at[t] /\ hand'[t] = hand[t] /\ slot'[t] = slot[t]
    BY <1>6 DEF EncodeStep, Join, Take, Lock, Encode, Send, To, calloop, delivery, pool, Launched,
       Typed, ThreadsTyped
  <2>2. \A c \in Captures : Excused(c) <=> Excused(c)'
    BY <2>1, ThreadsArePairs DEF Excused
  <2>3. \A c \in Captures : python[c] # <<>> => python[c][1].of \in Captures
    BY Boxes DEF Typed, DeliveryTyped, AnyFrame
  <2>4. \A c \in Captures :
           /\ calling'[c] # <<>> /\ calling'[c][1].torn => Launched(Demoted(c))'
           /\ python'[c] # <<>> /\ python'[c][1].torn => Launched(Demoted(python[c][1].of))'
    BY <2>1, <2>3, ThreadsArePairs DEF Untorn
  <2>5. /\ slot'[u] # <<>> => slot[u] # <<>> /\ slot'[u] = slot[u]
        /\ hand'[u] # <<>> => hand'[u][1].host = 0 \/ hand'[u] = slot[u] \/ hand'[u] = hand[u]
    <3>1. CASE Encode(u)
      <4>1. hand[u] # <<>> /\ hand[u][1] \in AnyFrame /\ Head(hand[u]) = hand[u][1]
        BY <3>1, Boxes DEF Encode, Typed, ThreadsTyped
      <4>2. hand'[u] = <<Read(hand[u][1])>> /\ UNCHANGED slot
        BY <3>1, <4>1 DEF Encode, pool, Typed, ThreadsTyped
      <4> QED
        BY <4>1, <4>2, ReadFrame, Boxes
    <3>2. CASE Join(u) \/ Take(u) \/ Lock(u) \/ Send(u)
      BY <3>2 DEF Join, Take, Lock, Send, pool, Typed, ThreadsTyped
    <3> QED
      BY <1>6, <3>1, <3>2 DEF EncodeStep
  <2>6. \A c \in Captures :
            ~zero'[c] => /\ slot'[First(c)] # <<>> => slot'[First(c)][1].host = 0
                         /\ hand'[First(c)] # <<>> => hand'[First(c)][1].host = 0
    <3>1. \A c \in Captures : First(c) # u =>
              /\ slot'[First(c)] = slot[First(c)] /\ hand'[First(c)] = hand[First(c)]
      BY <2>1, ThreadsArePairs
    <3> QED
      BY <2>1, <2>5, <3>1 DEF Untorn
  <2>7. \A t \in Threads : at'[t] = "sending" /\ hand'[t][1].torn => Excused(t[1])
    <3> SUFFICES ASSUME at'[u] = "sending", hand'[u][1].torn PROVE Excused(u[1])
      BY <2>1 DEF Untorn
    <3>1. Encode(u)
      BY <1>6 DEF EncodeStep, Join, Take, Lock, Send, To, Typed, ThreadsTyped
    <3>2. hand[u] # <<>> /\ hand[u][1] \in AnyFrame /\ Head(hand[u]) = hand[u][1]
      BY <3>1, Boxes DEF Encode, Typed, ThreadsTyped
    <3>3. hand'[u] = <<Read(hand[u][1])>>
      BY <3>1, <3>2 DEF Encode, Typed, ThreadsTyped
    <3>4. hand[u][1].host \in back
      BY <3>2, <3>3, ReadFrame, Boxes
    <3> QED
      BY <3>1, <3>2, <3>4, TornIsExcused
  <2>8. \A c \in Captures : channel'[c] # <<>> /\ channel'[c][1].torn => Excused(c)
    <3>1. CASE Send(u)
      BY <3>1, ThreadsArePairs DEF Send, Untorn, Typed, DeliveryTyped
    <3>2. CASE ~Send(u)
      BY <1>6, <3>2 DEF EncodeStep, Join, Take, Lock, Encode, delivery, Untorn
    <3> QED
      BY <3>1, <3>2
  <2>9. \A t \in Threads : at'[t] = "sending" /\ hand'[t][1].torn => Excused(t[1])'
    BY <2>2, <2>7, ThreadsArePairs
  <2>10. \A c \in Captures : channel'[c] # <<>> /\ channel'[c][1].torn => Excused(c)'
    BY <2>2, <2>8
  <2>11. \A c \in Captures : python'[c] # <<>> /\ python'[c][1].torn => Launched(Demoted(python[c][1].of))'
    BY <2>4
  <2> QED
    BY <2>1, <2>4, <2>6, <2>9, <2>10 DEF Untorn
<1>7. ASSUME NEW c \in Captures, DeliverStep(c) PROVE Untorn'
  <2>1. UNCHANGED <<at, slot, hand, zero, discard>>
    BY <1>7 DEF DeliverStep, JoinDelivery, Receive, Call, Hangup, thread, pool, calloop
  <2>2. CASE JoinDelivery(c) \/ Hangup(c)
    BY <2>1, <2>2 DEF JoinDelivery, Hangup, Untorn, Excused, Launched
  <2>3. CASE Receive(c)
    BY <2>1, <2>3 DEF Receive, Discards, Untorn, Excused, Launched, Typed, DeliveryTyped
  <2>4. CASE Call(c)
    <3>1. calling[c] # <<>> /\ calling[c][1].of = c
      BY <2>4 DEF Call, Placed
    <3>2. \A g \in Captures : python'[g] = python[g] \/ python'[g] = calling[c]
      BY <2>4 DEF Call, Typed, DeliveryTyped
    <3>3. \A d \in Captures : calling'[d] # <<>> => calling'[d] = calling[d]
      BY <2>4 DEF Call, Typed, DeliveryTyped
    <3>4. UNCHANGED channel
      BY <2>4 DEF Call
    <3>5. \A g \in Captures : python'[g] # <<>> /\ python'[g][1].torn =>
              Launched(Demoted(python'[g][1].of))
      BY <3>1, <3>2 DEF Untorn
    <3> QED
      BY <2>1, <3>3, <3>4, <3>5 DEF Untorn, Excused, Launched
  <2> QED
    BY <1>7, <2>2, <2>3, <2>4 DEF DeliverStep
<1> QED
  BY <1>1, <1>2, <1>3, <1>4, <1>5, <1>6, <1>7 DEF Next, ThreadStep

-----------------------------------------------------------------------------
(* The bounds.                                                             *)

CalloopBounded ==
    /\ demoted \in BOOLEAN /\ fenced \in BOOLEAN
    /\ stop \in [Threads -> BOOLEAN] /\ sink \in [Threads -> BOOLEAN]
    /\ since \in [Captures -> 0 .. MaxCaptures] /\ dpred \in [Captures -> 0 .. MaxCaptures]
    /\ encodeReaper \subseteq Threads /\ deliverReaper \subseteq Captures
    /\ bound \in 0 .. starts

LeaseBounded ==
    /\ MaxFrames \in Nat /\ frames <= MaxFrames /\ MaxHosts \in Nat /\ hosts <= MaxHosts
    /\ published <= frames /\ retainedUse <= frames
    /\ \A loan \in inflight : loan[1] <= frames

Small(box, most) == box # <<>> => 1 <= box[1].n /\ box[1].host <= most

FramesBounded ==
    /\ \A t \in Threads : Small(slot[t], hosts) /\ Small(hand[t], hosts)
    /\ \A c \in Captures :
         Small(channel[c], hosts) /\ Small(calling[c], hosts) /\ Small(python[c], hosts)

\* A frame still to be encoded.
ToEncode(t, n) == at[t] # "ended" /\ (Has(slot[t], n) \/ (Held(t) /\ Has(hand[t], n)))

\* The encodes of the running capture are counted behind the number of any of its frames
\* that is still to be encoded.
RecycledBehind ==
    /\ recycled <= frames
    /\ capture # 0 =>
         \A t \in Threads : \A n \in Nat : t[1] = capture /\ ToEncode(t, n) => recycled < n

Bounded == CalloopBounded /\ LeaseBounded /\ FramesBounded /\ RecycledBehind

LEMMA InitBounded == ASSUME RestartAssumption, Init PROVE Bounded
<1>1. \A b : Small(<<>>, 0) /\ ~Has(<<>>, b)
  BY DEF Small, Has
<1>2. CalloopBounded
  <2>1. 0 \in 0 .. MaxCaptures /\ 0 \in 0 .. 0
    BY DEF RestartAssumption
  <2>2. since \in [Captures -> 0 .. MaxCaptures] /\ dpred \in [Captures -> 0 .. MaxCaptures]
    BY <2>1 DEF Init
  <2>3. QED
    BY <2>1, <2>2 DEF Init, CalloopBounded
<1>3. LeaseBounded /\ recycled = 0 /\ frames = 0 /\ capture = 0
  BY DEF Init, RestartAssumption, LeaseBounded
<1>4. FramesBounded
  BY <1>1 DEF Init, FramesBounded
<1>5. QED
  BY <1>2, <1>3, <1>4 DEF Bounded, RecycledBehind

LEMMA CalloopBoundedKept == ASSUME Typed, Calloop, CalloopBounded, Next PROVE CalloopBounded'
<1> USE DEF CalloopBounded
<1>1. CASE Start \/ FinishRestart
  <2>1. PICK old \in Threads \cup {NoThread}, readback \in BOOLEAN : Launch(old, readback)
    BY <1>1 DEF Start, FinishRestart, Typed, CalloopTyped
  <2>2. /\ starts + 1 \in Captures /\ starts \in Nat /\ MaxCaptures \in Nat
        /\ UNCHANGED <<stop, sink, deliverReaper>>
    BY <1>1 DEF Start, FinishRestart, pool, Captures, Typed, CalloopTyped
  <2>3. old # NoThread => old \in Threads /\ old[1] \in Captures
    BY <2>1, ThreadsArePairs
  <2>4. since' \in [Captures -> 0 .. MaxCaptures] /\ dpred' \in [Captures -> 0 .. MaxCaptures]
    BY <2>1, <2>2, <2>3 DEF Launch, Captures
  <2>5. encodeReaper' \subseteq Threads
    BY <2>1, <2>3 DEF Launch
  <2>6. demoted' = FALSE /\ fenced' = FALSE /\ bound' = starts + 1 /\ starts' = starts + 1
    BY <2>1 DEF Launch
  <2>7. bound' \in 0 .. starts'
    BY <2>2, <2>6
  <2>8. QED
    BY <2>2, <2>4, <2>5, <2>6, <2>7
<1>2. CASE Stop \/ BeginRestart
  <2>1. Encoder \in Threads /\ capture \in Captures
    BY <1>2 DEF Stop, BeginRestart, Running, Encoder, Threads, Captures, Typed, CalloopTyped
  <2>2. bound' \in {0, bound}
    BY <1>2 DEF Stop, BeginRestart, Teardown, Unbound
  <2>3. /\ stop' = [stop EXCEPT ![Encoder] = TRUE]
        /\ encodeReaper' \in {encodeReaper, encodeReaper \cup {Encoder}}
        /\ deliverReaper' \in {deliverReaper, deliverReaper \cup {capture}}
        /\ UNCHANGED <<demoted, fenced, sink, since, dpred, starts>>
    BY <1>2 DEF Stop, BeginRestart, Teardown, LeftToReaper, thread, reaper
  <2>4. bound' \in 0 .. starts'
    BY <2>2, <2>3 DEF Typed, CalloopTyped
  <2>5. QED
    BY <2>1, <2>3, <2>4
<1>3. CASE Publish \/ Retain \/ Tick \/ Barrier \/ Answer
  BY <1>3 DEF Publish, Retain, Tick, Barrier, Answer, calloop, thread, pool, delivery, reaper
<1>4. CASE Demote
  <2>1. Encoder \in Threads
    BY <1>4 DEF Demote, Running, Encoder, Threads, Captures, Typed, CalloopTyped
  <2>2. QED
    BY <1>4, <2>1 DEF Demote, delivery, reaper
<1>5. ASSUME NEW t \in Threads, EncodeStep(t) PROVE CalloopBounded'
  <2>1. UNCHANGED <<demoted, fenced, since, dpred, stop, reaper, starts>>
    BY <1>5 DEF EncodeStep, Join, Take, Lock, Encode, Send, calloop, pool, delivery
  <2>2. sink' \in [Threads -> BOOLEAN] /\ bound' \in {0, bound}
    BY <1>5 DEF EncodeStep, Join, Take, Lock, Encode, Send, LetGo
  <2>3. QED
    BY <2>1, <2>2 DEF reaper, Typed, CalloopTyped
<1>6. CASE \E c \in Captures : DeliverStep(c)
  BY <1>6 DEF DeliverStep, JoinDelivery, Receive, Call, Hangup, calloop, thread, pool, reaper
<1>7. QED
  BY <1>1, <1>2, <1>3, <1>4, <1>5, <1>6 DEF Next, ThreadStep

LEMMA LeaseBoundedKept == ASSUME Typed, LeaseBounded, Next PROVE LeaseBounded'
<1> USE DEF Typed, LeaseTyped, LeaseBounded
<1>1. CASE Start
  BY <1>1 DEF Start, Launch
<1>2. CASE Stop \/ FinishRestart \/ Tick \/ Demote
  <2>1. PICK done : Release(inflight, done)
    BY <1>2 DEF Stop, FinishRestart, Tick, Demote, ReleaseAll
  <2>2. /\ UNCHANGED <<frames, hosts>>
        /\ UNCHANGED <<published, retainedUse>> \/ (published' = 0 /\ retainedUse' = 0)
    BY <1>2 DEF Stop, FinishRestart, Launch, Tick, Demote
  <2>3. QED
    BY <2>1, <2>2, ReleaseTyped
<1>3. CASE Retain
  <2> DEFINE lent == inflight \cup (IF retained = 0 THEN {} ELSE {<<Lent, retained>>})
  <2>1. lent \subseteq Nat \X Nat /\ \A loan \in lent : loan[1] <= frames
    BY DEF Lent
  <2>2. Release(lent, recycled) /\ UNCHANGED <<published, frames>>
        /\ hosts < MaxHosts /\ hosts' = hosts + 1 /\ retainedUse' = 0
    BY <1>3 DEF Retain
  <2>3. QED
    BY <2>1, <2>2, ReleaseTyped
<1>4. CASE Publish
  BY <1>4 DEF Publish
<1>5. CASE BeginRestart \/ Barrier \/ Answer \/ ThreadStep
  BY <1>5 DEF BeginRestart, Barrier, Answer, ThreadStep, EncodeStep, DeliverStep, Join, Take,
              Lock, Encode, Send, JoinDelivery, Receive, Call, Hangup, lease
<1>6. QED
  BY <1>1, <1>2, <1>3, <1>4, <1>5 DEF Next

LEMMA FramesBoundedKept ==
    ASSUME Typed, Calloop, Lending, FramesBounded, Next PROVE FramesBounded'
<1>1. hosts' \in Nat /\ hosts <= hosts'
  BY DEF Next, Start, FinishRestart, Launch, Stop, BeginRestart, Publish, Retain, Tick, Demote,
         Barrier, Answer, ThreadStep, EncodeStep, DeliverStep, Join, Take, Lock, Encode, Send,
         JoinDelivery, Receive, Call, Hangup, lease, Typed, LeaseTyped
<1>2. \A b \in Box : Small(b, hosts) => Small(b, hosts')
  <2> SUFFICES ASSUME NEW b \in Box, Small(b, hosts) PROVE Small(b, hosts')
    OBVIOUS
  <2>1. b # <<>> => b[1].host \in Nat
    BY Boxes DEF AnyFrame
  <2>2. QED
    BY <1>1, <2>1 DEF Small, Typed, LeaseTyped
<1>3. /\ \A t \in Threads : /\ slot[t] \in Box /\ Small(slot[t], hosts')
                            /\ hand[t] \in Box /\ Small(hand[t], hosts')
      /\ \A c \in Captures : /\ Small(channel[c], hosts') /\ Small(calling[c], hosts')
                             /\ Small(python[c], hosts')
  BY <1>2 DEF FramesBounded, Typed, ThreadsTyped, DeliveryTyped
<1>4. Small(<<>>, hosts')
  BY DEF Small
<1>5. CASE Publish
  <2>1. UNCHANGED <<hand, channel, calling, python, hosts>>
    BY <1>5, PublishedFrame DEF thread, delivery, Publish
  <2>2. \A t \in Threads : Small(slot'[t], hosts')
    <3>1. slot'[Encoder][1].n = frames + 1 /\ slot'[Encoder][1].host \in {0, retained}
      BY <1>5, PublishedFrame
    <3>2. frames \in Nat /\ hosts \in Nat /\ retained \in Nat /\ retained <= hosts
      BY DEF Typed, LeaseTyped, Lending
    <3>3. Small(slot'[Encoder], hosts)
      BY <3>1, <3>2 DEF Small
    <3>4. \A t \in Threads : t # Encoder => slot'[t] = slot[t]
      BY <1>5, PublishedFrame
    <3>5. QED
      BY <1>3, <2>1, <3>3, <3>4
  <2>3. QED
    BY <1>3, <2>1, <2>2 DEF FramesBounded
<1>6. CASE Start \/ FinishRestart \/ Stop \/ BeginRestart \/ Retain \/ Tick \/ Demote
           \/ Barrier \/ Answer
  BY <1>3, <1>6, FramesStay DEF FramesBounded
<1>7. ASSUME NEW t \in Threads, Join(t) \/ Take(t) \/ Lock(t) PROVE FramesBounded'
  <2>1. /\ \A u \in Threads : /\ slot'[u] \in {slot[u], <<>>}
                              /\ hand'[u] \in {hand[u], slot[u], <<>>}
        /\ UNCHANGED <<channel, calling, python>>
    BY <1>7 DEF Join, Take, Lock, pool, delivery, Typed, ThreadsTyped
  <2>2. QED
    BY <1>3, <1>4, <2>1 DEF FramesBounded
<1>8. ASSUME NEW t \in Threads, Encode(t) PROVE FramesBounded'
  <2>1. hand[t] # <<>> /\ hand[t][1] \in AnyFrame /\ Head(hand[t]) = hand[t][1]
    BY <1>8, Boxes DEF Encode, Typed, ThreadsTyped
  <2> DEFINE read == <<Read(hand[t][1])>>
  <2>2. hand' = [hand EXCEPT ![t] = read] /\ UNCHANGED <<slot, channel, calling, python>>
    BY <1>8, <2>1 DEF Encode, pool, delivery
  <2>3. read[1].n = hand[t][1].n /\ read[1].host = 0
    BY <2>1, ReadFrame
  <2>4. Small(read, hosts')
    <3>1. 1 <= hand[t][1].n
      BY <1>3, <2>1 DEF Small
    <3>2. QED
      BY <1>1, <2>3, <3>1 DEF Small
  <2> HIDE DEF read
  <2>5. \A u \in Threads : hand'[u] \in {hand[u], read}
    BY <2>2 DEF Typed, ThreadsTyped
  <2>6. QED
    BY <1>3, <2>2, <2>4, <2>5 DEF FramesBounded
<1>9. ASSUME NEW t \in Threads, Send(t) PROVE FramesBounded'
  <2>1. /\ \A u \in Threads : hand'[u] \in {hand[u], <<>>}
        /\ \A c \in Captures : channel'[c] \in {channel[c], hand[t]}
        /\ UNCHANGED <<slot, calling, python>>
    BY <1>9 DEF Send, pool, Typed, ThreadsTyped, DeliveryTyped
  <2>2. QED
    BY <1>3, <1>4, <2>1 DEF FramesBounded
<1>10. ASSUME NEW c \in Captures, DeliverStep(c) PROVE FramesBounded'
  <2>1. /\ \A d \in Captures : /\ channel'[d] \in {channel[d], <<>>}
                               /\ calling'[d] \in {calling[d], channel[d], <<>>}
                               /\ python'[d] \in {python[d], calling[c]}
        /\ UNCHANGED <<slot, hand>>
    BY <1>10 DEF DeliverStep, JoinDelivery, Receive, Call, Hangup, thread, pool, Typed,
                 DeliveryTyped
  <2>2. QED
    BY <1>3, <1>4, <2>1 DEF FramesBounded
<1>11. QED
  BY <1>5, <1>6, <1>7, <1>8, <1>9, <1>10 DEF Next, ThreadStep, EncodeStep

\* A step leaves a frame still to be encoded where it was, or further along in its thread,
\* unless it publishes it.
LEMMA StillToEncode ==
    ASSUME Typed, Calloop, Next, ~Publish, NEW t \in Threads, NEW n, ToEncode(t, n)'
    PROVE  ToEncode(t, n)
<1>1. CASE \E u \in Threads : EncodeStep(u)
  <2>1. PICK u \in Threads : EncodeStep(u)
    BY <1>1
  <2>2. CASE u # t
    BY <2>1, <2>2 DEF EncodeStep, Join, Take, Lock, Encode, Send, To, pool, ToEncode, Held, Has,
       Typed, ThreadsTyped
  <2>3. CASE u = t
    <3>1. at[t] # "ended"
      BY <2>1, <2>3 DEF EncodeStep, Join, Take, Lock, Encode, Send
    <3>2. CASE Join(t)
      BY <3>1, <3>2 DEF Join, To, pool, ToEncode, Held, Has, Typed, ThreadsTyped
    <3>3. CASE Take(t)
      BY <3>1, <3>3 DEF Take, To, ToEncode, Held, Has, Typed, ThreadsTyped
    <3>4. CASE Lock(t)
      BY <3>1, <3>4 DEF Lock, To, pool, ToEncode, Held, Has, Typed, ThreadsTyped
    <3>5. CASE Encode(t) \/ Send(t)
      BY <3>1, <3>5 DEF Encode, Send, To, pool, ToEncode, Held, Has, Typed, ThreadsTyped
    <3>6. QED
      BY <2>1, <2>3, <3>2, <3>3, <3>4, <3>5 DEF EncodeStep
  <2>4. QED
    BY <2>2, <2>3
<1>2. CASE Start \/ FinishRestart \/ Demote
  <2>1. UNCHANGED <<slot, hand>>
    BY <1>2, FramesStay
  <2>2. at[t] = "none" \/ at'[t] = at[t]
    BY <1>2, LaunchedCapture, DemotedThread
  <2>3. at[t] = "none" => at[t] # "ended" /\ at'[t] \notin {"locking", "encoding"}
    BY <1>2, LaunchedCapture, DemotedThread
  <2>4. QED
    BY <2>1, <2>2, <2>3 DEF ToEncode, Held, Has
<1>3. CASE Stop \/ BeginRestart \/ Retain \/ Tick \/ Barrier \/ Answer
           \/ \E c \in Captures : DeliverStep(c)
  BY <1>3 DEF Stop, BeginRestart, Retain, Tick, Barrier, Answer, DeliverStep, JoinDelivery,
              Receive, Call, Hangup, thread, pool, ToEncode, Held, Has
<1>4. QED
  BY <1>1, <1>2, <1>3 DEF Next, ThreadStep


LEMMA RecycledBehindKept ==
    ASSUME Typed, Calloop, PredecessorsEnded, Placed, ThreadsOrdered, FramesBounded,
           RecycledBehind, Next
    PROVE  RecycledBehind'
<1>1. recycled \in Nat /\ frames \in Nat
  BY DEF Typed, LeaseTyped
<1>2. CASE Start \/ FinishRestart
  <2>1. recycled' = 0 /\ UNCHANGED frames
    BY <1>2, LaunchedCapture DEF Start, FinishRestart, Launch
  <2>2. starts + 1 \in Captures /\ capture' = starts + 1 /\ UNCHANGED <<slot, hand>>
    BY <1>2, LaunchedCapture
  <2>3. ASSUME NEW t \in Threads, NEW n \in Nat, ToEncode(t, n)' PROVE 0 < n
    <3>1. Has(slot[t], n) \/ Has(hand[t], n)
      BY <2>2, <2>3 DEF ToEncode, Has
    <3>2. Small(slot[t], hosts) /\ Small(hand[t], hosts)
      BY DEF FramesBounded
    <3>3. QED
      BY <3>1, <3>2 DEF Has, Small
  <2>4. QED
    BY <1>1, <2>1, <2>3 DEF RecycledBehind
<1>3. CASE Publish
  <2>1. /\ frames' = frames + 1 /\ capture' = capture /\ recycled' = recycled
        /\ UNCHANGED <<at, hand>>
    BY <1>3, PublishedFrame DEF Publish, thread, calloop
  <2>2. ASSUME NEW t \in Threads, NEW n \in Nat, t[1] = capture, capture # 0, ToEncode(t, n)'
        PROVE  recycled < n
    <3>1. CASE t = Encoder /\ Has(slot'[t], n)
      <4>1. n = frames + 1
        BY <1>3, <3>1, PublishedFrame DEF Has
      <4>2. QED
        BY <1>1, <4>1 DEF RecycledBehind
    <3>2. CASE ~(t = Encoder /\ Has(slot'[t], n))
      <4>1. t # Encoder => slot'[t] = slot[t]
        BY <1>3, PublishedFrame
      <4>2. ToEncode(t, n)
        BY <2>1, <2>2, <3>2, <4>1 DEF ToEncode, Has, Held
      <4>3. QED
        BY <2>2, <4>2 DEF RecycledBehind
    <3>3. QED
      BY <3>1, <3>2
  <2>3. QED
    BY <1>1, <2>1, <2>2 DEF RecycledBehind
<1>4. ASSUME NEW u \in Threads, Encode(u), u[1] = capture, capture # 0 PROVE RecycledBehind'
  <2>1. /\ recycled' = recycled + 1 /\ UNCHANGED <<frames, capture, slot>>
        /\ at[u] = "encoding" /\ at'[u] = "sending"
        /\ \A t \in Threads : t # u => at'[t] = at[t] /\ hand'[t] = hand[t]
    BY <1>4 DEF Encode, To, calloop, lease, pool, Typed, ThreadsTyped
  <2>2. hand[u] # <<>> /\ hand[u] \in Box
    BY <2>1 DEF Typed, ThreadsTyped
  <2>3. PICK m \in Nat : m = hand[u][1].n
    BY <2>2, Boxes DEF AnyFrame
  <2>4. Has(hand[u], m) /\ ToEncode(u, m) /\ m <= frames
    BY <2>1, <2>2, <2>3 DEF Has, ToEncode, Held, Placed
  <2>5. recycled < m
    BY <1>4, <2>4 DEF RecycledBehind
  <2>6. ASSUME NEW t \in Threads, NEW n \in Nat, t[1] = capture, ToEncode(t, n)'
        PROVE  m < n
    <3>1. Next /\ ~Publish
      BY <1>4, <2>1 DEF Publish, Typed, LeaseTyped
    <3>2. ToEncode(t, n)
      BY <2>6, <3>1, StillToEncode
    <3>3. CASE Has(slot[t], n)
      BY <1>4, <2>1, <2>4, <2>6, <3>2, <3>3 DEF ThreadsOrdered, ToEncode
    <3>4. CASE ~Has(slot[t], n)
      <4>1. Held(t)' /\ Has(hand'[t], n)
        BY <2>1, <2>6, <3>4 DEF ToEncode
      <4>2. t # u /\ at[t] \in {"locking", "encoding"}
        BY <2>1, <4>1 DEF Held
      <4>3. t[2] = "first" \/ u[2] = "first"
        BY <1>4, <2>6, <4>2, ThreadsArePairs
      <4>4. at[u] = "ended" \/ at[t] = "ended"
        BY <1>4, <2>1, <2>6, <4>2, <4>3, OneEncodesAtATime
      <4>5. QED
        BY <2>1, <4>2, <4>4
    <3>5. QED
      BY <3>3, <3>4
  <2>7. QED
    BY <1>1, <2>1, <2>4, <2>5, <2>6 DEF RecycledBehind
<1>5. CASE /\ ~Publish /\ ~Start /\ ~FinishRestart
           /\ ~\E u \in Threads : Encode(u) /\ u[1] = capture /\ capture # 0
  <2>1. capture' \in {0, capture} /\ recycled' = recycled /\ frames' = frames
    <3>1. CASE \E u \in Threads : Encode(u)
      <4>1. PICK u \in Threads : Encode(u)
        BY <3>1
      <4>2. u[1] # 0
        BY ThreadsArePairs DEF Captures, Typed, CalloopTyped
      <4>3. QED
        BY <1>5, <4>1, <4>2 DEF Encode, calloop, lease
    <3>2. CASE ~\E u \in Threads : Encode(u)
      BY <1>5, <3>2 DEF Next, Stop, BeginRestart, Teardown, Retain, Tick, Demote, Barrier, Answer,
         ThreadStep, EncodeStep, DeliverStep, Join, Take, Lock, Send, JoinDelivery, Receive, Call,
         Hangup, calloop, lease
    <3>3. QED
      BY <3>1, <3>2
  <2>2. \A t \in Threads : \A n \in Nat : ToEncode(t, n)' => ToEncode(t, n)
    BY <1>5, StillToEncode
  <2>3. QED
    BY <2>1, <2>2 DEF RecycledBehind
<1>6. QED
  BY <1>2, <1>3, <1>4, <1>5

\* What the bounds and the places of the frames make of the types.
LEMMA BoxedFrames ==
    ASSUME NEW b \in Box, Small(b, hosts), hosts \in Nat, hosts <= MaxHosts, MaxHosts \in Nat,
           MaxFrames \in Nat, b # <<>> => b[1].n <= MaxFrames
    PROVE  b \in UNION {[1 .. k -> Frame] : k \in {0, 1}}
<1>1. CASE b = <<>>
  <2>1. b \in [1 .. 0 -> Frame]
    BY <1>1
  <2>2. QED
    BY <2>1
<1>2. CASE b # <<>>
  <2>1. PICK f \in AnyFrame : b = <<f>>
    BY <1>2 DEF Box
  <2>2. f.n \in Nat /\ f.host \in Nat /\ 1 <= f.n /\ f.n <= MaxFrames /\ f.host <= hosts
    BY <1>2, <2>1 DEF Small, AnyFrame
  <2>3. f.n \in 1 .. MaxFrames /\ f.host \in 0 .. MaxHosts
    BY <2>2
  <2>4. f \in Frame
    BY <2>3 DEF AnyFrame, Frame
  <2>5. b \in [1 .. 1 -> Frame]
    BY <2>1, <2>4
  <2>6. QED
    BY <2>5
<1>3. QED
  BY <1>1, <1>2

-----------------------------------------------------------------------------
(* Together.                                                               *)

Inv == Typed /\ Calloop /\ QuietInv /\ Placed /\ Ordered /\ LentInv /\ Bounded

LEMMA InitInv == ASSUME RestartAssumption, Init PROVE Inv
<1>1. Typed
  BY InitTyped
<1>2. /\ capture = 0 /\ starts = 0 /\ stopping = "no" /\ ~fenced
      /\ \A t \in Threads : /\ pred[t] = NoThread /\ at[t] = "none" /\ slot[t] = <<>>
                            /\ hand[t] = <<>> /\ ~taken[t]
      /\ \A c \in Captures : /\ dat[c] = "none" /\ ~discard[c] /\ channel[c] = <<>>
                             /\ calling[c] = <<>> /\ python[c] = <<>>
      /\ hosts = 0 /\ retained = 0 /\ inflight = {} /\ back = {}
  BY DEF Init
<1>3. \A c \in Captures : c \in Nat /\ c # 0
  BY <1>1 DEF Captures, Typed, CalloopTyped
<1>4. \A c \in Captures : Quiet(c) /\ Over(c) /\ ~Launched(First(c)) /\ ~Launched(Demoted(c))
  BY <1>2, ThreadsArePairs DEF Quiet, Over, Launched, Idle
<1>5. Calloop
  BY <1>2, <1>3, <1>4 DEF Calloop
<1>6. Joined /\ PredecessorsEnded
  BY <1>2, <1>4, ThreadsArePairs DEF Joined, PredecessorsEnded
<1>7. EncodersKept /\ DeliveriesKept
  BY <1>4 DEF EncodersKept, DeliveriesKept
<1>8. DeliveryInTurn
  BY <1>2, <1>3 DEF DeliveryInTurn
<1>9. Placed
  BY <1>2 DEF Placed
<1>13. \A n : ~Has(<<>>, n)
  BY DEF Has
<1>10. \A c \in Captures : \A n : ~Carries(c, n) /\ ~Inside(c, n)
  BY <1>2, <1>13 DEF Carries, Inside
<1>11. Ordered
  BY <1>2, <1>10 DEF Ordered, CapturesOrdered, ThreadsOrdered, OutOrdered, Has
<1>12. LentInv
  BY <1>2, ThreadsArePairs DEF LentInv, Lending, Counted, Counting, Untorn
<1> QED
  BY <1>1, <1>2, <1>5, <1>6, <1>7, <1>8, <1>9, <1>11, <1>12, InitBounded DEF Inv, QuietInv

LEMMA NextInv == ASSUME Inv, Next PROVE Inv'
<1>1. CalloopTyped' /\ ThreadsTyped' /\ DeliveryTyped' /\ LeaseTyped' /\ Calloop'
  BY CalloopTypedKept, ThreadsTypedKept, DeliveryTypedKept, LeaseTypedKept, CalloopKept DEF Inv
<1>2. Typed'
  BY <1>1 DEF Typed
<1>3. QuietInv'
  BY QuietInvKept DEF Inv
<1>4. Placed' /\ CapturesOrdered' /\ ThreadsOrdered' /\ OutOrdered'
  BY PlacedKept, CapturesOrderedKept, ThreadsOrderedKept, OutOrderedKept DEF Inv, QuietInv, Ordered
<1>5. Lending' /\ Counted' /\ Untorn'
  BY LendingKept, CountedKept, UntornKept DEF Inv, QuietInv, LentInv
<1>6. CalloopBounded' /\ LeaseBounded' /\ FramesBounded' /\ RecycledBehind'
  BY CalloopBoundedKept, LeaseBoundedKept, FramesBoundedKept, RecycledBehindKept
     DEF Inv, QuietInv, Ordered, LentInv, Bounded
<1> QED
  BY <1>1, <1>2, <1>3, <1>4, <1>5, <1>6 DEF Inv, Ordered, LentInv, Bounded

LEMMA StutterInv == ASSUME Inv, UNCHANGED vars PROVE Inv'
<1> USE DEF vars, calloop, thread, pool, delivery, lease, reaper
<1>1. Typed' /\ Calloop'
  BY DEF Inv, Typed, CalloopTyped, ThreadsTyped, DeliveryTyped, LeaseTyped, Calloop, Launched, Last
<1>2. QuietInv'
  BY DEF Inv, QuietInv, Joined, PredecessorsEnded, EncodersKept, DeliveryInTurn, DeliveriesKept,
     Chained, Quiet, Over, Anchored, DeliveryAnchored, Last, Launched
<1>3. Placed'
  BY DEF Inv, Placed, Launched
<1>4. Ordered'
  BY DEF Inv, Ordered, CapturesOrdered, ThreadsOrdered, OutOrdered, Carries, Inside, Has
<1>5. LentInv'
  BY DEF Inv, LentInv, Lending, Counted, Counting, CountsRight, Borrowed, Held, Untorn, Excused,
     Launched
<1>6. CalloopBounded' /\ LeaseBounded' /\ FramesBounded'
  BY DEF Inv, Bounded, CalloopBounded, LeaseBounded, FramesBounded
<1>7. RecycledBehind'
  BY DEF Inv, Bounded, RecycledBehind, ToEncode, Held, Has
<1> QED
  BY <1>1, <1>2, <1>3, <1>4, <1>5, <1>6, <1>7 DEF Inv, Bounded

LEMMA InvIsTyped == ASSUME Inv PROVE TypeOK
<1>1. /\ Typed /\ Placed /\ Lending
      /\ CalloopBounded /\ LeaseBounded /\ FramesBounded /\ RecycledBehind
  BY DEF Inv, LentInv, Bounded
<1>2. /\ capture \in 0 .. starts /\ starts \in 0 .. MaxCaptures
      /\ stopping \in {"no", "restarting", "barrier"}
      /\ prior \in Threads \cup {NoThread} /\ demoted \in BOOLEAN
      /\ zero \in [Captures -> BOOLEAN] /\ since \in [Captures -> 0 .. MaxCaptures]
      /\ pred \in [Threads -> Threads \cup {NoThread}]
      /\ at \in [Threads -> {"none", "joining", "taking", "locking", "encoding",
                             "sending", "ended"}]
      /\ stop \in [Threads -> BOOLEAN] /\ taken \in [Threads -> BOOLEAN]
      /\ sink \in [Threads -> BOOLEAN]
  BY <1>1 DEF Typed, CalloopTyped, ThreadsTyped, CalloopBounded
<1>3. /\ dpred \in [Captures -> 0 .. MaxCaptures]
      /\ dat \in [Captures -> {"none", "joining", "receiving", "ended"}]
      /\ discard \in [Captures -> BOOLEAN]
      /\ encodeReaper \subseteq Threads /\ deliverReaper \subseteq Captures
      /\ bound \in 0 .. starts /\ fenced \in BOOLEAN
  BY <1>1 DEF Typed, DeliveryTyped, CalloopBounded
<1>4. /\ published \in 0 .. MaxFrames /\ recycled \in 0 .. MaxFrames
      /\ frames \in 0 .. MaxFrames /\ hosts \in 0 .. MaxHosts
      /\ retained \in 0 .. hosts /\ retainedUse \in 0 .. MaxFrames
  BY <1>1 DEF Typed, LeaseTyped, LeaseBounded, RecycledBehind, Lending
<1>5. inflight \subseteq (0 .. MaxFrames) \X (1 .. hosts) /\ back \subseteq 1 .. hosts
  <2>1. ASSUME NEW loan \in inflight PROVE loan \in (0 .. MaxFrames) \X (1 .. hosts)
    <3>1. loan \in Nat \X Nat
      BY <1>1 DEF Typed, LeaseTyped
    <3>2. /\ loan = <<loan[1], loan[2]>> /\ loan[1] \in Nat /\ loan[2] \in Nat
          /\ loan[1] <= frames /\ 0 < loan[2] /\ loan[2] < retained
      BY <1>1, <3>1 DEF LeaseBounded, Lending
    <3>3. loan[1] \in 0 .. MaxFrames /\ loan[2] \in 1 .. hosts
      BY <1>1, <1>4, <3>2 DEF LeaseBounded
    <3>4. QED
      BY <3>2, <3>3
  <2>2. ASSUME NEW host \in back PROVE host \in 1 .. hosts
    BY <1>1, <1>4 DEF Typed, LeaseTyped, Lending
  <2>3. QED
    BY <2>1, <2>2
<1> DEFINE Boxed == UNION {[1 .. k -> Frame] : k \in {0, 1}}
<1>6. slot \in [Threads -> Boxed] /\ hand \in [Threads -> Boxed]
  <2>1. ASSUME NEW t \in Threads, NEW b, b = slot[t] \/ b = hand[t] PROVE b \in Boxed
    <3>1. b \in Box /\ Small(b, hosts) /\ (b # <<>> => b[1].n <= frames)
      BY <1>1, <2>1 DEF Typed, ThreadsTyped, FramesBounded, Placed
    <3>2. b # <<>> => b[1].n <= MaxFrames
      BY <1>1, <3>1, Boxes DEF LeaseBounded, Typed, LeaseTyped, AnyFrame
    <3>3. QED
      BY <1>1, <3>1, <3>2, BoxedFrames DEF LeaseBounded, Typed, LeaseTyped
  <2>2. QED
    BY <1>1, <2>1 DEF Typed, ThreadsTyped
<1>7. /\ channel \in [Captures -> Boxed] /\ calling \in [Captures -> Boxed]
      /\ python \in [Captures -> Boxed]
  <2>1. ASSUME NEW c \in Captures, NEW b, b = channel[c] \/ b = calling[c] \/ b = python[c]
        PROVE  b \in Boxed
    <3>1. b \in Box /\ Small(b, hosts) /\ (b # <<>> => b[1].n <= frames)
      BY <1>1, <2>1 DEF Typed, DeliveryTyped, FramesBounded, Placed
    <3>2. b # <<>> => b[1].n <= MaxFrames
      BY <1>1, <3>1, Boxes DEF LeaseBounded, Typed, LeaseTyped, AnyFrame
    <3>3. QED
      BY <1>1, <3>1, <3>2, BoxedFrames DEF LeaseBounded, Typed, LeaseTyped
  <2>2. QED
    BY <1>1, <2>1 DEF Typed, DeliveryTyped
<1>8. QED
  BY <1>2, <1>3, <1>4, <1>5, <1>6, <1>7 DEF TypeOK

LEMMA InvIsQuiet == ASSUME Inv PROVE BarrierQuiet
<1>1. ASSUME fenced, NEW t \in Threads PROVE at[t] \in Idle
  BY <1>1, ThreadsArePairs DEF Inv, QuietInv, Quiet
<1> QED
  BY <1>1 DEF Inv, QuietInv, BarrierQuiet, Over, Idle

LEMMA InvIsLent == ASSUME Inv PROVE LentUntilDemoted
  BY DEF Inv, LentInv, Untorn, LentUntilDemoted, Launched, Demoted

LEMMA InvKeepsOrder ==
    ASSUME Inv, [Next]_vars
    PROVE  \A c \in Captures :
              python[c] # <<>> => python'[c] = python[c] \/ python'[c][1].n > python[c][1].n
<1>1. CASE Next
  BY <1>1, CallIsNewer DEF Inv, QuietInv
<1>2. CASE UNCHANGED vars
  BY <1>2 DEF vars, delivery
<1> QED
  BY <1>1, <1>2

LEMMA Invariant == ASSUME RestartAssumption PROVE Spec => []Inv
<1>1. Init => Inv
  BY InitInv
<1>2. Inv /\ [Next]_vars => Inv'
  BY NextInv, StutterInv
<1> QED
  BY <1>1, <1>2, PTL DEF Spec

\* Every field has its type, the counters of the frames and of their encodes their bounds:
\* no more are counted recycled than were published (lib.rs: WlCapture::published,
\* stats.recycled).
THEOREM RestartTypes == ASSUME RestartAssumption PROVE Spec => []TypeOK
<1>1. Inv => TypeOK
  BY InvIsTyped
<1> QED
  BY <1>1, Invariant, PTL

\* Once the Barrier of the shutdown has answered, no encode or delivery thread of any
\* capture is left: each one still running is joined, through the chain of those that
\* wait for it, by one the Barrier joins (teardown_capture, the reapers).
THEOREM BarrierFences == ASSUME RestartAssumption PROVE Spec => []BarrierQuiet
<1>1. Inv => BarrierQuiet
  BY InvIsQuiet
<1> QED
  BY <1>1, Invariant, PTL

\* A frame that reaches Python was read while the host's buffer was lent, unless its
\* capture was demoted to readback (retain_host_frame, release_host_inflight,
\* deliver_discard).
THEOREM FramesStayLent == ASSUME RestartAssumption PROVE Spec => []LentUntilDemoted
<1>1. Inv => LentUntilDemoted
  BY InvIsLent
<1> QED
  BY <1>1, Invariant, PTL

\* Python is called with the frames of a capture, and of those that took its place, in
\* the order they were published, each once (start_capture_on_display: predecessor).
THEOREM FramesInOrder == ASSUME RestartAssumption PROVE Spec => PythonInOrder
<1>1. Inv /\ [Next]_vars =>
          [\A c \in Captures :
              python[c] # <<>> => python'[c] = python[c] \/ python'[c][1].n > python[c][1].n]_vars
  BY InvKeepsOrder
<1> QED
  BY <1>1, Invariant, PTL DEF Spec, PythonInOrder
=============================================================================
