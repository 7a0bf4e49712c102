---------------------- MODULE CaptureLifecycleProofs ----------------------
(***************************************************************************)
(* That a handle's captures stay in its hands, and its references paired,  *)
(* whatever the number of threads, captures, calls and timeouts; the only  *)
(* captures lost are those two overlapping starts publish one over the     *)
(* other.                                                                  *)
(***************************************************************************)
EXTENDS CaptureLifecycle, FiniteSetTheorems, TLAPS

Launched == 1 .. launched

CaptureAt == {"unspawned", "setup", "running", "sending", "ended"}
DeliverAt == {"unspawned", "waiting", "attaching", "calling", "ended"}
CallAt == {"idle", "joining", "rejoining", "configuring", "awaiting", "late"}

\* TypeOK, one variable at a time.
HandleTypes ==
    /\ gil \in {None} \cup Actors
    /\ published \in {None} \cup Captures /\ starting \in {None} \cup Captures
    /\ cursorRef \in BOOLEAN /\ users \in 0 .. MaxCaptures
    /\ live \subseteq Captures /\ overtaken \subseteq Captures /\ abandoned \subseteq Captures
ThreadTypes ==
    /\ stop \in [Captures -> BOOLEAN] /\ told \in [Captures -> BOOLEAN]
    /\ queued \in [Captures -> BOOLEAN]
    /\ capture \in [Captures -> CaptureAt] /\ deliver \in [Captures -> DeliverAt]
CallTypes ==
    /\ pc \in [Actors -> CallAt] /\ of \in [Actors -> {None} \cup Captures]
    /\ launched \in 0 .. MaxCaptures /\ calls \in 0 .. MaxCalls /\ timeouts \in 0 .. MaxTimeouts
Types == HandleTypes /\ ThreadTypes /\ CallTypes

\* A start waits for the threads of the capture it launched.
Awaits(a) == pc[a] \in {"awaiting", "late"}

\* A launched capture is in one place: starting, published, published over, or in the
\* hands of the one start that launched it.
HandleInPlace ==
    /\ published \in {None} \cup Launched /\ starting \in {None} \cup Launched
    /\ overtaken \subseteq Launched \ {published, starting}
    /\ starting # None => starting # published
CallsInPlace ==
    /\ \A a \in Actors : Awaits(a) => of[a] \in Launched \ (overtaken \cup {published})
    /\ \A a, b \in Actors : Awaits(a) /\ Awaits(b) /\ a # b => of[a] # of[b]
InPlace == HandleInPlace /\ CallsInPlace

\* A thread not spawned belongs to no launched capture, and one that ended is flagged.
ThreadsAgree ==
    \A c \in Captures : /\ c \notin Launched => capture[c] = "unspawned" /\ ~stop[c]
                        /\ capture[c] = "ended" => stop[c]

IInv == Types /\ InPlace /\ ThreadsAgree /\ CursorIsPaired /\ RunningIsHeld

--------------------------------------------------------------------------------

\* The bounds on the numbers of things, and that no thread is taken for none.
LEMMA Naming ==
    /\ MaxCaptures \in Nat /\ MaxCalls \in Nat /\ MaxTimeouts \in Nat
    /\ None \notin Actors /\ None \notin Captures
    /\ \A c \in Captures : c \notin Callers
  BY LifecycleAssumption DEF None, Actors, Captures

\* Captures are finitely many, and so are those published over.
LEMMA Counting ==
    ASSUME NEW S \in SUBSET Captures
    PROVE  IsFiniteSet(S) /\ Cardinality(S) \in 0 .. MaxCaptures
<1>1. IsFiniteSet(Captures) /\ Cardinality(Captures) = MaxCaptures
  BY Naming, FS_Interval DEF Captures
<1>2. IsFiniteSet(S) /\ Cardinality(S) <= Cardinality(Captures)
  BY <1>1, FS_Subset
<1> QED
  BY <1>1, <1>2, Naming, FS_CardinalityType

\* The initial state is in the invariant.
LEMMA InitHolds == Init => IInv
<1> SUFFICES ASSUME Init PROVE IInv
  OBVIOUS
<1> USE Naming
<1>1. Types
  <2>1. HandleTypes
    <3>1. users \in 0 .. MaxCaptures
      BY DEF Init
    <3>2. live \subseteq Captures /\ overtaken \subseteq Captures /\ abandoned \subseteq Captures
      BY DEF Init
    <3>3. gil \in {None} /\ published \in {None} /\ starting \in {None} /\ cursorRef \in BOOLEAN
      BY DEF Init
    <3> QED
      BY <3>1, <3>2, <3>3 DEF HandleTypes
  <2>2. ThreadTypes
    BY DEF Init, ThreadTypes, CaptureAt, DeliverAt
  <2>3. CallTypes
    BY DEF Init, CallTypes, CallAt
  <2> QED
    BY <2>1, <2>2, <2>3 DEF Types
<1>2. InPlace
  BY DEF Init, InPlace, HandleInPlace, CallsInPlace, Awaits, Launched
<1>3. ThreadsAgree
  BY DEF Init, ThreadsAgree
<1>4. CursorIsPaired
  BY FS_EmptySet DEF Init, CursorIsPaired
<1>5. RunningIsHeld
  BY DEF Init, RunningIsHeld
<1> QED
  BY <1>1, <1>2, <1>3, <1>4, <1>5 DEF IInv

--------------------------------------------------------------------------------

\* What the step of a capture's own threads leaves alone, and what it may do to the flags.
LEMMA ThreadStep ==
    ASSUME NEW c \in Captures, IInv,
           CaptureThread(c) \/ Code(c) \/ Fail(c) \/ DeliveryThread(c) \/ Attach(c)
    PROVE  IInv'
<1> USE Naming
<1>1. UNCHANGED <<handle, live, pc, of, bounds, history>>
  BY DEF CaptureThread, DeliveryThread, SetUp, Code, Send, End, Fail, Receive, Attach, CallbackReturns, DeliveryEnds
<1>2. /\ stop' \in [Captures -> BOOLEAN] /\ capture' \in [Captures -> CaptureAt]
      /\ \A d \in Captures : /\ capture'[d] = "unspawned" <=> capture[d] = "unspawned"
                             /\ stop'[d] = stop[d] \/ (stop'[d] /\ capture[d] # "unspawned")
                             /\ capture'[d] = "ended" => stop'[d]
  <2> USE DEF IInv, Types, ThreadTypes, CaptureAt, ThreadsAgree, To
  <2>1. CASE SetUp(c)
    BY <2>1 DEF SetUp
  <2>2. CASE Code(c)
    BY <2>2 DEF Code
  <2>3. CASE Send(c)
    BY <2>3 DEF Send
  <2>4. CASE End(c)
    BY <2>4 DEF End
  <2>5. CASE Fail(c)
    BY <2>5 DEF Fail
  <2>6. CASE DeliveryThread(c) \/ Attach(c)
    BY <2>6 DEF DeliveryThread, Receive, Attach, CallbackReturns, DeliveryEnds
  <2> QED
    BY <2>1, <2>2, <2>3, <2>4, <2>5, <2>6 DEF CaptureThread
<1>7. Types'
  <2>1. told' \in [Captures -> BOOLEAN] /\ queued' \in [Captures -> BOOLEAN]
    BY DEF IInv, Types, ThreadTypes, CaptureThread, DeliveryThread, SetUp, Code, Send, End, Fail,
           Receive, Attach, CallbackReturns, DeliveryEnds
  <2>2. deliver' \in [Captures -> DeliverAt] /\ gil' \in {None} \cup Actors
    BY DEF IInv, Types, HandleTypes, ThreadTypes, DeliverAt, CaptureThread, DeliveryThread, SetUp, Code, Send,
           End, Fail, Receive, Attach, CallbackReturns, DeliveryEnds, Actors
  <2> QED
    BY <1>1, <1>2, <2>1, <2>2 DEF IInv, Types, HandleTypes, ThreadTypes, CallTypes, handle, bounds, history
<1>3. InPlace'
  <2>1. HandleInPlace'
    BY <1>1, <1>2 DEF IInv, Types, CallTypes, InPlace, HandleInPlace, CallsInPlace, Launched, None, handle, bounds, history
  <2>2. CallsInPlace'
    BY <1>1, <1>2 DEF IInv, Types, CallTypes, InPlace, HandleInPlace, CallsInPlace, Awaits, Launched, None, handle, bounds, history
  <2> QED
    BY <2>1, <2>2 DEF InPlace
<1>4. ThreadsAgree'
  BY <1>1, <1>2 DEF IInv, Types, HandleTypes, ThreadTypes, CallTypes, ThreadsAgree, Launched, bounds
<1>5. CursorIsPaired'
  BY <1>1, <1>2 DEF IInv, CursorIsPaired, handle, history
<1>6. RunningIsHeld'
  BY <1>1, <1>2 DEF IInv, Types, HandleTypes, ThreadTypes, CallTypes, RunningIsHeld, handle, history
<1> QED
  BY <1>3, <1>4, <1>5, <1>6, <1>7 DEF IInv

\* A stop, or the stop a start begins with, keeps the invariant.
LEMMA StopStep ==
    ASSUME NEW a \in Actors, IInv, StopCapture(a) \/ StartCapture(a)
    PROVE  IInv'
<1> USE Naming
<1>1. PICK waiting \in {"joining", "rejoining"}, done \in {"idle", "configuring"} :
          StopInternal(a, waiting, done)
  BY DEF StopCapture, StartCapture
<1> USE <1>1 DEF StopInternal
<1>2. users' \in 0 .. MaxCaptures
  BY DEF IInv, Types, HandleTypes, ThreadTypes, CallTypes, ReleaseCursor
<1>3. Types'
  <2>1. HandleTypes'
    BY <1>2 DEF IInv, Types, HandleTypes, TakeCapture, MayCall, threads, Reentrant
  <2>2. ThreadTypes'
    BY <1>2 DEF IInv, Types, ThreadTypes, TakeCapture, MayCall, threads, Reentrant
  <2>3. CallTypes'
    BY <1>2 DEF IInv, Types, HandleTypes, CallTypes, CallAt, TakeCapture, MayCall, threads, Reentrant
  <2> QED
    BY <2>1, <2>2, <2>3 DEF Types
<1>4. InPlace'
  <2>1. HandleInPlace'
    BY DEF IInv, Types, CallTypes, InPlace, HandleInPlace, CallsInPlace, Launched, None, TakeCapture
  <2>2. CallsInPlace'
    BY DEF IInv, Types, CallTypes, InPlace, HandleInPlace, CallsInPlace, Awaits, Launched, None, TakeCapture
  <2> QED
    BY <2>1, <2>2 DEF InPlace
<1>5. ThreadsAgree'
  BY DEF IInv, Types, CallTypes, InPlace, HandleInPlace, CallsInPlace, ThreadsAgree, Launched, TakeCapture, threads
<1>6. CursorIsPaired'
  <2>1. Cardinality(overtaken) \in 0 .. MaxCaptures
    BY Counting DEF IInv, Types, HandleTypes, ThreadTypes, CallTypes
  <2> QED
    BY <2>1 DEF IInv, Types, HandleTypes, ThreadTypes, CallTypes, CursorIsPaired, TakeCapture, ReleaseCursor
<1>7. RunningIsHeld'
  BY DEF IInv, Types, HandleTypes, ThreadTypes, CallTypes, RunningIsHeld, TakeCapture, threads
<1> QED
  BY <1>3, <1>4, <1>5, <1>6, <1>7 DEF IInv

\* The end of a wait for a capture's threads, in time or not, keeps the invariant.
LEMMA JoinStep ==
    ASSUME NEW a \in Actors, IInv, Join(a) \/ JoinTimesOut(a)
    PROVE  IInv'
<1> USE Naming
<1>1. AfterJoin(a)
  BY DEF Join, JoinTimesOut
<1>2. timeouts' \in 0 .. MaxTimeouts /\ abandoned' \subseteq Captures
  BY DEF IInv, Types, HandleTypes, ThreadTypes, CallTypes, Join, JoinTimesOut, Joined
<1>3. Types'
  <2>1. HandleTypes'
    BY <1>1, <1>2 DEF IInv, Types, HandleTypes, AfterJoin, Return, Holder, handle, threads
  <2>2. ThreadTypes'
    BY <1>1, <1>2 DEF IInv, Types, ThreadTypes, AfterJoin, Return, Holder, handle, threads
  <2>3. CallTypes'
    BY <1>1, <1>2 DEF IInv, Types, CallTypes, CallAt, AfterJoin, Return, Holder, handle, threads
  <2> QED
    BY <2>1, <2>2, <2>3 DEF Types
<1>4. InPlace'
  <2>1. HandleInPlace'
    BY <1>1 DEF IInv, Types, CallTypes, InPlace, HandleInPlace, CallsInPlace, Launched, None, AfterJoin, Return, handle
  <2>2. CallsInPlace'
    BY <1>1 DEF IInv, Types, CallTypes, InPlace, HandleInPlace, CallsInPlace, Awaits, Launched, None, AfterJoin, Return, handle
  <2> QED
    BY <2>1, <2>2 DEF InPlace
<1>5. ThreadsAgree' /\ CursorIsPaired' /\ RunningIsHeld'
  BY <1>1 DEF IInv, ThreadsAgree, CursorIsPaired, RunningIsHeld, Launched, AfterJoin, handle, threads
<1> QED
  BY <1>3, <1>4, <1>5 DEF IInv

\* A launch flags the capture it replaces in `starting`, and holds its own.
LEMMA LaunchStep ==
    ASSUME NEW a \in Actors, IInv, Launch(a)
    PROVE  IInv'
<1> USE Naming
<1> DEFINE c == launched + 1
<1>0. c \in Captures /\ c \notin Launched
  BY DEF IInv, Types, HandleTypes, ThreadTypes, CallTypes, Launch, Launched, Captures
<1>1. Types'
  <2>1. HandleTypes'
    <3>1. live' \subseteq Captures /\ overtaken' \subseteq Captures /\ abandoned' \subseteq Captures
      BY <1>0 DEF IInv, Types, HandleTypes, Launch, history
    <3>2. starting' \in Captures /\ gil' = None
      BY <1>0 DEF Launch
    <3>3. UNCHANGED <<published, cursorRef, users>>
      BY DEF Launch
    <3> QED
      BY <3>1, <3>2, <3>3 DEF IInv, Types, HandleTypes
  <2>2. ThreadTypes'
    BY <1>0 DEF IInv, Types, ThreadTypes, CaptureAt, DeliverAt, Launch, To
  <2>3. CallTypes'
    BY <1>0 DEF IInv, Types, CallTypes, CallAt, Launch, To, Captures
  <2> QED
    BY <2>1, <2>2, <2>3 DEF Types
<1>2. InPlace'
  <2>1. HandleInPlace'
    BY <1>0 DEF IInv, Types, CallTypes, InPlace, HandleInPlace, CallsInPlace, Launched, None, Launch, history
  <2>2. CallsInPlace'
    BY <1>0 DEF IInv, Types, CallTypes, InPlace, HandleInPlace, CallsInPlace, Awaits, Launched, None, Launch, history
  <2> QED
    BY <2>1, <2>2 DEF InPlace
<1>3. ThreadsAgree'
  <2>1. launched' = c /\ capture' = [capture EXCEPT ![c] = "setup"]
        /\ stop' = [d \in Captures |-> stop[d] \/ d = starting]
    BY DEF Launch, To
  <2>2. launched \in Nat /\ (starting \in Launched \/ starting = None)
    BY DEF IInv, Types, CallTypes, InPlace, HandleInPlace
  <2> QED
    BY <1>0, <2>1, <2>2 DEF IInv, Types, ThreadTypes, ThreadsAgree, Launched
<1>4. CursorIsPaired'
  BY DEF IInv, CursorIsPaired, Launch, history
<1>5. RunningIsHeld'
  BY <1>0 DEF IInv, Types, HandleTypes, ThreadTypes, CallTypes, RunningIsHeld, Launch, To, history, None, Captures
<1> QED
  BY <1>1, <1>2, <1>3, <1>4, <1>5 DEF IInv

\* A publication gives the cursor one more user, and hands what it replaces to `overtaken`.
LEMMA PublishStep ==
    ASSUME NEW a \in Actors, IInv, Publish(a)
    PROVE  IInv'
<1> USE Naming
<1>0. Awaits(a) /\ of[a] = starting /\ of[a] \in Launched /\ of[a] \notin overtaken \cup {published}
  BY DEF IInv, InPlace, HandleInPlace, CallsInPlace, Publish, IsUp, Awaits
<1>1. of[a] \in Captures /\ Launched \subseteq Captures
  BY <1>0 DEF IInv, Types, HandleTypes, ThreadTypes, CallTypes, Launched, Captures
<1>2. CursorIsPaired' /\ users' \in 0 .. MaxCaptures
  <2>1. overtaken \subseteq Captures /\ IsFiniteSet(overtaken) /\ Cardinality(overtaken) \in Nat
    BY Counting, FS_CardinalityType DEF IInv, Types, HandleTypes, ThreadTypes, CallTypes
  <2>2. overtaken' \subseteq Captures /\ of[a] \notin overtaken'
    BY <1>0, <2>1 DEF IInv, Types, HandleTypes, ThreadTypes, CallTypes, Publish
  <2>3. Cardinality(overtaken') = users
    <3>1. CASE published = None
      BY <3>1, <2>1 DEF IInv, CursorIsPaired, Publish
    <3>2. CASE published # None
      <4>1. published \notin overtaken
        BY DEF IInv, InPlace, HandleInPlace
      <4>2. overtaken' = overtaken \cup {published}
        BY <3>2 DEF Publish
      <4> QED
        BY <3>2, <4>1, <4>2, <2>1, FS_AddElement DEF IInv, CursorIsPaired
    <3> QED
      BY <3>1, <3>2
  <2>4. Cardinality(overtaken' \cup {of[a]}) = users + 1
    BY <2>2, <2>3, Counting, FS_AddElement
  <2>5. users + 1 \in 0 .. MaxCaptures
    BY <2>2, <2>4, <1>1, Counting
  <2> QED
    BY <2>3, <2>5, <1>1 DEF IInv, Types, HandleTypes, ThreadTypes, CallTypes, CursorIsPaired, Publish
<1>3. Types'
  <2>1. HandleTypes'
    BY <1>0, <1>1, <1>2 DEF IInv, Types, HandleTypes, Publish, Return, Holder, threads, bounds
  <2>2. ThreadTypes'
    BY <1>0, <1>1, <1>2 DEF IInv, Types, ThreadTypes, Publish, Return, Holder, threads, bounds
  <2>3. CallTypes'
    BY <1>0, <1>1, <1>2 DEF IInv, Types, CallTypes, CallAt, Publish, Return, Holder, threads, bounds
  <2> QED
    BY <2>1, <2>2, <2>3 DEF Types
<1>4. InPlace'
  <2>1. HandleInPlace'
    BY <1>0, <1>1 DEF IInv, Types, CallTypes, InPlace, HandleInPlace, CallsInPlace, Launched, None, Publish, Return, bounds
  <2>2. CallsInPlace'
    BY <1>0, <1>1 DEF IInv, Types, CallTypes, InPlace, HandleInPlace, CallsInPlace, Awaits, Launched, None, Publish, Return, bounds
  <2> QED
    BY <2>1, <2>2 DEF InPlace
<1>5. ThreadsAgree'
  BY DEF IInv, ThreadsAgree, Launched, Publish, threads, bounds
<1>6. RunningIsHeld'
  BY <1>0, <1>1 DEF IInv, Types, HandleTypes, ThreadTypes, CallTypes, RunningIsHeld, Publish, threads
<1> QED
  BY <1>2, <1>3, <1>4, <1>5, <1>6 DEF IInv

\* A capture superseded, or that failed to start, was flagged: it may leave the registry.
LEMMA GivenUpStep ==
    ASSUME NEW a \in Actors, IInv, Superseded(a) \/ StartFails(a)
    PROVE  IInv'
<1> USE Naming
<1>0. Awaits(a) /\ of[a] \in Launched /\ of[a] \notin overtaken \cup {published}
  BY DEF IInv, InPlace, HandleInPlace, CallsInPlace, Superseded, StartFails, IsUp, Awaits
<1>1. of[a] \in Captures
  BY <1>0 DEF IInv, Types, HandleTypes, ThreadTypes, CallTypes, Launched, Captures
<1>2. capture[of[a]] # "unspawned" => stop[of[a]]
  BY <1>0, <1>1 DEF IInv, ThreadsAgree, RunningIsHeld, Superseded, StartFails
<1>3. Types'
  <2>1. HandleTypes'
    BY DEF IInv, Types, HandleTypes, Superseded, StartFails, Return, Holder, handle, threads, bounds, history
  <2>2. ThreadTypes'
    BY DEF IInv, Types, ThreadTypes, Superseded, StartFails, Return, Holder, handle, threads, bounds, history
  <2>3. CallTypes'
    BY DEF IInv, Types, CallTypes, CallAt, Superseded, StartFails, Return, Holder, handle, threads, bounds, history
  <2> QED
    BY <2>1, <2>2, <2>3 DEF Types
<1>4. InPlace'
  <2>1. HandleInPlace'
    <3>1. UNCHANGED <<published, overtaken, launched>> /\ starting' \in {None, starting}
      BY DEF Superseded, StartFails, handle, bounds, history
    <3> QED
      BY <3>1 DEF IInv, Types, CallTypes, InPlace, HandleInPlace, Launched, None
  <2>2. CallsInPlace'
    BY DEF IInv, Types, CallTypes, InPlace, HandleInPlace, CallsInPlace, Awaits, Launched, None, Superseded, StartFails, Return, handle, bounds, history
  <2> QED
    BY <2>1, <2>2 DEF InPlace
<1>5. ThreadsAgree' /\ CursorIsPaired'
  BY DEF IInv, ThreadsAgree, CursorIsPaired, Launched, Superseded, StartFails, handle, threads, bounds, history
<1>6. RunningIsHeld'
  BY <1>1, <1>2 DEF IInv, Types, HandleTypes, ThreadTypes, CallTypes, RunningIsHeld, Superseded, StartFails, handle, threads, history
<1> QED
  BY <1>3, <1>4, <1>5, <1>6 DEF IInv

\* Settings refused, and an id that is late, change nothing but where the call is.
LEMMA CallStep ==
    ASSUME NEW a \in Actors, IInv, Refuse(a) \/ IdIsLate(a)
    PROVE  IInv'
<1> USE Naming
<1>1. Types'
  <2>1. HandleTypes'
    BY DEF IInv, Types, HandleTypes, Refuse, IdIsLate, Return, Holder, handle, threads, bounds, history
  <2>2. ThreadTypes'
    BY DEF IInv, Types, ThreadTypes, Refuse, IdIsLate, Return, Holder, handle, threads, bounds, history
  <2>3. CallTypes'
    BY DEF IInv, Types, CallTypes, CallAt, Refuse, IdIsLate, Return, Holder, handle, threads, bounds, history
  <2> QED
    BY <2>1, <2>2, <2>3 DEF Types
<1>2. InPlace'
  <2>1. HandleInPlace'
    BY DEF IInv, Types, CallTypes, InPlace, HandleInPlace, CallsInPlace, Launched, None, Refuse, IdIsLate, Return, handle, bounds, history
  <2>2. CallsInPlace'
    BY DEF IInv, Types, CallTypes, InPlace, HandleInPlace, CallsInPlace, Awaits, Launched, None, Refuse, IdIsLate, Return, handle, bounds, history
  <2> QED
    BY <2>1, <2>2 DEF InPlace
<1>3. ThreadsAgree' /\ CursorIsPaired' /\ RunningIsHeld'
  BY DEF IInv, ThreadsAgree, CursorIsPaired, RunningIsHeld, Launched, Refuse, IdIsLate, handle, threads, bounds, history
<1> QED
  BY <1>1, <1>2, <1>3 DEF IInv

\* Every step keeps the invariant.
LEMMA StepHolds == IInv /\ [Next]_vars => IInv'
<1> SUFFICES ASSUME IInv, [Next]_vars PROVE IInv'
  OBVIOUS
<1>1. CASE UNCHANGED vars
  BY <1>1 DEF IInv, Types, HandleTypes, ThreadTypes, CallTypes, InPlace, HandleInPlace, CallsInPlace, Awaits,
              Launched, ThreadsAgree, CursorIsPaired, RunningIsHeld, vars, handle, threads, bounds, history
<1>2. CASE \E c \in Captures : CaptureThread(c) \/ Code(c) \/ Fail(c) \/ DeliveryThread(c) \/ Attach(c)
  BY <1>2, ThreadStep
<1>3. CASE \E a \in Actors : StopCapture(a) \/ StartCapture(a)
  BY <1>3, StopStep
<1>4. CASE \E a \in Actors : Proceeds(a) \/ JoinTimesOut(a)
  BY <1>4, JoinStep, PublishStep, GivenUpStep DEF Proceeds
<1>5. CASE \E a \in Actors : Configures(a) \/ IdIsLate(a)
  BY <1>5, LaunchStep, CallStep DEF Configures
<1> QED
  BY <1>1, <1>2, <1>3, <1>4, <1>5 DEF Next

LEMMA Invariant == Spec => []IInv
  BY InitHolds, StepHolds, PTL DEF Spec

--------------------------------------------------------------------------------

\* Every variable of the handle, its captures and its calls keeps its type (lib.rs
\* 9189-9688); the users of the cursor monitor are never more than the captures.
THEOREM LifecycleTypes == Spec => []TypeOK
<1>1. IInv => TypeOK
  BY DEF IInv, Types, HandleTypes, ThreadTypes, CallTypes, CaptureAt, DeliverAt, CallAt, TypeOK
<1> QED
  BY <1>1, Invariant, PTL

\* The references on the cursor monitor (cursor.rs 85-148) pair with the captures that took
\* one, but for the captures two overlapping starts publish over.
THEOREM ReferencesPair == Spec => []CursorIsPaired
<1>1. IInv => CursorIsPaired
  BY DEF IInv
<1> QED
  BY <1>1, Invariant, PTL

\* A running capture not told to stop is in the registry, and in the handle unless it was
\* published over (lib.rs 9672-9685).
THEOREM NothingElseIsLost == Spec => []RunningIsHeld
<1>1. IInv => RunningIsHeld
  BY DEF IInv
<1> QED
  BY <1>1, Invariant, PTL

--------------------------------------------------------------------------------
(* An idle handle is quiet.                                                *)

\* No callback comes from the capture, nor will one.
IsQuiet(c) == ~queued[c] /\ deliver[c] \in {"waiting", "ended"} /\ capture[c] = "ended"

\* A call that waits for the capture.
WaitsFor(a, c) == pc[a] \in {"joining", "rejoining", "awaiting", "late"} /\ of[a] = c

\* Somebody answers for every capture that makes a sound: the handle, the call that
\* waits for it, or nobody any more, where it was left to itself or published over.
Answered ==
    \A c \in Launched \ (abandoned \cup overtaken) :
        c = published \/ IsQuiet(c) \/ \E a \in Actors : WaitsFor(a, c)

\* A capture that is not up yet has nothing to deliver, and a delivery thread that
\* ended left nothing behind.
DeliveryAgrees ==
    /\ \A c \in Captures : ~told[c] => /\ ~queued[c]
                                       /\ deliver[c] \notin {"attaching", "calling"}
                                       /\ capture[c] \notin {"running", "sending"}
    /\ \A c \in Captures : deliver[c] = "ended" => ~queued[c] /\ capture[c] = "ended"
    /\ \A c \in Launched : deliver[c] # "unspawned"

QuietInv == Answered /\ DeliveryAgrees

LEMMA LaunchedAreCaptures == ASSUME CallTypes PROVE Launched \subseteq Captures
  BY Naming DEF CallTypes, Launched, Captures

LEMMA ThreadsQuiet ==
    ASSUME NEW c \in Captures, IInv, QuietInv,
           CaptureThread(c) \/ Code(c) \/ Fail(c) \/ DeliveryThread(c) \/ Attach(c)
    PROVE  QuietInv'
<1>1. UNCHANGED <<published, pc, of, launched, overtaken, abandoned>>
  BY DEF CaptureThread, DeliveryThread, SetUp, Code, Send, End, Fail, Receive, Attach,
         CallbackReturns, DeliveryEnds, handle, bounds, history
<1> USE DEF IInv, Types, ThreadTypes, CaptureAt, DeliverAt, To
<1>2. DeliveryAgrees' /\ \A d \in Captures : IsQuiet(d) => IsQuiet(d)'
  <2> USE <1>1 DEF QuietInv, DeliveryAgrees, IsQuiet, Launched
  <2>1. CASE SetUp(c)
    BY <2>1 DEF SetUp
  <2>2. CASE Code(c)
    BY <2>2 DEF Code
  <2>3. CASE Send(c)
    BY <2>3 DEF Send
  <2>4. CASE End(c)
    BY <2>4 DEF End
  <2>5. CASE Fail(c)
    BY <2>5 DEF Fail
  <2>6. CASE Receive(c)
    BY <2>6 DEF Receive
  <2>7. CASE Attach(c)
    BY <2>7 DEF Attach
  <2>8. CASE CallbackReturns(c)
    BY <2>8 DEF CallbackReturns
  <2>9. CASE DeliveryEnds(c)
    BY <2>9 DEF DeliveryEnds
  <2> QED
    BY <2>1, <2>2, <2>3, <2>4, <2>5, <2>6, <2>7, <2>8, <2>9 DEF CaptureThread, DeliveryThread
<1>3. Launched \subseteq Captures
  BY LaunchedAreCaptures
<1>4. Answered'
  BY <1>1, <1>2, <1>3 DEF QuietInv, Answered, WaitsFor, Launched
<1> QED
  BY <1>2, <1>4 DEF QuietInv

\* The calls move no thread of a capture, but for the launch of one.
LEMMA CallsQuiet ==
    ASSUME NEW a \in Actors, IInv, QuietInv, UNCHANGED <<threads, launched>>,
           Answered'
    PROVE  QuietInv'
  BY DEF QuietInv, DeliveryAgrees, Launched, threads

LEMMA StopQuiet ==
    ASSUME NEW a \in Actors, IInv, QuietInv, StopCapture(a) \/ StartCapture(a)
    PROVE  QuietInv'
<1>1. PICK waiting \in {"joining", "rejoining"}, done \in {"idle", "configuring"} :
          StopInternal(a, waiting, done)
  BY DEF StopCapture, StartCapture
<1>2. UNCHANGED <<threads, launched, overtaken>> /\ pc[a] = "idle"
  BY <1>1 DEF StopInternal, MayCall
<1>3. \A c : c = published => c \in abandoned' \/ WaitsFor(a, c)'
  BY <1>1 DEF StopInternal, Waits, Reentrant, WaitsFor, IInv, Types, CallTypes
<1>4. /\ \A b \in Actors \ {a} : pc'[b] = pc[b] /\ of'[b] = of[b]
      /\ abandoned \subseteq abandoned'
  BY <1>1 DEF StopInternal, IInv, Types, CallTypes
<1>6. Answered'
  <2>1. \A c : IsQuiet(c) => IsQuiet(c)'
    BY <1>2 DEF IsQuiet, threads
  <2>2. \A b \in Actors : \A c : WaitsFor(b, c) => WaitsFor(b, c)'
    BY <1>2, <1>4 DEF WaitsFor
  <2>3. Launched' = Launched /\ overtaken' = overtaken
    BY <1>2 DEF Launched
  <2> QED
    BY <1>3, <1>4, <2>1, <2>2, <2>3 DEF QuietInv, Answered
<1> QED
  BY <1>2, <1>6, CallsQuiet

LEMMA JoinQuiet ==
    ASSUME NEW a \in Actors, IInv, QuietInv, Join(a) \/ JoinTimesOut(a)
    PROVE  QuietInv'
<1>1. AfterJoin(a)
  BY DEF Join, JoinTimesOut
<1>2. UNCHANGED <<threads, launched, published, overtaken>>
  BY <1>1 DEF AfterJoin, handle
<1>3. /\ \A b \in Actors \ {a} : pc'[b] = pc[b] /\ of'[b] = of[b]
      /\ abandoned \subseteq abandoned'
  BY <1>1 DEF AfterJoin, Return, Join, JoinTimesOut, IInv, Types, CallTypes
<1>4. \A c \in Captures : c = of[a] => c \in abandoned' \/ IsQuiet(c)'
  BY <1>2 DEF Join, JoinTimesOut, Joined, Ended, IsQuiet, QuietInv, DeliveryAgrees, threads
<1>5. Launched \subseteq Captures
  BY LaunchedAreCaptures DEF IInv, Types
<1>6. Answered'
  <2>1. \A c : IsQuiet(c) => IsQuiet(c)'
    BY <1>2 DEF IsQuiet, threads
  <2>2. \A b \in Actors \ {a} : \A c : WaitsFor(b, c) => WaitsFor(b, c)'
    BY <1>3 DEF WaitsFor
  <2>3. \A c : WaitsFor(a, c) => c = of[a]
    BY DEF WaitsFor
  <2>4. Launched' = Launched /\ overtaken' = overtaken /\ published' = published
    BY <1>2 DEF Launched
  <2> QED
    BY <1>3, <1>4, <1>5, <2>1, <2>2, <2>3, <2>4 DEF QuietInv, Answered
<1> QED
  BY <1>2, <1>6, CallsQuiet

LEMMA LaunchQuiet ==
    ASSUME NEW a \in Actors, IInv, QuietInv, Launch(a)
    PROVE  QuietInv'
<1> DEFINE c == launched + 1
<1>1. /\ c \in Captures /\ launched' = c /\ c \notin Launched /\ Launched' = Launched \cup {c}
      /\ pc[a] = "configuring" /\ pc'[a] = "awaiting" /\ of'[a] = c
      /\ UNCHANGED <<published, overtaken, abandoned, told, queued>>
      /\ capture' = [capture EXCEPT ![c] = "setup"]
      /\ deliver' = [deliver EXCEPT ![c] = "waiting"]
  BY DEF Launch, To, Launched, IInv, Types, CallTypes, history
<1>2. \A b \in Actors \ {a} : pc'[b] = pc[b] /\ of'[b] = of[b]
  BY DEF Launch, IInv, Types, CallTypes
<1>3. Launched \subseteq Captures
  BY LaunchedAreCaptures DEF IInv, Types
<1>4. Answered'
  <2>1. \A d \in Launched : IsQuiet(d) => IsQuiet(d)'
    BY <1>1, <1>3 DEF IsQuiet, IInv, Types, ThreadTypes
  <2>2. \A d : d = c => WaitsFor(a, d)'
    BY <1>1 DEF WaitsFor
  <2>3. \A d \in Launched, b \in Actors : WaitsFor(b, d) => WaitsFor(b, d)'
    BY <1>1, <1>2 DEF WaitsFor
  <2> QED
    BY <1>1, <2>1, <2>2, <2>3 DEF QuietInv, Answered
<1>5. DeliveryAgrees'
  BY <1>1, <1>3 DEF QuietInv, DeliveryAgrees, IInv, Types, ThreadTypes, ThreadsAgree
<1> QED
  BY <1>4, <1>5 DEF QuietInv

\* Publishing, superseding and failing starts hand their capture on.
LEMMA StartQuiet ==
    ASSUME NEW a \in Actors, IInv, QuietInv,
           Publish(a) \/ Superseded(a) \/ StartFails(a) \/ Refuse(a) \/ IdIsLate(a)
    PROVE  QuietInv'
<1>1. UNCHANGED <<threads, launched, abandoned>>
  BY DEF Publish, Superseded, StartFails, Refuse, IdIsLate, Return, bounds, history
<1>2. /\ \A b \in Actors \ {a} : pc'[b] = pc[b] /\ of'[b] = of[b]
      /\ overtaken \subseteq overtaken'
  BY DEF Publish, Superseded, StartFails, Refuse, IdIsLate, Return, history, IInv, Types,
         CallTypes
<1>3. published' = published \/ published \in overtaken' \cup {None}
  BY DEF Publish, Superseded, StartFails, Refuse, IdIsLate, handle
<1>4. \A c \in Launched :
          WaitsFor(a, c) => c = published' \/ IsQuiet(c)' \/ WaitsFor(a, c)'
  <2>1. CASE Publish(a)
    BY <2>1 DEF Publish, WaitsFor
  <2>2. CASE StartFails(a)
    <3>1. of[a] \in Captures => ~queued[of[a]] /\ deliver[of[a]] \notin {"attaching", "calling"}
      BY <2>2 DEF StartFails, QuietInv, DeliveryAgrees
    <3>2. \A c \in Launched : c = of[a] => IsQuiet(c)
      BY <2>2, <3>1, LaunchedAreCaptures
         DEF StartFails, IsQuiet, QuietInv, DeliveryAgrees, IInv, Types, ThreadTypes, DeliverAt
    <3> QED
      BY <1>1, <3>2 DEF WaitsFor, IsQuiet, threads
  <2>3. CASE Superseded(a) \/ Refuse(a) \/ IdIsLate(a)
    BY <2>3 DEF Superseded, Refuse, IdIsLate, WaitsFor, IInv, Types, CallTypes
  <2> QED
    BY <2>1, <2>2, <2>3
<1>5. \A c \in Launched : c # None
  BY DEF Launched, None
<1>6. Answered'
  <2>1. \A c : IsQuiet(c) => IsQuiet(c)'
    BY <1>1 DEF IsQuiet, threads
  <2>2. \A b \in Actors \ {a} : \A c : WaitsFor(b, c) => WaitsFor(b, c)'
    BY <1>2 DEF WaitsFor
  <2>3. Launched' = Launched /\ abandoned' = abandoned
    BY <1>1 DEF Launched
  <2> QED
    BY <1>2, <1>3, <1>4, <1>5, <2>1, <2>2, <2>3 DEF QuietInv, Answered
<1> QED
  BY <1>1, <1>6, CallsQuiet

LEMMA StepQuiet == IInv /\ QuietInv /\ [Next]_vars => QuietInv'
<1> SUFFICES ASSUME IInv, QuietInv, [Next]_vars PROVE QuietInv'
  OBVIOUS
<1>1. CASE UNCHANGED vars
  BY <1>1 DEF QuietInv, Answered, DeliveryAgrees, IsQuiet, WaitsFor, Launched, vars, handle,
              threads, bounds, history
<1>2. CASE \E c \in Captures : CaptureThread(c) \/ Code(c) \/ Fail(c) \/ DeliveryThread(c) \/ Attach(c)
  BY <1>2, ThreadsQuiet
<1>3. CASE \E a \in Actors : StopCapture(a) \/ StartCapture(a)
  BY <1>3, StopQuiet
<1>4. CASE \E a \in Actors : Proceeds(a) \/ JoinTimesOut(a) \/ Configures(a) \/ IdIsLate(a)
  BY <1>4, JoinQuiet, LaunchQuiet, StartQuiet DEF Proceeds, Configures
<1> QED
  BY <1>1, <1>2, <1>3, <1>4 DEF Next

\* Once every call has returned and nothing is published, no callback comes any more:
\* however calls overlap, time out or come from callbacks, a capture that may still
\* deliver is the one published or one a call waits for, or it was left to itself.
THEOREM IdleHandleIsQuiet == Spec => []IdleIsQuiet
<1>1. Init => QuietInv
  BY LifecycleAssumption
     DEF Init, QuietInv, Answered, DeliveryAgrees, Launched
<1>2. QuietInv => IdleIsQuiet
  BY DEF QuietInv, Answered, IdleIsQuiet, IsQuiet, WaitsFor, Launched, None
<1> QED
  BY <1>1, <1>2, InitHolds, StepHolds, StepQuiet, PTL DEF Spec

================================================================================
