----------------------------- MODULE WlFramePool -----------------------------
(***************************************************************************)
(* The handoff between the compositor thread (the calloop), which fills    *)
(* capture buffers, and the encode thread of one Wayland capture: struct   *)
(* WlFramePool of pixelflux/src/lib.rs with the two threads that drive it. *)
(*                                                                         *)
(* Every method of the pool is one critical section of its mutex, and its  *)
(* notify_all comes after the unlock, so a critical section is an action   *)
(* and a notification is another.  take() also sleeps inside its critical  *)
(* section: between its look at slot and stop and the wait that releases   *)
(* the mutex (state "looked") the calloop cannot lock it.                  *)
(*                                                                         *)
(* A published frame is the buffer it is in and its number in publishing   *)
(* order.  The free list is a set: which free buffer pop() answers is      *)
(* nothing a property tells apart.                                         *)
(***************************************************************************)
EXTENDS Naturals, FiniteSets

CONSTANTS
    Buffers,     \* the pool's buffers (WL_POOL_SURFACES of them)
    None,        \* no frame
    MaxFrames    \* bound on the frames published, for model checking only

Frame == [id : Buffers, seq : Nat]

ASSUME NoneAssumption == None \notin Frame
ASSUME MaxFramesAssumption == MaxFrames \in Nat

VARIABLES
    free,       \* WlPoolInner::free, the buffers of the free list
    slot,       \* WlPoolInner::slot, the published frame or None
    stop,       \* WlFramePool::stop
    reserved,   \* the buffers the calloop holds between try_begin and publish
    calloop,    \* "tick": running, "published" and "stopped": the critical
                \* section of publish or shutdown done, its notify_all not;
                \* "ended": the capture is torn down
    encoder,    \* "locking": about to lock in take, "looked": in it, having
                \* found no frame and no stop, "parked": in wait_timeout,
                \* "encoding": owns a frame, "exited"
    encoding,   \* the frame the encode thread owns, or None
    published,  \* how many frames were published
    taken       \* how many the encode thread took

vars == <<free, slot, stop, reserved, calloop, encoder, encoding, published,
          taken>>

TypeOK ==
    /\ free \subseteq Buffers
    /\ slot \in Frame \cup {None}
    /\ stop \in BOOLEAN
    /\ reserved \subseteq Buffers
    /\ calloop \in {"tick", "published", "stopped", "ended"}
    /\ encoder \in {"locking", "looked", "parked", "encoding", "exited"}
    /\ encoding \in Frame \cup {None}
    /\ published \in Nat
    /\ taken \in Nat

\* WlFramePool::of: every buffer free, the slot empty.
Init ==
    /\ free = Buffers
    /\ slot = None
    /\ stop = FALSE
    /\ reserved = {}
    /\ calloop = "tick"
    /\ encoder = "locking"
    /\ encoding = None
    /\ published = 0
    /\ taken = 0

\* The mutex is the encode thread's from its look until it parks.
LockFree == encoder # "looked"

-----------------------------------------------------------------------------
(* Mutants: the definitions below with the bugs the properties are there   *)
(* to catch.  No specification uses them.                                  *)

\* The wakeup left out.
UnnotifiedMutant == encoder

\* try_begin without its look at the slot, as if two free buffers were enough.
TryBeginUngatedMutant ==
    /\ calloop = "tick" /\ reserved = {} /\ LockFree
    /\ \E b \in free : reserved' = {b} /\ free' = free \ {b}
    /\ UNCHANGED <<slot, stop, calloop, encoder, encoding, published, taken>>

\* stop stored without the mutex.
ShutdownUnlockedMutant ==
    /\ calloop = "tick" /\ reserved = {}
    /\ stop' = TRUE
    /\ calloop' = "stopped"
    /\ UNCHANGED <<free, slot, reserved, encoder, encoding, published, taken>>

\* The frame cloned out of the slot and left there.
TakeCloneMutant ==
    /\ encoder = "locking" /\ slot # None
    /\ encoding' = slot
    /\ taken' = taken + 1
    /\ encoder' = "encoding"
    /\ UNCHANGED <<free, slot, stop, reserved, calloop, published>>

\* stop looked at before the slot.
TakeStoppedFirstMutant ==
    /\ encoder = "locking" /\ stop
    /\ encoder' = "exited"
    /\ UNCHANGED <<free, slot, stop, reserved, calloop, encoding, published,
                   taken>>

\* The frame recycled in place of the buffer it was in.
RecycleFrameMutant ==
    /\ encoder = "encoding"
    /\ free' = free \cup {encoding}
    /\ encoding' = None
    /\ encoder' = "locking"
    /\ UNCHANGED <<slot, stop, reserved, calloop, published, taken>>

-----------------------------------------------------------------------------
\* cv.notify_all wakes a parked taker to lock again; any other misses it.
Notified == IF encoder = "parked" THEN "locking" ELSE encoder

-----------------------------------------------------------------------------
(* The calloop thread.                                                     *)

\* try_begin answering a buffer: the publish slot is empty and one is free.
\* Where it answers None the tick is skipped and nothing changes.
TryBegin ==
    /\ calloop = "tick" /\ reserved = {} /\ LockFree
    /\ slot = None
    /\ \E b \in free : reserved' = {b} /\ free' = free \ {b}
    /\ UNCHANGED <<slot, stop, calloop, encoder, encoding, published, taken>>

\* cancel (cancel_slots): the render failed or there is nothing to publish.
Cancel ==
    /\ calloop = "tick" /\ reserved # {} /\ LockFree
    /\ free' = free \cup reserved
    /\ reserved' = {}
    /\ UNCHANGED <<slot, stop, calloop, encoder, encoding, published, taken>>

\* publish, up to the unlock.  The slot is overwritten whatever it holds; that
\* it held nothing, which publish asserts, is PublishDropsNothing.
Publish ==
    /\ calloop = "tick" /\ LockFree /\ published < MaxFrames
    /\ \E b \in reserved : slot' = [id |-> b, seq |-> published]
    /\ reserved' = {}
    /\ published' = published + 1
    /\ calloop' = "published"
    /\ UNCHANGED <<free, stop, encoder, encoding, taken>>

NotifyPublish ==
    /\ calloop = "published"
    /\ calloop' = "tick"
    /\ encoder' = Notified
    /\ UNCHANGED <<free, slot, stop, reserved, encoding, published, taken>>

\* shutdown (teardown_capture, end_zero_copy), up to the unlock.  It runs on
\* the calloop thread between two ticks, so nothing is reserved.
Shutdown ==
    /\ calloop = "tick" /\ reserved = {} /\ LockFree
    /\ stop' = TRUE
    /\ calloop' = "stopped"
    /\ UNCHANGED <<free, slot, reserved, encoder, encoding, published, taken>>

NotifyShutdown ==
    /\ calloop = "stopped"
    /\ calloop' = "ended"
    /\ encoder' = Notified
    /\ UNCHANGED <<free, slot, stop, reserved, encoding, published, taken>>

-----------------------------------------------------------------------------
(* The encode thread: `while let Some(f) = pool.take()`.                   *)

\* take with a frame in the slot.  The slot is looked at before stop, so a
\* frame published before the shutdown is still encoded.
TakeFrame ==
    /\ encoder = "locking" /\ slot # None
    /\ encoding' = slot
    /\ slot' = None
    /\ taken' = taken + 1
    /\ encoder' = "encoding"
    /\ UNCHANGED <<free, stop, reserved, calloop, published>>

\* take answering None: the loop ends.
TakeStopped ==
    /\ encoder = "locking" /\ slot = None /\ stop
    /\ encoder' = "exited"
    /\ UNCHANGED <<free, slot, stop, reserved, calloop, encoding, published,
                   taken>>

\* take with nothing to do, about to wait with the mutex still held.
TakeLook ==
    /\ encoder = "locking" /\ slot = None /\ ~stop
    /\ encoder' = "looked"
    /\ UNCHANGED <<free, slot, stop, reserved, calloop, encoding, published,
                   taken>>

\* wait_timeout unlocks and parks in one step.
Park ==
    /\ encoder = "looked"
    /\ encoder' = "parked"
    /\ UNCHANGED <<free, slot, stop, reserved, calloop, encoding, published,
                   taken>>

\* The wait's timeout (WL_POOL_WAKE_QUANTUM), or a spurious wakeup.
WaitTimeout ==
    /\ encoder = "parked"
    /\ encoder' = "locking"
    /\ UNCHANGED <<free, slot, stop, reserved, calloop, encoding, published,
                   taken>>

\* recycle, once the frame is encoded.
Recycle ==
    /\ encoder = "encoding"
    /\ free' = free \cup {encoding.id}
    /\ encoding' = None
    /\ encoder' = "locking"
    /\ UNCHANGED <<slot, stop, reserved, calloop, published, taken>>

-----------------------------------------------------------------------------
CalloopStep == TryBegin \/ Cancel \/ Publish \/ NotifyPublish \/ Shutdown \/ NotifyShutdown
EncodeStep == TakeFrame \/ TakeStopped \/ TakeLook \/ Park \/ Recycle

Next == CalloopStep \/ EncodeStep \/ WaitTimeout

Spec == Init /\ [][Next]_vars

(***************************************************************************)
(* Fairness: the encode thread runs whenever it can, and the calloop does  *)
(* not stop between an unlock and its notify_all.  The wait's timeout gets *)
(* none: it is there "as defense-in-depth against a lost wakeup", so the   *)
(* liveness properties are shown without it.                               *)
(***************************************************************************)
FairSpec ==
    /\ Spec
    /\ WF_vars(EncodeStep)
    /\ WF_vars(NotifyPublish \/ NotifyShutdown)

-----------------------------------------------------------------------------
(* Properties.                                                             *)

InSlot == IF slot = None THEN {} ELSE {slot.id}
InEncode == IF encoding = None THEN {} ELSE {encoding.id}

\* No buffer is lost or handed out twice: each is in exactly one of the free
\* list, the calloop's hands, the slot and the encode thread's hands (the ids
\* that travel with the buffers in try_begin, publish, take, recycle, cancel).
BuffersConserved ==
    /\ free \cup reserved \cup InSlot \cup InEncode = Buffers
    /\ free \cap (reserved \cup InSlot \cup InEncode) = {}
    /\ reserved \cap (InSlot \cup InEncode) = {}
    /\ InSlot \cap InEncode = {}

\* publish's debug_assert, which a release build does not check: a reservation
\* guarantees that the publish that follows overwrites no unencoded frame.
PublishDropsNothing == reserved # {} => slot = None

\* Every published frame is encoded, in order: what is not yet taken is the
\* one frame in the slot, the newest, and the frame in the encoder is the
\* newest taken.  The H.264 reference chain relies on it (WlFramePool's doc).
InOrder ==
    /\ slot # None => slot.seq = taken /\ published = taken + 1
    /\ slot = None => published = taken
    /\ encoding # None => encoding.seq + 1 = taken

\* No wakeup is lost, with the wait's timeout never firing: a published frame
\* is taken however the two threads' locks and notifications interleave.
PublishedIsTaken == (slot # None) ~> (slot = None)

\* Nor the shutdown's: the encode thread exits, having encoded what was
\* published (the handed-back encoder is waited for by the next capture).
ShutdownEnds == stop ~> (encoder = "exited" /\ taken = published)

\* The pool is a one-place lossless handoff (module Handoff), its fairness
\* included: the frames published are the sent ones, the frames taken the
\* received ones, and the stop flag closes it.
Promise == INSTANCE Handoff WITH
    sent <- published, received <- taken, open <- ~stop,
    listening <- encoder # "exited"

ImplementsHandoff == Promise!FairSpec
=============================================================================
