--------------------------- MODULE EncodeThreadProofs ---------------------------
(***************************************************************************)
(* The encode threads and what they are handed their frames by, proved for *)
(* every ladder, codec, threshold, number of buffers and bound.            *)
(*                                                                         *)
(* Of the pool: no buffer is lost or in two places, a publication finds    *)
(* the slot empty, the frames are taken in the order they came, and the    *)
(* pool implements the one-place hand-over.  Of the threads: the recovery  *)
(* opens the engine again once, a demotion holds, and a key frame owed     *)
(* stays armed until it is out, on X11 and on Wayland, whatever encodes    *)
(* and what fails.  Of the pacing: the rate set is the rate streamed at,   *)
(* and a change is shown as its window opens, however late the loops come. *)
(***************************************************************************)
EXTENDS MCEncodeThread, FiniteSetTheorems, TLAPS

-----------------------------------------------------------------------------
(* The pool of WlFramePool.                                                *)

\* Each state of the two threads says what they hold.
HoldersInv ==
    /\ encoder = "encoding" <=> encoding # None
    /\ stop <=> calloop \in {"stopped", "ended"}
    /\ calloop # "tick" => reserved = {}
    /\ encoder = "exited" => stop /\ slot = None
    /\ \A b, c \in reserved : b = c

IInv ==
    /\ TypeOK
    /\ HoldersInv
    /\ BuffersConserved
    /\ PublishDropsNothing
    /\ InOrder

LEMMA InitIInv == Init => IInv
<1> SUFFICES ASSUME Init PROVE IInv
  OBVIOUS
<1> USE DEF Init
<1>1. TypeOK
  BY DEF TypeOK
<1>2. HoldersInv
  BY DEF HoldersInv
<1>3. BuffersConserved
  BY DEF BuffersConserved, InSlot, InEncode
<1>4. PublishDropsNothing /\ InOrder
  BY DEF PublishDropsNothing, InOrder
<1>5. QED
  BY <1>1, <1>2, <1>3, <1>4 DEF IInv

LEMMA NextIInv == IInv /\ [Next]_vars => IInv'
<1> SUFFICES ASSUME IInv, [Next]_vars PROVE IInv'
  OBVIOUS
<1> USE NoneAssumption DEF IInv, TypeOK, HoldersInv, BuffersConserved, PublishDropsNothing,
            InOrder, InSlot, InEncode, Frame
<1>1. CASE TryBegin
  BY <1>1 DEF TryBegin, LockFree
<1>2. CASE Cancel
  BY <1>2 DEF Cancel, LockFree
<1>3. CASE Publish
  <2> PICK b \in reserved : slot' = [id |-> b, seq |-> published]
    BY <1>3 DEF Publish
  <2> reserved = {b}
    OBVIOUS
  <2>1. TypeOK' /\ HoldersInv'
    BY <1>3 DEF Publish, LockFree
  <2>2. BuffersConserved'
    BY <1>3 DEF Publish, LockFree
  <2>3. PublishDropsNothing' /\ InOrder'
    BY <1>3 DEF Publish, LockFree
  <2>4. QED
    BY <2>1, <2>2, <2>3
<1>4. CASE NotifyPublish
  BY <1>4 DEF NotifyPublish, Notified
<1>5. CASE Shutdown
  BY <1>5 DEF Shutdown, LockFree
<1>6. CASE NotifyShutdown
  BY <1>6 DEF NotifyShutdown, Notified
<1>7. CASE TakeFrame
  BY <1>7 DEF TakeFrame
<1>8. CASE TakeStopped
  BY <1>8 DEF TakeStopped
<1>9. CASE TakeLook
  BY <1>9 DEF TakeLook
<1>10. CASE Park
  BY <1>10 DEF Park
<1>11. CASE WaitTimeout
  BY <1>11 DEF WaitTimeout
<1>12. CASE Recycle
  BY <1>12 DEF Recycle
<1>13. CASE UNCHANGED vars
  BY <1>13 DEF vars
<1>14. QED
  BY <1>1, <1>2, <1>3, <1>4, <1>5, <1>6, <1>7, <1>8, <1>9, <1>10, <1>11, <1>12,
     <1>13 DEF Next, CalloopStep, EncodeStep

\* Type correctness of the pool and its two threads.
THEOREM TypeCorrect == Spec => []TypeOK
<1>1. IInv => TypeOK
  BY DEF IInv
<1>2. QED
  BY InitIInv, NextIInv, <1>1, PTL DEF Spec

\* No buffer of the pool is lost or in two hands at once, whatever the number
\* of buffers: the buffer ids try_begin, publish, take, recycle and cancel pass.
THEOREM BuffersAreConserved == Spec => []BuffersConserved
<1>1. IInv => BuffersConserved
  BY DEF IInv
<1>2. QED
  BY InitIInv, NextIInv, <1>1, PTL DEF Spec

\* publish never overwrites a frame that was not taken (its debug_assert).
THEOREM PublishIsLossless == Spec => []PublishDropsNothing
<1>1. IInv => PublishDropsNothing
  BY DEF IInv
<1>2. QED
  BY InitIInv, NextIInv, <1>1, PTL DEF Spec

\* Every published frame is taken, in the order published.
THEOREM FramesInOrder == Spec => []InOrder
<1>1. IInv => InOrder
  BY DEF IInv
<1>2. QED
  BY InitIInv, NextIInv, <1>1, PTL DEF Spec

LEMMA InitRefines == Init => Promise!Init
  BY DEF Init, Promise!Init

\* Each step of the two threads is a step of the one-place handoff or none.
LEMMA NextRefines == IInv /\ IInv' /\ [Next]_vars => [Promise!Next]_(Promise!vars)
<1> SUFFICES ASSUME IInv, IInv', [Next]_vars PROVE [Promise!Next]_(Promise!vars)
  OBVIOUS
<1> USE DEF Promise!vars
<1>1. CASE Publish
  <2>1. published = taken /\ ~stop
    BY <1>1 DEF Publish, IInv, PublishDropsNothing, InOrder, HoldersInv
  <2>2. Promise!Send
    BY <1>1, <2>1 DEF Publish, Promise!Send
  <2>3. QED
    BY <2>2 DEF Promise!Next
<1>2. CASE TakeFrame
  <2>1. taken < published
    BY <1>2 DEF TakeFrame, IInv, InOrder, TypeOK
  <2>2. Promise!Receive
    BY <1>2, <2>1 DEF TakeFrame, Promise!Receive
  <2>3. QED
    BY <2>2 DEF Promise!Next
<1>3. CASE Shutdown
  <2>1. ~stop /\ stop'
    BY <1>3 DEF Shutdown, IInv, HoldersInv
  <2>2. Promise!Close
    BY <1>3, <2>1 DEF Shutdown, Promise!Close
  <2>3. QED
    BY <2>2 DEF Promise!Next
<1>4. CASE TakeStopped
  <2>1. taken = published
    BY <1>4 DEF TakeStopped, IInv, InOrder
  <2>2. Promise!Leave
    BY <1>4, <2>1 DEF TakeStopped, Promise!Leave
  <2>3. QED
    BY <2>2 DEF Promise!Next
<1>5. CASE TryBegin \/ Cancel \/ NotifyPublish \/ NotifyShutdown
  BY <1>5 DEF TryBegin, Cancel, NotifyPublish, NotifyShutdown, Notified
<1>6. CASE TakeLook \/ Park \/ WaitTimeout \/ Recycle
  BY <1>6 DEF TakeLook, Park, WaitTimeout, Recycle
<1>7. CASE UNCHANGED vars
  BY <1>7 DEF vars
<1>8. QED
  BY <1>1, <1>2, <1>3, <1>4, <1>5, <1>6, <1>7 DEF Next, CalloopStep, EncodeStep

\* The pool implements the lossless one-place handoff its doc comment claims
\* (the safety part of ImplementsHandoff; its fairness is model-checked).
THEOREM PoolImplementsHandoff == Spec => Promise!Spec
<1>1. QED
  BY InitIInv, NextIInv, InitRefines, NextRefines, PTL DEF Spec, Promise!Spec

-----------------------------------------------------------------------------

-----------------------------------------------------------------------------
(* The ladder.                                                             *)

\* What it may come back with is a session.
LEMMA RungsAreSessions ==
    ASSUME NEW c \in Codecs, NEW cpu \in BOOLEAN
    PROVE  HostRungs(c, cpu) \subseteq Sessions
<1>1. ASSUME NEW d \in Codecs PROVE ForCodec(d, cpu) \subseteq Sessions
  BY <1>1 DEF ForCodec, EngineOf, LibraryOf, Sessions
<1>2. Fallbacks(c, cpu) \subseteq Codecs
  BY LadderAssumption DEF Fallbacks, Codecs
<1>3. LastRung \in Sessions /\ Striped("JPEG") \in Sessions /\ Striped("H264") \in Sessions
  BY DEF LastRung, Striped, Sessions, Codecs, Video
<1>4. UNION {ForCodec(d, cpu) : d \in Fallbacks(c, cpu)} \subseteq Sessions
  BY <1>1, <1>2
<1>5. QED
  BY <1>1, <1>3, <1>4 DEF HostRungs

\* Software forced, it has no engine.
LEMMA NoEngineInSoftware ==
    ASSUME NEW c \in Codecs, NEW s \in HostRungs(c, TRUE)
    PROVE  s.kind # "engine"
<1>1. ASSUME NEW d, NEW t \in ForCodec(d, TRUE) PROVE t.kind # "engine"
  BY <1>1 DEF ForCodec, LibraryOf
<1>2. LastRung.kind # "engine" /\ Striped("JPEG").kind # "engine" /\ Striped("H264").kind # "engine"
  BY DEF LastRung, Striped
<1>3. QED
  BY <1>1, <1>2 DEF HostRungs


\* Both backends run the one ladder.
LEMMA OneLadder ==
    /\ X11!Codecs = Codecs /\ X11!Sessions = Sessions
    /\ Wayland!Codecs = Codecs /\ Wayland!Sessions = Sessions
    /\ \A c, cpu : /\ X11!HostRungs(c, cpu) = HostRungs(c, cpu)
                   /\ Wayland!HostRungs(c, cpu) = HostRungs(c, cpu)
                   /\ Wayland!DmabufRungs(c, cpu) = DmabufRungs(c, cpu)
<1>1. /\ X11!Codecs = Codecs /\ X11!Sessions = Sessions
      /\ Wayland!Codecs = Codecs /\ Wayland!Sessions = Sessions
  BY DEF X11!Codecs, Codecs, X11!Sessions, Sessions, X11!Video, Video, Wayland!Codecs,
         Wayland!Sessions, Wayland!Video
<1>2. \A c, cpu : /\ X11!ForCodec(c, cpu) = ForCodec(c, cpu)
                 /\ Wayland!ForCodec(c, cpu) = ForCodec(c, cpu)
                 /\ X11!Fallbacks(c, cpu) = Fallbacks(c, cpu)
                 /\ Wayland!Fallbacks(c, cpu) = Fallbacks(c, cpu)
  BY DEF X11!ForCodec, Wayland!ForCodec, ForCodec, X11!EngineOf, Wayland!EngineOf, EngineOf,
         X11!LibraryOf, Wayland!LibraryOf, LibraryOf, X11!Fallbacks, Wayland!Fallbacks, Fallbacks
<1>3. /\ X11!LastRung = LastRung /\ Wayland!LastRung = LastRung
      /\ \A c : X11!Striped(c) = Striped(c) /\ Wayland!Striped(c) = Striped(c)
  BY DEF X11!LastRung, Wayland!LastRung, LastRung, X11!Striped, Wayland!Striped, Striped
<1>4. QED
  BY <1>1, <1>2, <1>3
     DEF X11!HostRungs, Wayland!HostRungs, HostRungs, Wayland!DmabufRungs, DmabufRungs

-----------------------------------------------------------------------------
(* X11: the invariant.                                                     *)

\* The flags of the pipeline.
X11Flags ==
    /\ late \in BOOLEAN /\ useCpu \in BOOLEAN /\ seen \in BOOLEAN /\ fresh \in BOOLEAN
    /\ pending \in BOOLEAN /\ rebuilt \in BOOLEAN /\ owed \in BOOLEAN

\* The types the arguments need.
X11Typed ==
    /\ codec \in X11!Codecs /\ session \in X11!Sessions
    /\ X11Flags
    /\ inside \in {"none", "plain", "key"}
    /\ rebuilds \in 0 .. 2 /\ demotions \in 0 .. 2

\* The one rebuild is remembered: without this a second streak would open the
\* engine again.
Remembered == rebuilds = IF rebuilt THEN 1 ELSE 0

\* A demotion is useCpu's, and with useCpu no ladder has an engine.
Demoted ==
    /\ demotions > 0 => useCpu
    /\ useCpu => session.kind # "engine"

\* A unit stays only inside a session that hands its units back late.
HeldInside == inside # "none" => X11!IsLate

X11Inv == X11Typed /\ Remembered /\ Demoted /\ HeldInside

--------------------------------------------------------------------------------
(* X11: the steps.                                                              *)

LEMMA InitX11Inv ==
    ASSUME X11!Init
    PROVE  X11Inv
<1>1. session \in X11!Sessions /\ session.codec \in X11!Codecs
  BY RungsAreSessions, OneLadder, EncoderAssumption DEF X11!PipelineAssumption, X11!Init, X11!Sessions
<1>2. X11Typed
  <2>1. X11Flags
    BY Zenon DEF X11!Init, X11Flags
  <2>2. QED
    BY <1>1, <2>1 DEF X11!Init, X11Typed
<1>3. Remembered /\ Demoted /\ HeldInside
  BY DEF X11!Init, Remembered, Demoted, HeldInside
<1>4. QED
  BY <1>2, <1>3 DEF X11Inv

\* A pipeline opened anew.
LEMMA OpenedX11Inv ==
    ASSUME X11Inv, NEW s, X11!Opened(s), UNCHANGED owed
    PROVE  X11Inv'
<1>1. s \in X11!Sessions /\ s.codec \in X11!Codecs
  BY RungsAreSessions, OneLadder, EncoderAssumption DEF X11!PipelineAssumption, X11!Opened, X11!Sessions
<1>2. X11Typed'
  <2>1. X11Flags'
    BY Zenon DEF X11!Opened, X11Inv, X11Typed, X11Flags
  <2>2. inside' = "none" /\ rebuilds' = 0 /\ demotions' = 0 /\ session' = s /\ codec' = s.codec
    BY DEF X11!Opened
  <2>3. QED
    BY <1>1, <2>1, <2>2 DEF X11Typed
<1>3. Remembered' /\ Demoted' /\ HeldInside'
  BY DEF X11!Opened, Remembered, Demoted, HeldInside
<1>4. QED
  BY <1>2, <1>3 DEF X11Inv

\* The recovery: whichever session comes up.
LEMMA RecoverX11Inv ==
    ASSUME X11Inv, X11!Recover, seen' \in BOOLEAN
    PROVE  X11Inv' /\ X11!Armed'
<1> USE DEF X11Inv
<1>1. PICK s \in X11!Sessions : X11!RecoverTo(s)
  BY DEF X11!Recover
<1>2. s \in X11!HostRungs(codec, useCpu \/ rebuilt) /\ s.codec \in X11!Codecs
  BY <1>1 DEF X11!RecoverTo, X11!Sessions
<1>3. (useCpu \/ rebuilt) => s.kind # "engine"
  <2>1. SUFFICES ASSUME useCpu \/ rebuilt PROVE s.kind # "engine"
    OBVIOUS
  <2>2. (useCpu \/ rebuilt) = TRUE
    BY <2>1
  <2>3. s \in X11!HostRungs(codec, TRUE)
    BY <1>2, <2>2
  <2>4. QED
    BY <2>3, NoEngineInSoftware, OneLadder DEF X11Typed, X11Flags
<1>4. X11Typed' /\ Remembered'
  BY <1>1, <1>2 DEF X11!RecoverTo, X11Typed, X11Flags, Remembered, X11!Saturated
<1>5. Demoted'
  BY <1>1, <1>3 DEF X11!RecoverTo, Demoted, X11Typed, X11Flags
<1>6. HeldInside' /\ X11!Armed'
  BY <1>1 DEF X11!RecoverTo, HeldInside, X11!Armed
<1>7. QED
  BY <1>4, <1>5, <1>6

\* A frame encoded: what was armed is out, or inside the engine.
LEMMA EncodeX11Inv ==
    ASSUME X11Inv, NEW picture \in X11!Pictures, X11!Encode(picture)
    PROVE  X11Inv' /\ (owed /\ X11!Armed => ~owed' \/ X11!Armed')
<1> USE DEF X11Inv
<1>1. X11!Coded(picture) \in {"none", "plain", "key"} /\ X11!Out(picture) \in {"none", "plain", "key"}
  BY DEF X11!Coded, X11!Out, X11Typed, X11Flags
<1>2. UNCHANGED <<late, codec, useCpu, session>> /\ X11!IsLate' = X11!IsLate
  BY DEF X11!Encode, X11!settings, X11!IsLate
<1>3. /\ inside' = IF X11!IsLate THEN X11!Coded(picture) ELSE "none"
      /\ pending' = (pending /\ X11!Out(picture) = "none")
      /\ owed' = (owed /\ X11!Out(picture) # "key")
      /\ seen' = TRUE
  BY DEF X11!Encode, X11!Disarm, X11!Decided
<1>4. /\ rebuilt' \in BOOLEAN /\ rebuilds' \in 0 .. 2 /\ UNCHANGED demotions
      /\ Remembered' /\ fresh' \in BOOLEAN
  <2>1. fresh' \in BOOLEAN
    BY DEF X11!Encode, X11Typed, X11Flags
  <2>2. CASE session.kind = "striped"
    BY <2>1, <2>2 DEF X11!Encode, X11!recovery, X11Typed, X11Flags, Remembered
  <2>3. CASE session.kind # "striped"
    <3>1. rebuilt' = FALSE /\ rebuilds' = 0 /\ UNCHANGED demotions
      BY <2>3 DEF X11!Encode
    <3>2. rebuilt' \in BOOLEAN /\ ~rebuilt'
      BY <3>1, Zenon
    <3>3. rebuilds' \in 0 .. 2 /\ Remembered'
      BY <3>1, <3>2 DEF Remembered
    <3>4. QED
      BY <2>1, <3>1, <3>2, <3>3
  <2>4. QED
    BY <2>2, <2>3
<1>5. X11Typed'
  BY <1>1, <1>2, <1>3, <1>4 DEF X11Typed, X11Flags
<1>6. Demoted' /\ HeldInside'
  BY <1>2, <1>3, <1>4 DEF Demoted, HeldInside
<1>7. ASSUME owed, X11!Armed PROVE ~owed' \/ X11!Armed'
  <2>1. CASE pending
    <3>1. X11!Coded(picture) = "key"
      BY <2>1 DEF X11!Coded, X11!Sends
    <3>2. QED
      BY <1>3, <3>1 DEF X11!Out, X11!Armed
  <2>2. CASE inside = "key"
    <3>1. X11!IsLate
      BY <2>2 DEF HeldInside
    <3>2. QED
      BY <1>3, <2>2, <3>1 DEF X11!Out
  <2>3. QED
    BY <1>7, <2>1, <2>2 DEF X11!Armed
<1>8. QED
  BY <1>4, <1>5, <1>6, <1>7

\* An encode that fails: what was armed stays, or the recovery arms it.
LEMMA FailX11Inv ==
    ASSUME X11Inv, NEW picture \in X11!Pictures, X11!Fail(picture)
    PROVE  X11Inv' /\ (X11!Armed => X11!Armed')
<1>1. seen' \in BOOLEAN
  BY DEF X11!Fail, X11!Decided
<1>2. CASE streak + 1 < X11Threshold
  <2>1. UNCHANGED <<X11!settings, fresh, inside, pending, rebuilt, rebuilds, demotions, owed>>
    BY <1>2 DEF X11!Fail
  <2>2. QED
    BY <1>1, <2>1 DEF X11!settings, X11Inv, X11Typed, X11Flags, Remembered, Demoted, HeldInside, X11!IsLate, X11!Armed
<1>3. CASE ~(streak + 1 < X11Threshold)
  BY <1>1, <1>3, RecoverX11Inv DEF X11!Fail
<1>4. QED
  BY <1>2, <1>3

\* Every step keeps the invariant, and what is owed armed unless the pipeline
\* is replaced.
LEMMA NextX11Inv ==
    ASSUME X11Inv, [X11!Next]_X11!vars
    PROVE  X11Inv' /\ (owed /\ X11!Armed => ~owed' \/ X11!Armed' \/ ~seen')
<1>1. CASE X11!Request
  BY <1>1 DEF X11!Request, X11!settings, X11!coding, X11!recovery, X11Inv, X11Typed, X11Flags, Remembered, Demoted,
              HeldInside, X11!IsLate, X11!Armed
<1>2. ASSUME NEW picture \in X11!Pictures, X11!Encode(picture) \/ X11!Fail(picture)
      PROVE  X11Inv' /\ (owed /\ X11!Armed => ~owed' \/ X11!Armed' \/ ~seen')
  BY <1>2, EncodeX11Inv, FailX11Inv
<1>3. CASE X11!RateFails
  <2>1. seen' \in BOOLEAN
    BY <1>3 DEF X11!RateFails, X11Inv, X11Typed, X11Flags
  <2>2. QED
    BY <1>3, <2>1, RecoverX11Inv DEF X11!RateFails
<1>4. CASE X11!ReshapeSameSize \/ X11!ReshapeInPlace \/ X11!Turn
  <2>1. /\ UNCHANGED <<late, useCpu, session, fresh, inside, pending, X11!recovery, owed>>
        /\ codec' \in {codec, X11Codec} /\ seen' \in {seen, FALSE}
    BY <1>4 DEF X11!ReshapeSameSize, X11!AdoptSameSize, X11!ReshapeInPlace, X11!Turn, X11!settings, X11!coding
  <2>2. QED
    BY <2>1, EncoderAssumption
       DEF X11!PipelineAssumption, X11!recovery, X11Inv, X11Typed, X11Flags, Remembered,
           Demoted, HeldInside, X11!IsLate, X11!Armed
<1>5. CASE X11!Replace
  <2>1. PICK s \in X11!Sessions : X11!Opened(s)
    BY <1>5 DEF X11!Replace
  <2>2. X11Inv' /\ ~seen'
    BY <1>5, <2>1, OpenedX11Inv DEF X11!Replace, X11!Opened
  <2>3. QED
    BY <2>2
<1>6. CASE UNCHANGED X11!vars
  BY <1>6 DEF X11!vars, X11!settings, X11!coding, X11!recovery, X11Inv, X11Typed, X11Flags, Remembered, Demoted, HeldInside,
              X11!IsLate, X11!Armed
<1>7. QED
  BY <1>1, <1>2, <1>3, <1>4, <1>5, <1>6 DEF X11!Next

-----------------------------------------------------------------------------
(* Wayland: the invariant.                                                 *)

\* The types, by what their proofs need.
WaylandFlags ==
    /\ force \in BOOLEAN /\ requested \in BOOLEAN /\ out \in BOOLEAN
    /\ rebuilt \in BOOLEAN /\ poisoned \in BOOLEAN /\ alive \in BOOLEAN /\ owed \in BOOLEAN

WaylandSessions ==
    /\ codec \in Codecs /\ session \in Sessions \cup {Wayland!NoSession}
    /\ session.codec \in Codecs

WaylandSteps ==
    /\ mode \in {"zero", "readback"}
    /\ ready \in {"none", "still", "changed"} /\ frame \in {"none", "still", "changed"}
    /\ at \in {"take", "encode", "recycled", "ended", "panicked"}
    /\ broken \subseteq {"engine"}

WaylandCounts ==
    /\ streak \in 0 .. WaylandThreshold - 1 /\ rebuilds \in 0 .. 2
    /\ turns \in 0 .. MaxTurns /\ requests \in 0 .. 1
    /\ starts \in 0 .. MaxStarts /\ panics \in 0 .. MaxPanics

WaylandTyped == WaylandFlags /\ WaylandSessions /\ WaylandSteps /\ WaylandCounts

\* The one rebuild is remembered where the engine came back; where it did not,
\* the session is none that fails.
WaylandRebuilt ==
    \/ rebuilds = 0
    \/ rebuilds = 1 /\ (rebuilt \/ session.kind # "engine")

\* A unit that came out served the request it was encoded for: what is owed since
\* was asked for after the flag was swapped, and is in it.
WaylandServed ==
    /\ at = "encode" => ~out
    /\ at = "recycled" /\ requested /\ out => ~owed \/ force

WaylandInv ==
    /\ WaylandTyped
    /\ WaylandRebuilt /\ WaylandServed /\ Wayland!KeyArmed

LEMMA PathsAreSessions ==
    /\ \A p \in Wayland!StartPaths :
           p[1] \in {"zero", "readback"} /\ p[2] \in Sessions /\ p[2].codec \in Codecs
    /\ \A p \in Wayland!ReadbackPaths(FALSE) : p \in Wayland!StartPaths
<1>1. WaylandCodec \in Codecs
  BY EncoderAssumption DEF Wayland!EncodeAssumption, Wayland!Video, Codecs, Video
<1>2. \A cpu \in BOOLEAN : HostRungs(WaylandCodec, cpu) \subseteq Sessions
  BY <1>1, RungsAreSessions
<1>3. Wayland!DmabufRungs(WaylandCodec, FALSE) \subseteq Sessions
  <2>1. DmabufRungs(WaylandCodec, FALSE) \subseteq Sessions
    BY <1>1 DEF DmabufRungs, ForCodec, EngineOf, LibraryOf, Sessions
  <2>2. QED
    BY <2>1, OneLadder, Zenon
<1>4. ASSUME NEW p \in Wayland!ZeroPaths
      PROVE  p[1] = "zero" /\ p[2] \in Sessions
  <2>1. PICK t \in Wayland!DmabufRungs(WaylandCodec, FALSE) : p = <<"zero", t>>
    BY <1>4, Zenon DEF Wayland!ZeroPaths
  <2>2. QED
    BY <1>3, <2>1
<1>5. ASSUME NEW cpu \in BOOLEAN, NEW p \in Wayland!ReadbackPaths(cpu)
      PROVE  p[1] = "readback" /\ p[2] \in Sessions
  BY <1>2, OneLadder DEF Wayland!ReadbackPaths
<1>6. \A t \in Sessions : t.codec \in Codecs
  BY DEF Sessions
<1>7. QED
  BY <1>4, <1>5, <1>6 DEF Wayland!StartPaths

LEMMA RecoveriesAreSessions ==
    ASSUME codec \in Codecs, rebuilt \in BOOLEAN, NEW s \in Wayland!RecoveryRungs
    PROVE  s \in Sessions \cup {Wayland!NoSession} /\ s.codec \in Codecs
<1>1. WaylandCodec \in Codecs
  BY EncoderAssumption DEF Wayland!EncodeAssumption, Wayland!Video, Codecs, Video
<1>2. HostRungs(codec, rebuilt) \subseteq Sessions
  BY RungsAreSessions
<1>3. DmabufRungs(codec, FALSE) \subseteq Sessions
  BY DEF DmabufRungs, ForCodec, EngineOf, LibraryOf, Sessions
<1>4. \/ s = Wayland!NoSession \/ s \in HostRungs(codec, rebuilt)
      \/ s \in DmabufRungs(codec, FALSE)
  BY OneLadder DEF Wayland!RecoveryRungs
<1>5. \A t \in Sessions : t.codec \in Codecs
  BY DEF Sessions
<1>6. Wayland!NoSession.codec = WaylandCodec
  BY DEF Wayland!NoSession
<1>7. QED
  BY <1>1, <1>2, <1>3, <1>4, <1>5, <1>6

LEMMA WaylandFlagsKept == ASSUME WaylandFlags, Wayland!Next PROVE WaylandFlags'
  BY Zenon DEF WaylandFlags, Wayland!vars, Wayland!Sends, Wayland!Next, Wayland!Tick, Wayland!Replace,
      Wayland!Start, Wayland!Request, Wayland!Take, Wayland!Encode, Wayland!EncodeEmpty, Wayland!Fail,
      Wayland!Rearm, Wayland!Panic, Wayland!Turn, Wayland!path, Wayland!flight,
      Wayland!recovery, Wayland!loop, Wayland!bounds, Wayland!Bootstrap, Wayland!Recover

LEMMA WaylandSessionsKept ==
    ASSUME WaylandFlags, WaylandSessions, Wayland!Next
    PROVE  WaylandSessions'
  BY PathsAreSessions, RecoveriesAreSessions DEF WaylandFlags, WaylandSessions,
      Wayland!vars, Wayland!Next, Wayland!Tick, Wayland!Replace, Wayland!Start,
      Wayland!Request, Wayland!Take, Wayland!Encode, Wayland!EncodeEmpty, Wayland!Fail, Wayland!Rearm,
      Wayland!Panic, Wayland!Turn, Wayland!path, Wayland!flight, Wayland!recovery,
      Wayland!loop, Wayland!bounds, Wayland!Bootstrap, Wayland!Recover

LEMMA WaylandStepsKept == ASSUME WaylandSteps, Wayland!Next PROVE WaylandSteps'
  BY PathsAreSessions DEF WaylandSteps, Wayland!vars, Wayland!Next, Wayland!Tick,
      Wayland!Replace, Wayland!Start, Wayland!Request, Wayland!Take, Wayland!Encode, Wayland!EncodeEmpty,
      Wayland!Fail, Wayland!Rearm, Wayland!Panic, Wayland!Turn, Wayland!path,
      Wayland!flight, Wayland!recovery, Wayland!loop, Wayland!bounds, Wayland!Bootstrap,
      Wayland!Recover

LEMMA WaylandCountsKept == ASSUME WaylandCounts, Wayland!Next PROVE WaylandCounts'
<1>1. WaylandThreshold \in Nat \ {0} /\ {MaxTurns, MaxStarts, MaxPanics} \subseteq Nat
  BY EncoderAssumption DEF Wayland!EncodeAssumption
<1>2. CASE Wayland!Fail
  <2>1. CASE streak + 1 < WaylandThreshold
    BY <1>1, <1>2, <2>1 DEF Wayland!Fail, Wayland!bounds, WaylandCounts
  <2>2. CASE ~(streak + 1 < WaylandThreshold)
    <3>1. streak' = 0 /\ rebuilds' \in {rebuilds, Wayland!Saturated(rebuilds)}
      BY <1>2, <2>2 DEF Wayland!Fail, Wayland!Recover
    <3>2. QED
      BY <1>1, <1>2, <3>1 DEF Wayland!Fail, Wayland!bounds, Wayland!Saturated, WaylandCounts
  <2>3. QED
    BY <2>1, <2>2
<1>3. CASE Wayland!Replace \/ Wayland!Start
  <2>1. \/ streak' = 0 /\ rebuilds' = 0
        \/ UNCHANGED <<streak, rebuilds>>
    BY <1>3 DEF Wayland!Replace, Wayland!Start, Wayland!Bootstrap, Wayland!recovery
  <2>2. /\ UNCHANGED <<turns, requests, panics>>
        /\ starts' = starts \/ (starts < MaxStarts /\ starts' = starts + 1)
    <3>1. Wayland!Replace => UNCHANGED <<turns, requests, panics, starts>>
      BY DEF Wayland!Replace, Wayland!bounds
    <3>2. Wayland!Start => /\ UNCHANGED <<turns, requests, panics>>
                           /\ starts < MaxStarts /\ starts' = starts + 1
      BY DEF Wayland!Start
    <3>3. QED
      BY <1>3, <3>1, <3>2
  <2>3. QED
    BY <1>1, <2>1, <2>2 DEF WaylandCounts
<1>4. CASE \/ Wayland!Tick \/ Wayland!Request \/ Wayland!Take \/ Wayland!Encode
           \/ Wayland!EncodeEmpty \/ Wayland!Rearm \/ Wayland!Panic \/ Wayland!Turn
  BY <1>1, <1>4
     DEF Wayland!Tick, Wayland!Request, Wayland!Take, Wayland!Encode, Wayland!EncodeEmpty,
         Wayland!Rearm, Wayland!Panic, Wayland!Turn, Wayland!recovery, Wayland!bounds, WaylandCounts
<1>5. QED
  BY <1>2, <1>3, <1>4 DEF Wayland!Next

LEMMA WaylandTypedKept == WaylandTyped /\ [Wayland!Next]_(Wayland!vars) => WaylandTyped'
<1>1. ASSUME WaylandTyped, Wayland!Next PROVE WaylandTyped'
  BY <1>1, WaylandFlagsKept, WaylandSessionsKept, WaylandStepsKept, WaylandCountsKept
     DEF WaylandTyped
<1>2. ASSUME WaylandTyped, UNCHANGED Wayland!vars PROVE WaylandTyped'
  BY <1>2
     DEF WaylandTyped, WaylandFlags, WaylandSessions, WaylandSteps, WaylandCounts, Wayland!vars,
         Wayland!path, Wayland!flight, Wayland!recovery, Wayland!loop, Wayland!bounds
<1>3. QED
  BY <1>1, <1>2

LEMMA InitWaylandInv == Wayland!Init => WaylandInv
<1> SUFFICES ASSUME Wayland!Init PROVE WaylandInv
  OBVIOUS
<1>1. WaylandFlags
  BY Zenon DEF Wayland!Init, WaylandFlags
<1>2. WaylandSessions /\ WaylandSteps
  BY PathsAreSessions DEF Wayland!Init, WaylandSessions, WaylandSteps
<1>3. WaylandCounts
  BY EncoderAssumption DEF Wayland!Init, WaylandCounts, Wayland!EncodeAssumption
<1>4. WaylandRebuilt /\ WaylandServed /\ Wayland!KeyArmed
  BY DEF Wayland!Init, WaylandRebuilt, WaylandServed, Wayland!KeyArmed
<1>5. QED
  BY <1>1, <1>2, <1>3, <1>4 DEF WaylandInv, WaylandTyped

\* A capture bootstrapped has its flag armed and no recovery behind it.
LEMMA BootstrapWaylandInv ==
    ASSUME NEW p, Wayland!Bootstrap(p)
    PROVE  WaylandRebuilt' /\ WaylandServed' /\ Wayland!KeyArmed'
  BY DEF Wayland!Bootstrap, WaylandRebuilt, WaylandServed, Wayland!KeyArmed

\* What a session demoted or given up comes back as fails no more.
LEMMA SecondRecoveryIsSoftware ==
    ASSUME codec \in Codecs, rebuilt = TRUE, NEW s \in Wayland!RecoveryRungs
    PROVE  s.kind # "engine"
<1>1. s \in HostRungs(codec, TRUE) \/ s = Wayland!NoSession
  BY OneLadder DEF Wayland!RecoveryRungs
<1>2. Wayland!NoSession.kind = "none"
  BY DEF Wayland!NoSession
<1>3. QED
  BY <1>1, <1>2, NoEngineInSoftware

LEMMA FailWaylandInv ==
    ASSUME WaylandInv, Wayland!Fail
    PROVE  WaylandRebuilt' /\ WaylandServed' /\ Wayland!KeyArmed'
<1>1. session.kind = "engine" /\ at = "encode" /\ at' = "recycled" /\ ~out
  BY DEF Wayland!Fail, WaylandInv, WaylandTyped, WaylandSteps, WaylandServed
<1>2. CASE streak + 1 < WaylandThreshold
  BY <1>1, <1>2 DEF Wayland!Fail, WaylandInv, WaylandRebuilt, WaylandServed, Wayland!KeyArmed
<1>3. CASE ~(streak + 1 < WaylandThreshold)
  <2>1. PICK s \in Wayland!RecoveryRungs : Wayland!Recover(s)
    BY <1>3 DEF Wayland!Fail
  <2>2. rebuilt \in BOOLEAN /\ codec \in Codecs /\ session' = s
    BY <2>1 DEF WaylandInv, WaylandTyped, WaylandFlags, WaylandSessions, Wayland!Recover
  <2>3. ASSUME rebuilt PROVE WaylandRebuilt'
    <3>1. rebuilds = 1 \/ rebuilds = 0
      BY DEF WaylandInv, WaylandRebuilt
    <3>2. s.kind # "engine" /\ rebuilds' = rebuilds
      BY <2>1, <2>2, <2>3, SecondRecoveryIsSoftware DEF Wayland!Recover
    <3>3. QED
      BY <2>2, <3>1, <3>2 DEF WaylandRebuilt
  <2>4. ASSUME ~rebuilt PROVE WaylandRebuilt'
    <3>1. rebuilds = 0 /\ rebuilds' = 1
      BY <1>1, <2>1, <2>4 DEF WaylandInv, WaylandRebuilt, Wayland!Recover, Wayland!Saturated
    <3>2. rebuilt' = (s.kind \in {"engine", "library"})
      BY <2>1, <2>4 DEF Wayland!Recover
    <3>3. QED
      BY <2>2, <3>1, <3>2 DEF WaylandRebuilt
  <2>5. WaylandRebuilt'
    BY <2>3, <2>4
  <2>6. WaylandServed' /\ Wayland!KeyArmed'
    BY <1>1, <2>1 DEF Wayland!Fail, Wayland!Recover, WaylandServed, Wayland!KeyArmed
  <2>7. QED
    BY <2>5, <2>6
<1>4. QED
  BY <1>2, <1>3

LEMMA NextWaylandInv == WaylandInv /\ [Wayland!Next]_(Wayland!vars) => WaylandInv'
<1> DEFINE Kept == WaylandRebuilt' /\ WaylandServed' /\ Wayland!KeyArmed'
<1> SUFFICES ASSUME WaylandInv, [Wayland!Next]_(Wayland!vars) PROVE Kept
  BY WaylandTypedKept DEF WaylandInv
<1>0. at \in {"take", "encode", "recycled", "ended", "panicked"}
  BY DEF WaylandInv, WaylandTyped, WaylandSteps
<1>1. CASE Wayland!Tick \/ Wayland!Request \/ Wayland!Panic \/ UNCHANGED Wayland!vars
  BY <1>0, <1>1
     DEF Wayland!Tick, Wayland!Request, Wayland!Panic, Wayland!vars, Wayland!path,
         Wayland!flight, Wayland!recovery, Wayland!loop, Wayland!bounds, WaylandInv,
         WaylandRebuilt, WaylandServed, Wayland!KeyArmed
<1>6. CASE Wayland!Take
  BY <1>0, <1>6
     DEF Wayland!Take, Wayland!path, WaylandInv, WaylandTyped, WaylandFlags, WaylandRebuilt,
         WaylandServed, Wayland!KeyArmed
<1>7. CASE Wayland!Rearm
  <2>1. at = "recycled" /\ at' \in {"ended", "take"} /\ UNCHANGED <<rebuilds, rebuilt, session, owed>>
    BY <1>7 DEF Wayland!Rearm, Wayland!path, Wayland!recovery
  <2>2. owed /\ session # Wayland!NoSession => force'
    BY <1>7, <2>1 DEF Wayland!Rearm, WaylandInv, WaylandServed, Wayland!KeyArmed
  <2>3. QED
    BY <2>1, <2>2 DEF WaylandInv, WaylandRebuilt, WaylandServed, Wayland!KeyArmed
<1>2. CASE Wayland!Replace \/ Wayland!Start
  BY <1>2, BootstrapWaylandInv
     DEF Wayland!Replace, Wayland!Start, Wayland!path, Wayland!flight, Wayland!recovery,
         WaylandInv, WaylandRebuilt, WaylandServed, Wayland!KeyArmed
<1>3. CASE Wayland!Encode
  BY <1>3
     DEF Wayland!Encode, Wayland!Sends, Wayland!path, Wayland!recovery, WaylandInv,
         WaylandRebuilt, WaylandServed, Wayland!KeyArmed
<1>8. CASE Wayland!EncodeEmpty
  <2>1. /\ at = "encode" /\ at' = "recycled" /\ rebuilt' = FALSE /\ rebuilds' = 0
        /\ UNCHANGED <<out, owed, force, requested, session>>
    BY <1>8 DEF Wayland!EncodeEmpty, Wayland!path
  <2>2. QED
    BY <2>1 DEF WaylandInv, WaylandRebuilt, WaylandServed, Wayland!KeyArmed
<1>4. CASE Wayland!Turn
  BY <1>4
     DEF Wayland!Turn, Wayland!path, Wayland!flight, Wayland!recovery, WaylandInv,
         WaylandRebuilt, WaylandServed, Wayland!KeyArmed
<1>5. QED
  BY <1>1, <1>2, <1>3, <1>4, <1>6, <1>7, <1>8, FailWaylandInv DEF Wayland!Next

-----------------------------------------------------------------------------
(* X11: what it counts.                                                    *)

X11Counts ==
    /\ resends \in 0 .. Resends /\ streak \in 0 .. X11Threshold - 1
    /\ broken \subseteq Breakable
    /\ turns \in 0 .. MaxTurns /\ requests \in 0 .. MaxRequests
    /\ reshapes \in 0 .. MaxReshapes

LEMMA InitX11Counts == X11!Init => X11Counts
  BY EncoderAssumption DEF X11!PipelineAssumption, X11!Init, X11Counts

\* A cleanup is sent only while one is left.
LEMMA LeftIs ==
    ASSUME X11Counts, NEW picture \in X11!Pictures, X11!Decided(picture)
    PROVE  X11!LeftToSend(picture) \in 0 .. Resends
<1>1. Resends \in Nat /\ resends \in Nat /\ resends <= Resends
  BY EncoderAssumption DEF X11!PipelineAssumption, X11Counts
<1>2. picture = "cleanup" => resends > 0
  BY DEF X11!Decided
<1>3. QED
  BY <1>1, <1>2 DEF X11!LeftToSend

LEMMA NextX11Counts ==
    ASSUME X11Counts, [X11!Next]_X11!vars
    PROVE  X11Counts'
<1>1. /\ Resends \in Nat /\ MaxTurns \in Nat /\ MaxRequests \in Nat /\ MaxReshapes \in Nat
      /\ X11Threshold \in Nat \ {0}
  BY EncoderAssumption DEF X11!PipelineAssumption
<1>2. CASE X11!Request \/ X11!ReshapeSameSize \/ X11!ReshapeInPlace
  BY <1>1, <1>2
     DEF X11!Request, X11!ReshapeSameSize, X11!ReshapeInPlace, X11!coding, X11!recovery, X11Counts
<1>3. ASSUME NEW picture \in X11!Pictures, X11!Encode(picture)
      PROVE  X11Counts'
  <2>1. resends' \in 0 .. Resends
    BY <1>3, LeftIs DEF X11!Encode
  <2>2. streak' \in {streak, 0} /\ UNCHANGED <<broken, turns, requests, reshapes>>
    BY <1>3 DEF X11!Encode, X11!recovery, X11!bounds
  <2>3. QED
    BY <1>1, <2>1, <2>2 DEF X11Counts
<1>4. ASSUME X11!Recover, UNCHANGED <<broken, X11!bounds>>
      PROVE  X11Counts'
  BY <1>1, <1>4 DEF X11!Recover, X11!RecoverTo, X11!bounds, X11Counts
<1>5. ASSUME NEW picture \in X11!Pictures, X11!Fail(picture)
      PROVE  X11Counts'
  <2>1. CASE streak + 1 < X11Threshold
    <3>1. resends' \in 0 .. Resends
      BY <1>5, <2>1, LeftIs DEF X11!Fail
    <3>2. streak' = streak + 1 /\ UNCHANGED <<broken, turns, requests, reshapes>>
      BY <1>5, <2>1 DEF X11!Fail, X11!bounds
    <3>3. QED
      BY <1>1, <2>1, <3>1, <3>2 DEF X11Counts
  <2>2. CASE ~(streak + 1 < X11Threshold)
    BY <1>4, <1>5, <2>2 DEF X11!Fail
  <2>3. QED
    BY <2>1, <2>2
<1>6. CASE X11!RateFails
  BY <1>4, <1>6 DEF X11!RateFails
<1>7. CASE X11!Replace
  <2>1. reshapes' \in 0 .. MaxReshapes /\ UNCHANGED <<broken, turns, requests>>
    BY <1>1, <1>7 DEF X11!Replace, X11Counts
  <2>2. resends' = Resends /\ streak' = 0
    BY <1>7 DEF X11!Replace, X11!Opened
  <2>3. QED
    BY <1>1, <2>1, <2>2 DEF X11Counts
<1>8. CASE X11!Turn
  <2>1. broken' \subseteq Breakable
    BY <1>8 DEF X11!Turn, X11Counts
  <2>2. /\ turns' \in 0 .. MaxTurns /\ UNCHANGED <<resends, streak, requests, reshapes>>
    BY <1>1, <1>8 DEF X11!Turn, X11!coding, X11!recovery, X11Counts
  <2>3. QED
    BY <2>1, <2>2 DEF X11Counts
<1>9. CASE UNCHANGED X11!vars
  BY <1>9 DEF X11!vars, X11!coding, X11!recovery, X11!bounds, X11Counts
<1>10. QED
  BY <1>2, <1>3, <1>5, <1>6, <1>7, <1>8, <1>9 DEF X11!Next

LEMMA X11Types == X11Inv /\ X11Counts => X11!TypeOK
<1> SUFFICES ASSUME X11Inv, X11Counts PROVE X11!TypeOK
  OBVIOUS
<1>1. {late, useCpu, seen, fresh, pending, rebuilt, owed} \subseteq BOOLEAN
  BY Zenon DEF X11Inv, X11Typed, X11Flags
<1>2. QED
  BY <1>1 DEF X11Inv, X11Typed, X11Counts, X11!TypeOK

LEMMA WaylandTypes == WaylandInv => Wayland!TypeOK
<1> SUFFICES ASSUME WaylandInv PROVE Wayland!TypeOK
  OBVIOUS
<1>1. {force, requested, out, rebuilt, poisoned, alive, owed} \subseteq BOOLEAN
  BY Zenon DEF WaylandInv, WaylandTyped, WaylandFlags
<1>2. codec \in Wayland!Codecs /\ session \in Wayland!Sessions \cup {Wayland!NoSession}
  BY OneLadder DEF WaylandInv, WaylandTyped, WaylandSessions
<1>3. QED
  BY <1>1, <1>2 DEF WaylandInv, WaylandTyped, WaylandSteps, WaylandCounts, Wayland!TypeOK

-----------------------------------------------------------------------------
(* FramePace: the operators it is built from.                              *)

\* A finite set of integers has a greatest and a least element: a smallest set
\* without would be the smaller still without one of its elements.
LEMMA EndsExist ==
    ASSUME NEW S \in SUBSET Int, IsFiniteSet(S), S # {}
    PROVE  (\E s \in S : \A u \in S : u <= s) /\ (\E s \in S : \A u \in S : s <= u)
<1> DEFINE HasEnds(T) == (\E s \in T : \A u \in T : u <= s) /\ (\E s \in T : \A u \in T : s <= u)
           Endless == {T \in SUBSET S : T # {} /\ ~HasEnds(T)}
<1>1. SUFFICES ASSUME S \in Endless PROVE FALSE
  OBVIOUS
<1>2. \A T \in SUBSET S : IsFiniteSet(T)
  BY FS_Subset
<1>3. PICK T \in Endless : \A U \in Endless : ~(<<U, T>> \in StrictSubsetOrdering(S))
  <2> HIDE DEF Endless
  <2>1. Endless \subseteq FiniteSubsetsOf(S) /\ Endless # {}
    BY <1>1, <1>2 DEF FiniteSubsetsOf, Endless
  <2>2. QED
    BY <2>1, WFMin, FS_StrictSubsetOrderingWellFounded, Zenon
<1>4. PICK t \in T : TRUE
  BY <1>3
<1>5. T \ {t} = {} \/ HasEnds(T \ {t})
  <2>1. T \ {t} \in SUBSET S /\ T \in SUBSET S /\ T \ {t} \subseteq T /\ T \ {t} # T
    BY <1>3, <1>4
  <2>2. <<T \ {t}, T>> \in StrictSubsetOrdering(S)
    BY <2>1 DEF StrictSubsetOrdering
  <2>3. T \ {t} \notin Endless
    BY <1>3, <2>2
  <2>4. QED
    BY <2>1, <2>3
<1>6. HasEnds(T)
  <2>1. T \subseteq Int
    BY <1>3
  <2>2. CASE T \ {t} = {}
    BY <1>4, <2>1, <2>2
  <2>3. CASE HasEnds(T \ {t})
    <3>1. PICK v \in T \ {t} : \A u \in T \ {t} : u <= v
      BY <2>3
    <3>2. PICK w \in T \ {t} : \A u \in T \ {t} : w <= u
      BY <2>3
    <3>3. \E s \in T : \A u \in T : u <= s
      <4>1. CASE v <= t
        <5>1. \A u \in T : u <= t
          BY <1>4, <2>1, <3>1, <4>1
        <5>2. QED
          BY <1>4, <5>1
      <4>2. CASE t <= v
        <5>1. \A u \in T : u <= v
          BY <1>4, <2>1, <3>1, <4>2
        <5>2. QED
          BY <3>1, <5>1
      <4>3. QED
        BY <1>4, <2>1, <3>1, <4>1, <4>2
    <3>4. \E s \in T : \A u \in T : s <= u
      <4>1. CASE t <= w
        <5>1. \A u \in T : t <= u
          BY <1>4, <2>1, <3>2, <4>1
        <5>2. QED
          BY <1>4, <5>1
      <4>2. CASE w <= t
        <5>1. \A u \in T : w <= u
          BY <1>4, <2>1, <3>2, <4>2
        <5>2. QED
          BY <3>2, <5>1
      <4>3. QED
        BY <1>4, <2>1, <3>2, <4>1, <4>2
    <3>5. QED
      BY <3>3, <3>4
  <2>4. QED
    BY <1>5, <2>2, <2>3
<1>7. QED
  BY <1>3, <1>6

LEMMA EndsAre ==
    ASSUME NEW S \in SUBSET Int, IsFiniteSet(S), S # {}
    PROVE  /\ Pace!Max(S) \in S /\ \A u \in S : Pace!Max(S) >= u
           /\ Pace!Min(S) \in S /\ \A u \in S : Pace!Min(S) <= u
<1>1. (\E s \in S : \A u \in S : s >= u) /\ (\E s \in S : \A u \in S : s <= u)
  BY EndsExist
<1>2. QED
  BY <1>1 DEF Pace!Max, Pace!Min

LEMMA OfTwo ==
    ASSUME NEW a \in Int, NEW b \in Int
    PROVE  /\ Pace!Max({a, b}) = IF a >= b THEN a ELSE b
           /\ Pace!Min({a, b}) = IF a <= b THEN a ELSE b
  BY DEF Pace!Max, Pace!Min

\* What division leaves of a window long past.
LEMMA Quotient ==
    ASSUME NEW x \in Nat, NEW p \in Nat \ {0}
    PROVE  x \div p \in Nat /\ p * (x \div p) \in Nat /\ p * (x \div p) <= x
           /\ x - p < p * (x \div p)
  BY Z3

LEMMA LastPastIs ==
    ASSUME NEW first \in Int, first <= 0, NEW p \in Nat \ {0}
    PROVE  /\ Pace!LastPast(first, p) \in Int
           /\ first <= Pace!LastPast(first, p) /\ Pace!LastPast(first, p) <= 0
           /\ -p < Pace!LastPast(first, p)
           /\ -p < first => Pace!LastPast(first, p) = first
  BY Quotient, 0 - first \in Nat DEF Pace!LastPast

-----------------------------------------------------------------------------
(* FramePace: the invariant.                                               *)

\* The longest of the periods, and the shortest.
Long == Pace!Longest
Short == Pace!Min(Periods[loop])

\* A FramePace of the loop that runs.
Paced(w) ==
    /\ w = [started |-> w.started, end |-> w.end, held |-> w.held, since |-> w.since]
    /\ w.started \in BOOLEAN
    /\ w.end \in -3 * Long .. Long
    /\ w.held \in -4 * Long .. (3 * Long) \div 2
    /\ w.since \in 0 .. (3 * Long + 1) \div 2
    /\ ~w.started => w.end = 0
    /\ loop # "host" => w.held = -4 * Long

\* What the frames are worth, and what is owed, against the end of the last window
\* they closed.
Owes(w, credit, owing) ==
    /\ credit \in Int /\ owing \in Int
    /\ ~w.started => credit = 0 /\ owing <= 0
    /\ credit <= 2 * Long - 1 + (IF w.end > 1 - 2 * Long THEN w.end ELSE 1 - 2 * Long)
    /\ ~Pace!KeepsRate => owing <= 0
    /\ Pace!KeepsRate /\ ~lapsed => owing <= Long - w.end

\* No window was passed over while what is owed is kept.
Worth(w, p, credit, owing) ==
    /\ Owes(w, credit, owing)
    /\ Pace!KeepsRate /\ ~lapsed /\ w.started => w.end + 2 * p > 0

LEMMA PeriodsAre ==
    ASSUME loop \in Loops
    PROVE  /\ Long \in Periods[loop] /\ Long \in Nat \ {0} /\ Slack \in Nat
           /\ Short \in Nat \ {0}
           /\ \A p \in Periods[loop] :
                  p \in Nat \ {0} /\ p <= Long /\ Short <= p /\ 2 * Slack < p
<1>1. /\ Periods[loop] \in SUBSET Nat /\ IsFiniteSet(Periods[loop]) /\ Periods[loop] # {}
      /\ Slack \in Nat /\ \A p \in Periods[loop] : p \in Nat /\ 2 * Slack < p
  BY PacingAssumption DEF Pace!PaceAssumption, Pace!IsFiniteSet, IsFiniteSet
<1>2. Long \in Periods[loop] /\ \A p \in Periods[loop] : Long >= p
  BY <1>1, EndsAre DEF Long, Pace!Longest
<1>3. Short \in Periods[loop] /\ \A p \in Periods[loop] : Short <= p
  BY <1>1, EndsAre DEF Short
<1>4. QED
  BY <1>1, <1>2, <1>3

LEMMA NextDueIs ==
    ASSUME NEW w, w.held \in Int, w.end \in Int, NEW p \in Int
    PROVE  LET opens == IF w.started THEN w.end + p ELSE 0
           IN  Pace!NextDue(w, p) = IF w.held >= opens THEN w.held ELSE opens
  BY OfTwo DEF Pace!NextDue

\* Where a tick leaves the window's end: a window further on at least, of the
\* grid where none was passed over.
Closes(w, trigger, p, e) ==
    /\ e \in Int /\ -p < e
    /\ w.started => w.end + p <= e
    /\ trigger = "Timer" /\ Pace!NextDue(w, p) <= Slack => e <= Slack
    /\ trigger # "Timer" /\ w.end <= 0 => e <= p
    /\ w.held = -4 * Long /\ w.started /\ w.end + 2 * p > 0 => e = w.end + p
    /\ w.held = -4 * Long /\ ~w.started => e = 0

LEMMA TickIs ==
    ASSUME loop \in Loops, NEW w, Paced(w), NEW p \in Periods[loop],
           NEW trigger \in {"Timer", "Damage", "HostFrame"}
    PROVE  \E e \in Int :
               /\ Closes(w, trigger, p, e)
               /\ Pace!Ticked(w, trigger, p, TRUE)
                      = [started |-> TRUE, end |-> e, held |-> -4 * Long, since |-> 0]
<1> DEFINE s == Pace!NextDue(w, p)
           e == Pace!Ticked(w, trigger, p, TRUE).end
<1>a. SUFFICES /\ Closes(w, trigger, p, e)
               /\ Pace!Ticked(w, trigger, p, TRUE)
                      = [started |-> TRUE, end |-> e, held |-> -4 * Long, since |-> 0]
  BY DEF Closes
<1>1. /\ p \in Nat \ {0} /\ Long \in Nat \ {0} /\ p <= Long /\ Slack \in Nat
      /\ w.held \in Int /\ w.end \in Int /\ w.started \in BOOLEAN
      /\ -3 * Long <= w.end /\ (~w.started => w.end = 0)
  BY PeriodsAre DEF Paced
<1>2. s = IF w.held >= (IF w.started THEN w.end + p ELSE 0) THEN w.held
          ELSE (IF w.started THEN w.end + p ELSE 0)
  BY <1>1, NextDueIs
<1>3. s \in Int
  BY <1>1, <1>2
<1>4. /\ Pace!Ticked(w, trigger, p, TRUE)
            = [started |-> TRUE, end |-> e, held |-> Pace!LongPast, since |-> 0]
      /\ e = IF trigger = "Timer"
             THEN IF s >= 0 THEN s ELSE Pace!LastPast(s, p)
             ELSE IF w.started /\ s < 0 /\ -p < s THEN s
             ELSE Pace!ClosedBy(w, p)
  BY <1>1 DEF Pace!Ticked, Pace!LateClose
<1>5. Pace!LongPast = -4 * Long
  BY DEF Long, Pace!LongPast
<1>b. SUFFICES Closes(w, trigger, p, e)
  BY <1>4, <1>5
<1>c. SUFFICES /\ e \in Int /\ -p < e
               /\ w.started => w.end + p <= e
               /\ trigger = "Timer" /\ s <= Slack => e <= Slack
               /\ trigger # "Timer" /\ w.end <= 0 => e <= p
               /\ w.held = -4 * Long /\ w.started /\ w.end + 2 * p > 0 => e = w.end + p
               /\ w.held = -4 * Long /\ ~w.started => e = 0
  BY DEF Closes
<1> HIDE DEF s, e
<1>6. CASE trigger = "Timer" /\ s >= 0
  BY <1>1, <1>2, <1>3, <1>4, <1>6
<1>7. CASE trigger = "Timer" /\ s < 0
  <2>1. /\ Pace!LastPast(s, p) \in Int /\ s <= Pace!LastPast(s, p) /\ Pace!LastPast(s, p) <= 0
        /\ -p < Pace!LastPast(s, p) /\ (-p < s => Pace!LastPast(s, p) = s)
    BY <1>1, <1>3, <1>7, LastPastIs
  <2>2. QED
    BY <1>1, <1>2, <1>3, <1>4, <1>7, <2>1
<1>8. CASE trigger # "Timer" /\ w.started /\ s < 0 /\ -p < s
  BY <1>1, <1>2, <1>3, <1>4, <1>8
<1>9. CASE trigger # "Timer" /\ ~(w.started /\ s < 0 /\ -p < s)
  <2>1. e = Pace!ClosedBy(w, p)
    BY <1>4, <1>9
  <2>2. CASE ~w.started
    BY <1>1, <1>2, <1>4, <1>9, <2>1, <2>2 DEF Pace!ClosedBy
  <2>3. CASE w.started /\ w.end + p >= 0
    BY <1>1, <1>2, <1>4, <1>9, <2>1, <2>3 DEF Pace!ClosedBy
  <2>4. CASE w.started /\ w.end + p < 0
    <3> DEFINE past == Pace!LastPast(w.end + p, p)
    <3>1. /\ past \in Int /\ w.end + p <= past /\ past <= 0 /\ -p < past
          /\ (-p < w.end + p => past = w.end + p)
      BY <1>1, <2>4, LastPastIs
    <3>2. e = IF past = 0 THEN 0 ELSE past + p
      BY <1>1, <2>1, <2>4 DEF Pace!ClosedBy
    <3>3. w.held = -4 * Long => s = w.end + p
      BY <1>1, <1>2, <2>4
    <3>4. w.held = -4 * Long => ~(-p < s)
      BY <1>1, <1>9, <2>4, <3>3
    <3> HIDE DEF past
    <3>5. QED
      BY <1>1, <1>4, <1>9, <2>4, <3>1, <3>2, <3>3, <3>4
  <2>5. QED
    BY <1>1, <2>2, <2>3, <2>4
<1>10. QED
  BY <1>3, <1>6, <1>7, <1>8, <1>9

\* A tick is worth a period.
LEMMA TickWorth ==
    ASSUME loop \in Loops, NEW w, Paced(w), NEW p \in Periods[loop],
           NEW trigger \in {"Timer", "Damage", "HostFrame"},
           IF trigger = "Timer" THEN Pace!NextDue(w, p) <= Slack ELSE w.end <= 0,
           NEW e \in Int, Closes(w, trigger, p, e),
           NEW credit, NEW owing, Worth(w, p, credit, owing)
    PROVE  LET t == [started |-> TRUE, end |-> e, held |-> -4 * Long, since |-> 0]
           IN  Paced(t) /\ Worth(t, p, credit + p, owing - p)
<1> DEFINE t == [started |-> TRUE, end |-> e, held |-> -4 * Long, since |-> 0]
<1>1. /\ p \in Nat \ {0} /\ Long \in Nat \ {0} /\ p <= Long /\ Slack \in Nat /\ 2 * Slack < p
      /\ w.held \in Int /\ w.end \in Int /\ w.started \in BOOLEAN /\ w.end <= Long
      /\ -3 * Long <= w.end /\ (~w.started => w.end = 0)
      /\ (loop # "host" => w.held = -4 * Long)
  BY PeriodsAre DEF Paced
<1>2. /\ -p < e /\ e <= p
      /\ w.started => w.end + p <= e
  BY <1>1 DEF Closes
<1>3. Paced(t)
  BY <1>1, <1>2 DEF Paced
<1>4. credit + p <= 2 * Long - 1 + (IF e > 1 - 2 * Long THEN e ELSE 1 - 2 * Long)
  BY <1>1, <1>2 DEF Owes, Worth
<1>5. Pace!KeepsRate => w.held = -4 * Long
  BY <1>1 DEF Pace!KeepsRate
<1>6. ~Pace!KeepsRate => owing - p <= 0
  BY <1>1 DEF Owes, Worth
<1>7. ASSUME Pace!KeepsRate, ~lapsed
      PROVE  owing - p <= Long - e /\ e + 2 * p > 0
  <2>1. w.started => e = w.end + p
    BY <1>1, <1>5, <1>7 DEF Owes, Worth, Closes
  <2>2. QED
    BY <1>1, <1>2, <1>7, <2>1 DEF Owes, Worth
<1>8. credit + p \in Int /\ owing - p \in Int
  BY <1>1 DEF Owes, Worth
<1>9. QED
  BY <1>3, <1>4, <1>6, <1>7, <1>8 DEF Owes, Worth

-----------------------------------------------------------------------------
(* FramePace: what the compositor's loop holds.                            *)

Queues == {"none", "fits", "other"}

\* What it holds is kept, and the frames it is about to count are worth what they are.
Holds(x) ==
    /\ x = [w |-> x.w, pending |-> x.pending, queue |-> x.queue, frames |-> x.frames]
    /\ x.pending \in BOOLEAN /\ x.queue \in Queues /\ x.frames \in 0 .. 2
    /\ level \in Int /\ debt \in Int
    /\ Paced(x.w)
    /\ Worth(x.w, period, level + x.frames * period, debt - x.frames * period)
    /\ loop # "host" => x.queue = "none"

\* A turn that does nothing, one that sends a frame, one that holds the timer off.
Untouched(x, y, trigger, full) ==
    y = x /\ (~Pace!Due(x.w, trigger, period) \/ full)

Sends(x, y, trigger, full) ==
    /\ Pace!Due(x.w, trigger, period) /\ ~full
    /\ y.pending = FALSE /\ y.queue = "none" /\ y.frames = x.frames + 1
    /\ y.w.started /\ y.w.held = -4 * Long /\ -period < y.w.end
    /\ x.w.started => x.w.end + period <= y.w.end
    /\ ~x.w.started /\ loop # "host" => y.w.end = 0

HoldsOff(x, y, trigger, full) ==
    /\ Pace!Due(x.w, trigger, period) /\ ~full
    /\ loop = "host" /\ x.queue # "fits" /\ y.queue = "none"
    /\ y.pending = x.pending /\ y.frames = x.frames
    /\ y.w.started = x.w.started /\ y.w.end = x.w.end /\ 1 <= y.w.held

LEMMA HoldOffIs ==
    ASSUME loop \in Loops, loop = "host", period \in Periods[loop], streaming \in BOOLEAN,
           NEW w, Paced(w)
    PROVE  \E h \in 1 .. (3 * Long) \div 2 : Pace!HoldOff(w) = [w EXCEPT !.held = h]
<1>1. period \in Nat \ {0} /\ Long \in Nat \ {0} /\ period <= Long
  BY PeriodsAre
<1>2. w.since \in Nat
  BY <1>1 DEF Paced
<1> DEFINE after == IF ~streaming THEN period
                    ELSE IF w.started THEN (3 * period) \div 2 - w.since
                    ELSE 0
<1>3. after \in Int /\ after <= (3 * Long) \div 2 /\ 1 <= (3 * Long) \div 2
  BY <1>1, <1>2, Z3
<1>4. Pace!Max({1, after}) = IF 1 >= after THEN 1 ELSE after
  <2> HIDE DEF after
  <2> QED
    BY <1>3, OfTwo
<1>5. Pace!HoldOff(w) = [w EXCEPT !.held = Pace!Max({1, after})]
  BY DEF Pace!HoldOff
<1> HIDE DEF after
<1>6. QED
  BY <1>1, <1>3, <1>4, <1>5

LEMMA RenderedIs ==
    ASSUME loop \in Loops \ Pace!X11Loops, period \in Periods[loop], streaming \in BOOLEAN,
           NEW x, Holds(x), x.frames \in 0 .. 1,
           NEW trigger \in {"Timer", "Damage", "HostFrame"},
           NEW full \in BOOLEAN, NEW wanted \in BOOLEAN
    PROVE  LET y == Pace!Rendered(x, trigger, full, wanted)
           IN  /\ Holds(y)
               /\ \/ Untouched(x, y, trigger, full)
                  \/ Sends(x, y, trigger, full)
                  \/ HoldsOff(x, y, trigger, full)
<1> DEFINE y == Pace!Rendered(x, trigger, full, wanted)
<1>1. period \in Nat \ {0} /\ Long \in Nat \ {0} /\ period <= Long /\ Slack \in Nat
  BY PeriodsAre
<1>2. CASE ~Pace!Due(x.w, trigger, period) \/ full
  BY <1>2 DEF Pace!Rendered, Untouched
<1>3. CASE Pace!Due(x.w, trigger, period) /\ ~full /\ Pace!Publishes(x, wanted)
  <2>1. PICK e \in Int :
            /\ Closes(x.w, trigger, period, e)
            /\ Pace!Ticked(x.w, trigger, period, TRUE)
                   = [started |-> TRUE, end |-> e, held |-> -4 * Long, since |-> 0]
    BY TickIs DEF Holds
  <2> DEFINE t == [started |-> TRUE, end |-> e, held |-> -4 * Long, since |-> 0]
  <2>2. IF trigger = "Timer" THEN Pace!NextDue(x.w, period) <= Slack ELSE x.w.end <= 0
    BY <1>3 DEF Pace!Due, Pace!PullAt
  <2>3. /\ Paced(t)
        /\ Worth(t, period, level + x.frames * period + period, debt - x.frames * period - period)
    BY <2>1, <2>2, TickWorth DEF Holds
  <2>4. y = [w |-> t, pending |-> FALSE, queue |-> "none", frames |-> x.frames + 1]
    BY <1>3, <2>1 DEF Pace!Rendered
  <2>5. /\ level + x.frames * period + period = level + (x.frames + 1) * period
        /\ debt - x.frames * period - period = debt - (x.frames + 1) * period
        /\ x.frames + 1 \in 0 .. 2
    <3>1. x.frames = 0 \/ x.frames = 1
      OBVIOUS
    <3>2. level \in Int /\ debt \in Int /\ 0 * period = 0 /\ 1 * period = period
          /\ 2 * period = period + period
      BY <1>1 DEF Holds
    <3>3. CASE x.frames = 0
      BY <1>1, <3>2, <3>3
    <3>4. CASE x.frames = 1
      <4>1. x.frames + 1 = 2
        BY <3>4
      <4>2. QED
        BY <1>1, <3>2, <3>4, <4>1
    <3>5. QED
      BY <3>1, <3>3, <3>4
  <2>6. Holds(y)
    <3> HIDE DEF t
    <3> QED
      BY <2>3, <2>4, <2>5 DEF Holds, Queues
  <2>7. Sends(x, y, trigger, full)
    BY <1>1, <1>3, <2>1, <2>4 DEF Sends, Closes, Holds, Paced
  <2>8. QED
    BY <2>6, <2>7
<1>4. CASE Pace!Due(x.w, trigger, period) /\ ~full /\ ~Pace!Publishes(x, wanted)
  <2>1. loop = "host" /\ x.queue # "fits"
    BY <1>4 DEF Pace!Publishes
  <2>2. PICK h \in 1 .. (3 * Long) \div 2 : Pace!HoldOff(x.w) = [x.w EXCEPT !.held = h]
    BY <2>1, HoldOffIs DEF Holds
  <2>3. y = [x EXCEPT !.w = Pace!HoldOff(x.w), !.queue = "none"]
    BY <1>4 DEF Pace!Rendered
  <2> DEFINE t == [x.w EXCEPT !.held = h]
  <2>4. h \in Int /\ 1 <= h /\ h <= (3 * Long) \div 2
    BY <1>1
  <2>5. /\ t = [started |-> x.w.started, end |-> x.w.end, held |-> h, since |-> x.w.since]
    BY DEF Holds, Paced
  <2>6. Paced(t)
    <3>1. h \in -4 * Long .. (3 * Long) \div 2
      BY <1>1, <2>4, Z3
    <3> HIDE DEF t
    <3>2. QED
      BY <2>1, <2>5, <3>1 DEF Holds, Paced
  <2>7. Worth(t, period, level + x.frames * period, debt - x.frames * period)
    <3> HIDE DEF t
    <3>2. QED
      BY <2>5 DEF Holds, Owes, Worth
  <2>8. y = [w |-> t, pending |-> x.pending, queue |-> "none", frames |-> x.frames]
    BY <2>2, <2>3 DEF Holds
  <2> HIDE DEF t, y
  <2>9. Holds(y)
    BY <2>1, <2>6, <2>7, <2>8 DEF Holds, Queues
  <2>10. HoldsOff(x, y, trigger, full)
    BY <1>4, <2>1, <2>4, <2>5, <2>8 DEF HoldsOff
  <2>11. QED
    BY <2>9, <2>10 DEF y
<1>5. QED
  BY <1>2, <1>3, <1>4


PaceTyped ==
    /\ loop \in Loops /\ streaming \in BOOLEAN
    /\ target \in Periods[loop] /\ period \in Periods[loop]
    /\ wake \in 0 .. 2 * Long
    /\ change \in BOOLEAN /\ busy \in BOOLEAN /\ note \in BOOLEAN /\ lapsed \in BOOLEAN
    /\ queue \in Queues
    /\ lateness \in 0 .. Lateness[loop]
    /\ level \in Nat /\ debt \in 0 .. 3 * Long
    /\ waited \in Int /\ waited >= -1
    /\ loop # "host" => ~note /\ queue = "none"
    /\ loop \in Pace!X11Loops => ~busy /\ waited >= 0

\* For how long the loop sleeps at most, beyond the window's end.
Sleeping ==
    /\ loop \in {"shm", "dri3"} => wake = IF pace.end > 0 THEN pace.end ELSE 0
    /\ loop = "undamaged" =>
           LET due == IF pace.started THEN pace.end + period ELSE 0
           IN  wake = IF due > 0 THEN due ELSE 0
    /\ loop = "compositor" =>
           /\ wake <= 1 \/ wake <= pace.end + Long
           /\ pace.end > 0 => wake <= pace.end + Long - Short
    /\ loop = "host" => wake <= (3 * Long) \div 2 + (IF pace.end > 0 THEN pace.end ELSE 0)

\* How long a change may wait for a timer.
Bonus ==
    IF loop = "host" THEN (3 * Long) \div 2
    ELSE IF loop = "compositor" THEN Long - Short ELSE 0

\* For how long a change has waited with its window open.
Waiting ==
    /\ ~Pace!Showable(change, queue) => waited = 0
    /\ loop \in {"shm", "dri3"} => waited <= lateness /\ (pace.end > 0 => waited = 0)
    /\ loop = "undamaged" =>
           LET due == IF pace.started THEN pace.end + period ELSE 0
           IN  IF due <= 0 THEN waited <= period + lateness
               ELSE waited <= (IF pace.end > 0 THEN 0 ELSE -pace.end)
    /\ loop \in {"compositor", "host"} =>
           /\ waited > 0 => ~busy /\ pace.end <= 0
           /\ \/ ~Pace!Showable(change, queue) \/ waited = -1
              \/ waited = 0 /\ (busy \/ pace.end > 0)
              \/ waited + wake <= Bonus
              \/ wake = 0 /\ waited <= Bonus + lateness

PaceInv == PaceTyped /\ Paced(pace) /\ Worth(pace, period, level, debt) /\ Sleeping /\ Waiting
                /\ spun \subseteq {"misfit"}

LEMMA LaterIs ==
    ASSUME PaceTyped, Paced(pace)
    PROVE  LET t == Pace!Later(pace)
           IN  /\ Paced(t) /\ t.started = pace.started
               /\ ~pace.started => t.end = 0
               /\ pace.started =>
                      t.end = IF pace.end - 1 < -3 * period THEN pace.end - 1 + period
                              ELSE pace.end - 1
<1> DEFINE t == Pace!Later(pace)
<1>1. period \in Nat \ {0} /\ Long \in Nat \ {0} /\ period <= Long
  BY PeriodsAre DEF PaceTyped
<1>2. Pace!LongPast = -4 * Long /\ Pace!Quiet = (3 * Long + 1) \div 2
  BY DEF Long, Pace!LongPast, Pace!Quiet
<1>3. (3 * Long + 1) \div 2 \in Nat /\ -4 * Long <= (3 * Long) \div 2
  BY <1>1, Z3
<1>4. pace.held \in Int /\ pace.since \in Int /\ pace.end \in Int
  BY <1>1, <1>3 DEF Paced
<1> DEFINE a == Pace!Max({Pace!LongPast, pace.held - 1})
           b == IF loop = "host" THEN Pace!Min({Pace!Quiet, pace.since + 1}) ELSE 0
           c == IF ~pace.started THEN 0
                ELSE IF pace.end - 1 < -3 * period THEN pace.end - 1 + period
                ELSE pace.end - 1
<1>12. t = [[[pace EXCEPT !.end = c] EXCEPT !.held = a] EXCEPT !.since = b]
  BY DEF Pace!Later
<1>13. t = [started |-> pace.started, end |-> c, held |-> a, since |-> b]
  <2> HIDE DEF a, b, c, t
  <2>1. pace = [started |-> pace.started, end |-> pace.end, held |-> pace.held,
                since |-> pace.since]
    BY DEF Paced
  <2>2. QED
    BY <1>12, <2>1
<1>5. t = [started |-> pace.started,
           end |-> IF ~pace.started THEN 0
                   ELSE IF pace.end - 1 < -3 * period THEN pace.end - 1 + period
                   ELSE pace.end - 1,
           held |-> Pace!Max({-4 * Long, pace.held - 1}),
           since |-> IF loop = "host" THEN Pace!Min({Pace!Quiet, pace.since + 1}) ELSE 0]
  BY <1>2, <1>13
<1>6. Pace!Max({-4 * Long, pace.held - 1})
        = IF -4 * Long >= pace.held - 1 THEN -4 * Long ELSE pace.held - 1
  BY <1>1, <1>4, OfTwo
<1>7. Pace!Min({Pace!Quiet, pace.since + 1})
        = IF Pace!Quiet <= pace.since + 1 THEN Pace!Quiet ELSE pace.since + 1
  <2>1. Pace!Quiet \in Int /\ pace.since + 1 \in Int
    BY <1>2, <1>3, <1>4
  <2>2. QED
    BY <2>1, OfTwo
<1> HIDE DEF t
<1>8. t.held \in -4 * Long .. (3 * Long) \div 2 /\ (loop # "host" => t.held = -4 * Long)
  <2>1. /\ -4 * Long <= pace.held /\ pace.held <= (3 * Long) \div 2
        /\ (3 * Long) \div 2 \in Int
    BY <1>1, <1>3 DEF Paced
  <2>2. QED
    BY <1>1, <1>3, <1>4, <1>5, <1>6, <2>1 DEF Paced
<1>9. t.since \in 0 .. (3 * Long + 1) \div 2
  BY <1>2, <1>3, <1>4, <1>5, <1>7 DEF Paced
<1>10. t.end \in -3 * Long .. Long
  BY <1>1, <1>4, <1>5 DEF Paced
<1>11. QED
  BY <1>5, <1>8, <1>9, <1>10 DEF Paced, t

\* What is counted of the frames sent.
LEMMA CountedIs ==
    ASSUME PaceTyped, NEW n \in 0 .. 2, NEW w, NEW p, Paced(w),
           Worth(w, p, level + n * period, debt - n * period), Pace!Counted(n)
    PROVE  /\ Worth(w, p, level', debt') /\ level' \in Nat /\ debt' \in 0 .. 3 * Long
           /\ lateness' = 0
           /\ waited' = IF Pace!Showable(change', queue') THEN waited ELSE 0
<1>1. period \in Nat \ {0} /\ Long \in Nat \ {0} /\ period <= Long
  BY PeriodsAre DEF PaceTyped
<1>2. n * period \in Nat
  <2>1. n = 0 \/ n = 1 \/ n = 2
    OBVIOUS
  <2>2. QED
    BY <1>1, <2>1
<1>3. /\ level' = Pace!Min({4 * Long, level + n * period})
      /\ debt' = Pace!Max({0, debt - n * period})
      /\ lateness' = 0
      /\ waited' = IF Pace!Showable(change', queue') THEN waited ELSE 0
  BY DEF Pace!Counted, Long
<1> DEFINE worth == n * period
<1>11. worth \in Int /\ level \in Int /\ debt \in Int /\ 4 * Long \in Int
  BY <1>1, <1>2 DEF PaceTyped
<1>12. /\ level' = Pace!Min({4 * Long, level + worth})
       /\ debt' = Pace!Max({0, debt - worth})
  BY <1>3
<1> HIDE DEF worth
<1>4. level' = IF 4 * Long <= level + worth THEN 4 * Long ELSE level + worth
  <2>1. level + worth \in Int
    BY <1>11
  <2> DEFINE a == 4 * Long
             b == level + worth
  <2>2. a \in Int /\ b \in Int
    BY <1>11, <2>1
  <2> HIDE DEF a, b
  <2>3. Pace!Min({a, b}) = IF a <= b THEN a ELSE b
    BY <2>2, OfTwo
  <2>4. QED
    BY <1>12, <2>3 DEF a, b
<1>5. debt' = IF 0 >= debt - worth THEN 0 ELSE debt - worth
  BY <1>11, <1>12, OfTwo
<1>6. Worth(w, p, level + worth, debt - worth) /\ worth \in Nat
  BY <1>2 DEF worth
<1>7. level' \in Nat /\ level' <= level + worth /\ debt' \in 0 .. 3 * Long
  BY <1>1, <1>4, <1>5, <1>6 DEF PaceTyped
<1>8. ~w.started => level' = 0
  BY <1>1, <1>4, <1>6 DEF Owes, Worth
<1>9. Worth(w, p, level', debt')
  BY <1>1, <1>5, <1>6, <1>7, <1>8 DEF Owes, Worth, Paced, PaceTyped
<1>10. QED
  BY <1>3, <1>7, <1>9

-----------------------------------------------------------------------------
(* FramePace: the steps.                                                   *)

\* What a step that keeps the loop does not change.
LEMMA LoopStays ==
    ASSUME loop' = loop
    PROVE  /\ Long' = Long /\ Short' = Short /\ Bonus' = Bonus
           /\ (Pace!KeepsRate)' = Pace!KeepsRate
  BY DEF Long, Short, Bonus, Pace!Longest, Pace!KeepsRate

LEMMA LoopKinds ==
    ASSUME loop \in Loops
    PROVE  /\ loop \in {"shm", "undamaged", "dri3", "compositor", "host"}
           /\ loop \in Pace!X11Loops <=> loop \in {"shm", "undamaged", "dri3"}
  BY PacingAssumption DEF Pace!PaceAssumption, Pace!X11Loops

LEMMA PaceStarts == Pace!Init => PaceInv
<1> SUFFICES ASSUME Pace!Init PROVE PaceInv
  OBVIOUS
<1>1. loop \in Loops
  BY DEF Pace!Init
<1>2. /\ Long \in Nat \ {0} /\ Short \in Nat \ {0} /\ period \in Nat /\ period <= Long
      /\ Short <= Long
  BY <1>1, PeriodsAre DEF Pace!Init
<1>3. pace = [started |-> FALSE, end |-> 0, held |-> -4 * Long, since |-> 0]
  BY DEF Pace!Init, Pace!Fresh, Pace!LongPast, Long
<1>4. Lateness[loop] \in Nat
  BY <1>1, PacingAssumption DEF Pace!PaceAssumption
<1>5. (3 * Long) \div 2 \in Nat /\ (3 * Long + 1) \div 2 \in Nat
  BY <1>2, Z3
<1>6. PaceTyped
  <2>2. wake \in 0 .. 2 * Long /\ lateness \in 0 .. Lateness[loop] /\ debt \in 0 .. 3 * Long
    BY <1>2, <1>4 DEF Pace!Init
  <2>3. /\ streaming \in BOOLEAN /\ target \in Periods[loop] /\ period \in Periods[loop]
        /\ change = FALSE /\ busy = FALSE /\ note = FALSE /\ lapsed = FALSE
        /\ queue = "none" /\ level = 0 /\ waited = 0
    BY DEF Pace!Init
  <2>4. level \in Nat /\ waited \in Int /\ waited >= -1 /\ waited >= 0
    BY <2>3
  <2>5. queue \in Queues
    BY <2>3 DEF Queues
  <2>6. /\ change \in BOOLEAN /\ busy \in BOOLEAN /\ note \in BOOLEAN /\ lapsed \in BOOLEAN
        /\ ~note /\ ~busy
    BY <2>3
  <2>7. QED
    BY <1>1, <2>2, <2>3, <2>4, <2>5, <2>6, Zenon DEF PaceTyped
<1>7. Paced(pace)
  BY <1>2, <1>3, <1>5 DEF Paced
<1>8. Worth(pace, period, level, debt)
  BY <1>2, <1>3 DEF Pace!Init, Owes, Worth
<1>9. Sleeping
  BY <1>2, <1>3, <1>5 DEF Pace!Init, Sleeping
<1>10. Waiting
  BY <1>2, <1>3, <1>5 DEF Pace!Init, Waiting, Pace!Showable
<1>11. spun \subseteq {"misfit"}
  BY DEF Pace!Init
<1>12. QED
  BY <1>6, <1>7, <1>8, <1>9, <1>10, <1>11 DEF PaceInv

\* A report marks a change that nothing has kept waiting yet.
LEMMA ReportKeeps ==
    ASSUME PaceInv, Pace!Report
    PROVE  PaceInv'
<1>1. /\ UNCHANGED <<loop, streaming, target, period, pace, wake, busy, queue, note, lateness,
                     level, debt, lapsed, waited, spun>>
      /\ loop \in Pace!X11Loops /\ change = FALSE /\ change' = TRUE
  BY DEF Pace!Report, Pace!history, PaceInv, PaceTyped
<1>2. /\ Long' = Long /\ Short' = Short /\ Bonus' = Bonus
      /\ (Pace!KeepsRate)' = Pace!KeepsRate
  BY <1>1, LoopStays
<1>3. waited = 0
  BY <1>1 DEF PaceInv, Waiting, Pace!Showable
<1>4. PaceTyped'
  BY <1>1, <1>2 DEF PaceInv, PaceTyped
<1>5. Paced(pace)' /\ Worth(pace, period, level, debt)'
  BY <1>1, <1>2 DEF PaceInv, Paced, Owes, Worth
<1>6. Sleeping'
  BY <1>1, <1>2 DEF PaceInv, Sleeping
<1>7. Waiting'
  <2>1. loop \in {"shm", "undamaged", "dri3"} /\ loop \in Loops
    BY <1>1 DEF Pace!X11Loops, PaceInv, PaceTyped
  <2>2. /\ period \in Nat /\ lateness \in Nat
    BY <2>1, PeriodsAre, PacingAssumption DEF PaceInv, PaceTyped
  <2>3. waited' = 0 /\ pace' = pace /\ period' = period /\ lateness' = lateness /\ loop' = loop
    BY <1>1, <1>3
  <2>4. pace.started \in BOOLEAN /\ pace.end \in Int
    <3>1. Long \in Nat
      BY <2>1, PeriodsAre
    <3>2. QED
      BY <3>1 DEF PaceInv, Paced
  <2>5. QED
    BY <2>1, <2>2, <2>3, <2>4 DEF Waiting
<1>8. QED
  BY <1>1, <1>4, <1>5, <1>6, <1>7 DEF PaceInv

\* A host's frame is a change to show where one was marked.
LEMMA HostFrameKeeps ==
    ASSUME PaceInv, NEW size \in {"fits", "other"}, Pace!HostFrame(size)
    PROVE  PaceInv'
<1>1. /\ UNCHANGED <<loop, streaming, target, period, pace, wake, change, busy, lateness,
                     level, debt, lapsed, spun>>
      /\ loop = "host" /\ queue' = size /\ note' = TRUE
      /\ waited' = IF size = "fits" THEN waited ELSE 0
  BY DEF Pace!HostFrame
<1>2. /\ Long' = Long /\ Short' = Short /\ Bonus' = Bonus
      /\ (Pace!KeepsRate)' = Pace!KeepsRate
  BY <1>1, LoopStays
<1>4. PaceTyped'
  BY <1>1, <1>2 DEF PaceInv, PaceTyped, Queues, Pace!X11Loops
<1>5. Paced(pace)' /\ Worth(pace, period, level, debt)'
  BY <1>1, <1>2 DEF PaceInv, Paced, Owes, Worth
<1>6. Sleeping'
  BY <1>1, <1>2 DEF PaceInv, Sleeping
<1>7. Waiting'
  <2>1. Long \in Nat /\ pace.end \in Int
    BY PeriodsAre DEF PaceInv, PaceTyped, Paced
  <2>2. (3 * Long) \div 2 \in Nat
    BY <2>1, Z3
  <2>3. pace.end <= 0 => wake <= Bonus
    BY <1>1, <2>1, <2>2 DEF PaceInv, Sleeping, Bonus
  <2>4. CASE size = "other"
    BY <1>1, <2>4 DEF Waiting, Pace!Showable
  <2>5. CASE size = "fits" /\ Pace!Showable(change, queue)
    BY <1>1, <1>2, <2>5 DEF PaceInv, Waiting, Pace!Showable
  <2>6. CASE size = "fits" /\ ~Pace!Showable(change, queue)
    <3>1. waited = 0 /\ waited' = 0
      BY <1>1, <2>6 DEF PaceInv, Waiting
    <3>2. wake \in Int /\ Bonus \in Int
      BY <1>1, <2>1, <2>2 DEF PaceInv, PaceTyped, Bonus
    <3>3. QED
      BY <1>1, <1>2, <2>1, <2>3, <3>1, <3>2 DEF Waiting
  <2>7. QED
    BY <2>4, <2>5, <2>6
<1>8. QED
  BY <1>1, <1>4, <1>5, <1>6, <1>7 DEF PaceInv

\* The pool fills, or has a buffer again: what waited for it was held up.
LEMMA TurnKeeps ==
    ASSUME PaceInv, Pace!Turn
    PROVE  PaceInv'
<1>1. /\ UNCHANGED <<loop, streaming, target, period, pace, wake, change, queue, note, lateness,
                     level, debt, lapsed, spun>>
      /\ loop \notin Pace!X11Loops /\ busy' = ~busy
      /\ waited' = IF Pace!Showable(change, queue) THEN -1 ELSE 0
  BY DEF Pace!Turn, Pace!HeldUp
<1>2. /\ Long' = Long /\ Short' = Short /\ Bonus' = Bonus
      /\ (Pace!KeepsRate)' = Pace!KeepsRate
  BY <1>1, LoopStays
<1>4. PaceTyped'
  BY <1>1, <1>2 DEF PaceInv, PaceTyped
<1>5. Paced(pace)' /\ Worth(pace, period, level, debt)'
  BY <1>1, <1>2 DEF PaceInv, Paced, Owes, Worth
<1>6. Sleeping'
  BY <1>1, <1>2 DEF PaceInv, Sleeping
<1>7. Waiting'
  <2>1. loop \notin {"shm", "dri3", "undamaged"}
    BY <1>1 DEF Pace!X11Loops
  <2>2. QED
    BY <1>1, <2>1 DEF Waiting, Pace!Showable
<1>8. QED
  BY <1>1, <1>4, <1>5, <1>6, <1>7 DEF PaceInv

\* What a window passed whole leaves of what is owed.
LEMMA LapsesIs ==
    ASSUME loop \in Loops, loop' = loop, period' \in Periods[loop], lapsed \in BOOLEAN,
           Paced(pace'), Pace!Lapses, Owes(pace', level', debt')
    PROVE  Worth(pace, period, level, debt)' /\ lapsed' \in BOOLEAN
<1>1. /\ Long' = Long /\ (Pace!KeepsRate)' = Pace!KeepsRate
  BY LoopStays
<1>2. lapsed' = (lapsed \/ (Pace!KeepsRate /\ Pace!NextDue(pace', period') <= -period'))
  BY DEF Pace!Lapses
<1>3. period' \in Nat \ {0} /\ Long \in Nat \ {0} /\ period' <= Long
  BY PeriodsAre
<1>4. /\ pace'.held \in Int /\ pace'.end \in Int /\ pace'.started \in BOOLEAN
      /\ -3 * Long <= pace'.end
  BY <1>3 DEF Paced
<1>5. Pace!KeepsRate => pace'.held = -4 * Long
  BY DEF Paced, Pace!KeepsRate
<1>6. Pace!KeepsRate /\ pace'.started => Pace!NextDue(pace', period') = pace'.end + period'
  BY <1>3, <1>4, <1>5, NextDueIs
<1>7. Pace!KeepsRate /\ ~lapsed' /\ pace'.started => pace'.end + 2 * period' > 0
  <2>1. SUFFICES ASSUME Pace!KeepsRate, ~lapsed', pace'.started
                 PROVE  pace'.end + 2 * period' > 0
    OBVIOUS
  <2>2. ~(Pace!NextDue(pace', period') <= -period')
    BY <1>2, <2>1
  <2>3. ~(pace'.end + period' <= -period')
    BY <1>6, <2>1, <2>2
  <2>4. QED
    BY <1>3, <1>4, <2>3
<1>8. Pace!KeepsRate /\ ~lapsed' => ~lapsed
  BY <1>2
<1>9. QED
  BY <1>1, <1>2, <1>7, <1>8 DEF Owes, Worth

\* A rate is set: the loop of the compositor has it at once.
LEMMA SetRateKeeps ==
    ASSUME PaceInv, NEW p \in Periods[loop], Pace!SetRate(p)
    PROVE  PaceInv'
<1>1. /\ UNCHANGED <<loop, streaming, pace, wake, change, busy, queue, note, lateness,
                     level, debt, waited, spun>>
      /\ target' = p /\ period' = IF loop \in Pace!X11Loops THEN period ELSE p
      /\ Pace!Lapses
  BY DEF Pace!SetRate
<1>2. /\ Long' = Long /\ Short' = Short /\ Bonus' = Bonus
      /\ (Pace!KeepsRate)' = Pace!KeepsRate
  BY <1>1, LoopStays
<1>3. /\ loop \in Loops /\ period' \in Periods[loop] /\ lapsed \in BOOLEAN
  BY <1>1 DEF PaceInv, PaceTyped
<1>4. Paced(pace') /\ Owes(pace', level', debt')
  BY <1>1 DEF PaceInv, Worth
<1>5. Worth(pace, period, level, debt)' /\ lapsed' \in BOOLEAN
  BY <1>1, <1>3, <1>4, LapsesIs
<1>6. Paced(pace)'
  BY <1>1, <1>2, <1>4 DEF Paced
<1>7. PaceTyped'
  BY <1>1, <1>2, <1>3, <1>5 DEF PaceInv, PaceTyped
<1>8. loop \notin {"shm", "undamaged", "dri3"} => loop \notin Pace!X11Loops
  BY DEF Pace!X11Loops
<1>9. loop = "undamaged" => period' = period
  BY <1>1 DEF Pace!X11Loops
<1>10. Sleeping'
  BY <1>1, <1>2, <1>9 DEF PaceInv, Sleeping
<1>11. Waiting'
  BY <1>1, <1>2, <1>9 DEF PaceInv, Waiting, Pace!Showable
<1>12. QED
  BY <1>1, <1>5, <1>6, <1>7, <1>10, <1>11 DEF PaceInv

\* Without a frame only a DRI3 loop ticks, and it keeps no count of what is owed.
LEMMA BareTickIs ==
    ASSUME loop \in Loops, loop = "dri3", NEW w, Paced(w), NEW p \in Periods[loop],
           NEW trigger \in {"Timer", "Damage"},
           trigger = "Timer" => Pace!NextDue(w, p) <= 0,
           NEW credit, NEW owing, Worth(w, p, credit, owing)
    PROVE  LET t == Pace!Ticked(w, trigger, p, FALSE)
           IN  Paced(t) /\ Worth(t, p, credit, owing)
<1> DEFINE t == Pace!Ticked(w, trigger, p, FALSE)
           s == Pace!NextDue(w, p)
           e == IF trigger = "Timer" THEN (IF s >= 0 THEN s ELSE Pace!LastPast(s, p)) ELSE w.end
<1>1. /\ p \in Nat \ {0} /\ Long \in Nat \ {0} /\ p <= Long
      /\ w.held = -4 * Long /\ w.end \in Int /\ w.started \in BOOLEAN
      /\ -3 * Long <= w.end /\ w.end <= Long /\ (~w.started => w.end = 0)
  BY PeriodsAre DEF Paced
<1>2. s = IF w.started THEN w.end + p ELSE 0
  BY <1>1, NextDueIs
<1>10. trigger = "Timer" => s <= 0
  OBVIOUS
<1>3. t = [started |-> w.started \/ trigger = "Timer", end |-> e, held |-> w.held,
           since |-> w.since]
  BY DEF Pace!Ticked, Pace!LateClose
<1>4. e \in Int /\ w.end <= e /\ (trigger = "Timer" => e <= 0) /\ (trigger # "Timer" => e = w.end)
  <2>1. CASE trigger = "Timer" /\ s >= 0
    <3> HIDE DEF s
    <3> QED
      BY <1>1, <1>2, <1>10, <2>1
  <2>2. CASE trigger = "Timer" /\ s < 0
    <3>1. s \in Int /\ s <= 0
      BY <1>1, <1>2, <2>2
    <3> HIDE DEF s
    <3>2. Pace!LastPast(s, p) \in Int /\ s <= Pace!LastPast(s, p) /\ Pace!LastPast(s, p) <= 0
      BY <1>1, <3>1, LastPastIs
    <3>3. QED
      BY <1>1, <1>2, <2>2, <3>2
  <2>3. CASE trigger # "Timer"
    BY <1>1, <2>3
  <2>4. QED
    BY <1>1, <1>2, <2>1, <2>2, <2>3
<1> HIDE DEF e, s, t
<1>5. Paced(t)
  <2>1. (trigger = "Timer" \/ w.started) \in BOOLEAN /\ t.started \in BOOLEAN
    BY <1>1, <1>3
  <2>2. t.end \in -3 * Long .. Long /\ (~t.started => t.end = 0)
    BY <1>1, <1>3, <1>4
  <2>3. QED
    BY <1>3, <2>1, <2>2 DEF Paced
<1>6. /\ t.started => credit <= 2 * Long - 1 + (IF e > 1 - 2 * Long THEN e ELSE 1 - 2 * Long)
      /\ ~t.started => w.started = FALSE /\ e = w.end
  BY <1>1, <1>3, <1>4 DEF Owes, Worth
<1>7. ~Pace!KeepsRate
  BY DEF Pace!KeepsRate
<1>8. Worth(t, p, credit, owing)
  <2>1. t.end = e /\ credit \in Int /\ owing \in Int /\ owing <= 0
    BY <1>3, <1>7 DEF Owes, Worth
  <2>2. CASE t.started
    BY <1>6, <1>7, <2>1, <2>2 DEF Owes, Worth
  <2>3. CASE ~t.started
    <3>1. w.started = FALSE /\ e = w.end
      BY <1>6, <2>3
    <3>2. credit <= 2 * Long - 1 + (IF e > 1 - 2 * Long THEN e ELSE 1 - 2 * Long)
      BY <3>1 DEF Owes, Worth
    <3>3. credit = 0 /\ owing <= 0
      BY <3>1 DEF Owes, Worth
    <3>4. QED
      BY <1>7, <2>1, <2>3, <3>2, <3>3 DEF Owes, Worth
  <2>4. QED
    BY <2>2, <2>3
<1>9. QED
  BY <1>5, <1>8 DEF t

\* The grab of an X11 loop.
LEMMA GrabKeeps ==
    ASSUME PaceInv, NEW trigger \in {"Damage", "Timer"}, NEW sent \in BOOLEAN,
           Pace!Grab(trigger, sent)
    PROVE  PaceInv'
<1> DEFINE n == IF sent THEN 1 ELSE 0
<1>1. /\ UNCHANGED <<loop, streaming, target, busy, note, spun>>
      /\ loop \in Pace!X11Loops /\ Pace!MayWatch(trigger)
      /\ ~sent => loop = "dri3"
      /\ pace' = Pace!Ticked(pace, trigger, period, sent)
      /\ change' = FALSE /\ queue' = queue /\ period' = target
      /\ wake' = Pace!Max({0, Pace!SleepsUntil(pace', period')})
      /\ Pace!Counted(n) /\ Pace!Lapses
  BY DEF Pace!Grab
<1>2. /\ Long' = Long /\ Short' = Short /\ Bonus' = Bonus
      /\ (Pace!KeepsRate)' = Pace!KeepsRate
  BY <1>1, LoopStays
<1>3. /\ PaceTyped /\ Paced(pace) /\ Worth(pace, period, level, debt) /\ Sleeping /\ Waiting
      /\ spun \subseteq {"misfit"}
      /\ loop \in Loops /\ period \in Periods[loop] /\ target \in Periods[loop]
  BY DEF PaceInv, PaceTyped
<1>4. /\ period \in Nat \ {0} /\ Long \in Nat \ {0} /\ period <= Long /\ Slack \in Nat
      /\ target \in Nat \ {0} /\ target <= Long
      /\ pace.held \in Int /\ pace.end \in Int /\ pace.started \in BOOLEAN
      /\ -3 * Long <= pace.end
  BY <1>3, PeriodsAre DEF Paced
<1>5. loop \in {"shm", "undamaged", "dri3"}
  BY <1>1 DEF Pace!X11Loops
<1>6. /\ wake = 0
      /\ trigger = "Damage" => loop # "undamaged"
      /\ trigger = "Timer" => Pace!NextDue(pace, period) <= 0
  BY <1>1 DEF Pace!MayWatch
<1>7. trigger = "Damage" => pace.end <= 0
  BY <1>3, <1>4, <1>5, <1>6 DEF Sleeping
<1>8. Paced(pace') /\ Worth(pace', period, level + n * period, debt - n * period)
  <2>1. level \in Int /\ debt \in Int
    BY <1>3 DEF PaceTyped
  <2>2. CASE sent
    <3>1. PICK e \in Int :
              /\ Closes(pace, trigger, period, e)
              /\ Pace!Ticked(pace, trigger, period, TRUE)
                     = [started |-> TRUE, end |-> e, held |-> -4 * Long, since |-> 0]
      <4>1. trigger \in {"Timer", "Damage", "HostFrame"}
        OBVIOUS
      <4>2. QED
        BY <1>3, <4>1, TickIs
    <3>2. IF trigger = "Timer" THEN Pace!NextDue(pace, period) <= Slack ELSE pace.end <= 0
      <4>1. Pace!NextDue(pace, period) \in Int
        BY <1>4, NextDueIs
      <4>2. QED
        BY <1>4, <1>6, <1>7, <4>1
    <3>3. pace' = [started |-> TRUE, end |-> e, held |-> -4 * Long, since |-> 0]
      BY <1>1, <2>2, <3>1
    <3>4. Paced(pace') /\ Worth(pace', period, level + period, debt - period)
      BY <1>3, <3>1, <3>2, <3>3, TickWorth
    <3>5. n * period = period
      BY <1>4, <2>2
    <3>6. QED
      BY <3>4, <3>5
  <2>3. CASE ~sent
    <3>1. /\ pace' = Pace!Ticked(pace, trigger, period, FALSE) /\ loop = "dri3"
      BY <1>1, <2>3
    <3>2. Paced(pace') /\ Worth(pace', period, level, debt)
      BY <1>3, <1>6, <3>1, BareTickIs
    <3>3. level + n * period = level /\ debt - n * period = debt
      BY <1>4, <2>1, <2>3
    <3>4. QED
      BY <3>2, <3>3
  <2>4. QED
    BY <2>2, <2>3
<1>9. /\ Worth(pace', period, level', debt') /\ level' \in Nat /\ debt' \in 0 .. 3 * Long
      /\ lateness' = 0
      /\ waited' = IF Pace!Showable(change', queue') THEN waited ELSE 0
  <2>1. n \in 0 .. 2
    OBVIOUS
  <2> HIDE DEF n
  <2>2. QED
    BY <1>1, <1>3, <1>8, <2>1, CountedIs
<1>10. Worth(pace, period, level, debt)' /\ lapsed' \in BOOLEAN
  <2>1. period' \in Periods[loop] /\ lapsed \in BOOLEAN
    BY <1>1, <1>3 DEF PaceTyped
  <2>2. QED
    BY <1>1, <1>3, <1>8, <1>9, <2>1, LapsesIs DEF Worth
<1>11. Paced(pace)'
  BY <1>1, <1>2, <1>8 DEF Paced
<1>12. /\ pace'.started \in BOOLEAN /\ pace'.end \in Int /\ pace'.held = -4 * Long
       /\ -3 * Long <= pace'.end /\ pace'.end <= Long /\ (~pace'.started => pace'.end = 0)
  BY <1>4, <1>5, <1>8 DEF Paced
<1>13. Pace!NextDue(pace', period') = IF pace'.started THEN pace'.end + period' ELSE 0
  BY <1>1, <1>4, <1>12, NextDueIs
<1>14. /\ Pace!SleepsUntil(pace', period')
              = IF loop = "undamaged" THEN (IF pace'.started THEN pace'.end + period' ELSE 0)
                ELSE pace'.end
       /\ Pace!SleepsUntil(pace', period') \in Int
  <2>1. loop = "undamaged" => Pace!SleepsUntil(pace', period') = Pace!NextDue(pace', period')
    BY DEF Pace!SleepsUntil
  <2>2. loop # "undamaged" =>
            Pace!SleepsUntil(pace', period') = Pace!Min({Pace!NextDue(pace', period'), pace'.end})
    BY DEF Pace!SleepsUntil, Pace!PullAt
  <2>3. Pace!NextDue(pace', period') \in Int
    BY <1>1, <1>4, <1>12, <1>13
  <2>4. Pace!Min({Pace!NextDue(pace', period'), pace'.end})
          = IF Pace!NextDue(pace', period') <= pace'.end THEN Pace!NextDue(pace', period')
            ELSE pace'.end
    BY <1>12, <2>3, OfTwo
  <2>5. QED
    BY <1>1, <1>4, <1>12, <1>13, <2>1, <2>2, <2>3, <2>4
<1>15. wake' = IF Pace!SleepsUntil(pace', period') > 0 THEN Pace!SleepsUntil(pace', period') ELSE 0
  BY <1>1, <1>14, OfTwo
<1>16. wake' \in 0 .. 2 * Long
  <2>1. period' \in Nat /\ period' <= Long
    BY <1>1, <1>4
  <2>2. Pace!SleepsUntil(pace', period') <= 2 * Long
    BY <1>4, <1>12, <1>14, <2>1
  <2>3. QED
    BY <1>4, <1>14, <1>15, <2>2
<1>17. Sleeping'
  BY <1>1, <1>5, <1>14, <1>15 DEF Sleeping
<1>18. waited' = 0 /\ ~Pace!Showable(change', queue')
  BY <1>1, <1>9 DEF Pace!Showable
<1>19. Waiting'
  BY <1>1, <1>4, <1>5, <1>9, <1>12, <1>18 DEF Waiting, Pace!Showable
<1>20. PaceTyped'
  <2>1. lateness' \in 0 .. Lateness[loop]
    BY <1>3, <1>9, PacingAssumption DEF Pace!PaceAssumption
  <2>2. waited' \in Int /\ waited' >= -1 /\ waited' >= 0
    BY <1>18
  <2>3. /\ streaming' \in BOOLEAN /\ target' \in Periods[loop'] /\ period' \in Periods[loop']
        /\ loop' \in Loops
        /\ change' \in BOOLEAN /\ busy' \in BOOLEAN /\ note' \in BOOLEAN /\ queue' \in Queues
        /\ (loop' # "host" => ~note' /\ queue' = "none") /\ ~busy'
    BY <1>1, <1>3 DEF PaceTyped
  <2>4. wake' \in 0 .. 2 * Long' /\ debt' \in 0 .. 3 * Long' /\ lateness' \in 0 .. Lateness[loop']
    BY <1>1, <1>2, <1>9, <1>16, <2>1
  <2>5. QED
    BY <1>9, <1>10, <2>2, <2>3, <2>4, Zenon DEF PaceTyped
<1>21. QED
  BY <1>1, <1>3, <1>10, <1>11, <1>17, <1>19, <1>20 DEF PaceInv

LEMMA NoMore ==
    ASSUME NEW a \in Int, NEW b \in Int, NEW c \in Nat, a <= b
    PROVE  a <= b + c
  OBVIOUS

\* A unit of time.
LEMMA PassKeeps ==
    ASSUME PaceInv, Pace!Pass
    PROVE  PaceInv'
<1>1. /\ UNCHANGED <<loop, streaming, target, period, change, busy, queue, note, spun>>
      /\ Pace!HasToAct => lateness < Lateness[loop]
      /\ lateness' = IF Pace!HasToAct THEN lateness + 1 ELSE 0
      /\ pace' = Pace!Later(pace)
      /\ wake' = Pace!Max({0, wake - 1})
      /\ level' = Pace!Max({0, level - 1})
      /\ debt' = IF pace.started /\ Pace!KeepsRate /\ ~lapsed THEN debt + 1 ELSE 0
      /\ waited' = IF ~Pace!Showable(change, queue) THEN 0
                   ELSE IF waited = -1 \/ busy \/ pace.end > 0 THEN waited
                   ELSE waited + 1
      /\ Pace!Lapses
  BY DEF Pace!Pass, Pace!HeldUp, Pace!PullAt
<1>2. /\ Long' = Long /\ Short' = Short /\ Bonus' = Bonus
      /\ (Pace!KeepsRate)' = Pace!KeepsRate
  BY <1>1, LoopStays
<1>3. /\ PaceTyped /\ Paced(pace) /\ Worth(pace, period, level, debt) /\ Sleeping /\ Waiting
      /\ spun \subseteq {"misfit"}
      /\ loop \in Loops /\ period \in Periods[loop]
  BY DEF PaceInv, PaceTyped
<1>4. /\ period \in Nat \ {0} /\ Long \in Nat \ {0} /\ period <= Long
      /\ Short \in Nat \ {0} /\ Short <= period
      /\ pace.held \in Int /\ pace.end \in Int /\ pace.started \in BOOLEAN
      /\ -3 * Long <= pace.end /\ pace.end <= Long /\ (~pace.started => pace.end = 0)
  BY <1>3, PeriodsAre DEF Paced
<1>5. /\ Paced(pace') /\ pace'.started = pace.started
      /\ ~pace.started => pace'.end = 0
      /\ pace.started =>
             pace'.end = IF pace.end - 1 < -3 * period THEN pace.end - 1 + period
                         ELSE pace.end - 1
  BY <1>1, <1>3, LaterIs
<1>6. /\ wake \in Nat /\ wake <= 2 * Long /\ level \in Nat /\ debt \in Nat /\ debt <= 3 * Long
      /\ lateness \in Nat /\ lateness <= Lateness[loop] /\ Lateness[loop] \in Nat
      /\ waited \in Int /\ waited >= -1
      /\ busy \in BOOLEAN /\ change \in BOOLEAN /\ note \in BOOLEAN
  BY <1>3, <1>4, PacingAssumption DEF PaceTyped, Pace!PaceAssumption
<1>7. /\ wake' = IF wake > 0 THEN wake - 1 ELSE 0
      /\ level' = IF level > 0 THEN level - 1 ELSE 0
  BY <1>1, <1>6, OfTwo
<1>8. lateness' \in 0 .. Lateness[loop]
  BY <1>1, <1>6
<1>9. /\ pace'.end \in Int /\ pace.end - 1 <= pace'.end
      /\ pace.end >= 1 => pace'.end = pace.end - 1
      /\ pace.end <= 0 => pace'.end <= 0
      /\ pace.started /\ pace.end + 2 * period > 0 => pace'.end = pace.end - 1
      /\ pace.started /\ pace'.end # pace.end - 1 => pace'.end + period <= 0 /\ pace.end + period <= 0
  BY <1>4, <1>5
<1>10. Owes(pace', level', debt') /\ level' \in Nat /\ debt' \in 0 .. 3 * Long
  <2>1. level' \in Nat /\ debt' \in Nat
    BY <1>1, <1>6, <1>7
  <2>2. ~pace'.started => level' = 0 /\ debt' <= 0
    BY <1>1, <1>3, <1>5, <1>6, <1>7 DEF Owes, Worth
  <2>3. level' <= 2 * Long - 1 + (IF pace'.end > 1 - 2 * Long THEN pace'.end ELSE 1 - 2 * Long)
    BY <1>3, <1>4, <1>6, <1>7, <1>9 DEF Owes, Worth
  <2>4. ~Pace!KeepsRate => debt' <= 0
    BY <1>1
  <2>5. ASSUME Pace!KeepsRate, ~lapsed, pace.started
        PROVE  debt' = debt + 1 /\ debt <= Long - pace.end /\ pace'.end = pace.end - 1
               /\ pace.end + 2 * period > 0
    BY <1>1, <1>3, <1>9, <2>5 DEF Owes, Worth
  <2>6. ~pace.started \/ ~Pace!KeepsRate \/ lapsed => debt' = 0
    BY <1>1
  <2>7. Pace!KeepsRate /\ ~lapsed => debt' <= Long - pace'.end
    BY <1>4, <1>5, <1>6, <2>5, <2>6
  <2>8. debt' <= 3 * Long
    BY <1>4, <1>6, <2>5, <2>6
  <2>9. QED
    BY <1>4, <2>1, <2>2, <2>3, <2>4, <2>7, <2>8 DEF Owes
<1>11. Worth(pace, period, level, debt)' /\ lapsed' \in BOOLEAN
  BY <1>1, <1>3, <1>5, <1>10, LapsesIs DEF PaceTyped
<1>12. Paced(pace)'
  BY <1>1, <1>2, <1>5 DEF Paced
<1>13. (3 * Long) \div 2 \in Nat
  BY <1>4, Z3
<1>14. Sleeping'
  <2>1. loop \in {"shm", "dri3"} => wake' = IF pace'.end > 0 THEN pace'.end ELSE 0
    BY <1>3, <1>4, <1>6, <1>7, <1>9 DEF Sleeping
  <2>2. ASSUME loop = "undamaged"
        PROVE  wake' = LET due == IF pace'.started THEN pace'.end + period ELSE 0
                       IN  IF due > 0 THEN due ELSE 0
    <3>1. wake = LET due == IF pace.started THEN pace.end + period ELSE 0
                 IN  IF due > 0 THEN due ELSE 0
      BY <1>3, <2>2 DEF Sleeping
    <3>2. QED
      BY <1>4, <1>5, <1>6, <1>7, <1>9, <3>1
  <2>3. loop = "compositor" =>
            /\ wake' <= 1 \/ wake' <= pace'.end + Long
            /\ pace'.end > 0 => wake' <= pace'.end + Long - Short
    <3>1. ASSUME loop = "compositor"
          PROVE  /\ wake <= 1 \/ wake <= pace.end + Long
                 /\ pace.end > 0 => wake <= pace.end + Long - Short
      BY <1>3, <3>1 DEF Sleeping
    <3>2. QED
      BY <1>4, <1>6, <1>7, <1>9, <3>1
  <2>4. loop = "host" => wake' <= (3 * Long) \div 2 + (IF pace'.end > 0 THEN pace'.end ELSE 0)
    <3>1. loop = "host" => wake <= (3 * Long) \div 2 + (IF pace.end > 0 THEN pace.end ELSE 0)
      BY <1>3 DEF Sleeping
    <3>2. QED
      BY <1>4, <1>6, <1>7, <1>9, <1>13, <3>1
  <2>5. QED
    BY <1>1, <1>2, <2>1, <2>2, <2>3, <2>4 DEF Sleeping
<1>15. Pace!Showable(change', queue') <=> Pace!Showable(change, queue)
  BY <1>1 DEF Pace!Showable
<1>16. Bonus \in Nat
  <2>1. Short <= Long
    BY <1>4
  <2>2. QED
    BY <1>4, <1>13, <2>1 DEF Bonus
<1>17. wake = 0 => Pace!HasToAct \/ (loop \in Pace!X11Loops /\ ~change /\ loop # "undamaged")
  <2>1. SUFFICES ASSUME wake = 0, loop \in Pace!X11Loops, change \/ loop = "undamaged"
                 PROVE  Pace!MayWatch("Damage") \/ Pace!MayWatch("Timer")
    BY DEF Pace!HasToAct
  <2>2. CASE loop # "undamaged"
    BY <2>1, <2>2 DEF Pace!MayWatch
  <2>3. CASE loop = "undamaged"
    <3>1. Pace!NextDue(pace, period) = IF pace.started THEN pace.end + period ELSE 0
      <4>1. pace.held = -4 * Long
        BY <1>3, <2>3 DEF Paced
      <4>2. QED
        BY <1>4, <4>1, NextDueIs
    <3>2. (IF pace.started THEN pace.end + period ELSE 0) <= 0
      BY <1>3, <1>4, <2>1, <2>3 DEF Sleeping
    <3>3. QED
      BY <2>1, <3>1, <3>2 DEF Pace!MayWatch
  <2>4. QED
    BY <2>2, <2>3
<1>18. /\ lateness' \in Nat
       /\ Pace!HasToAct => lateness' = lateness + 1
  BY <1>1, <1>6, <1>8
<1>19. waited' \in Int /\ waited' >= -1 /\ (waited >= 0 => waited' >= 0)
  BY <1>1, <1>6
<1>21. Waiting'
  <2>1. ~Pace!Showable(change', queue') => waited' = 0
    BY <1>1, <1>15
  <2>2. ASSUME loop \in {"shm", "dri3"}
        PROVE  waited' <= lateness' /\ (pace'.end > 0 => waited' = 0)
    <3>1. /\ loop \in Pace!X11Loops /\ loop # "undamaged" /\ ~busy /\ waited >= 0
          /\ waited <= lateness /\ (pace.end > 0 => waited = 0)
          /\ wake = IF pace.end > 0 THEN pace.end ELSE 0
      BY <1>3, <2>2 DEF PaceTyped, Waiting, Sleeping, Pace!X11Loops
    <3>2. CASE ~Pace!Showable(change, queue) \/ pace.end > 0
      BY <1>1, <1>4, <1>9, <1>18, <3>1, <3>2
    <3>3. CASE Pace!Showable(change, queue) /\ ~(pace.end > 0)
      <4>1. change
        BY <3>3 DEF Pace!Showable
      <4>2. lateness' = lateness + 1
        BY <1>17, <1>18, <3>1, <3>3, <4>1
      <4>3. waited' = waited + 1
        BY <1>1, <1>6, <3>1, <3>3
      <4>4. QED
        BY <1>4, <1>6, <1>9, <3>1, <3>3, <4>2, <4>3
    <3>4. QED
      BY <3>2, <3>3
  <2>3. ASSUME loop = "undamaged"
        PROVE  LET due == IF pace'.started THEN pace'.end + period ELSE 0
               IN  IF due <= 0 THEN waited' <= period + lateness'
                   ELSE waited' <= (IF pace'.end > 0 THEN 0 ELSE -pace'.end)
    <3> DEFINE due == IF pace.started THEN pace.end + period ELSE 0
               next == IF pace'.started THEN pace'.end + period ELSE 0
    <3>1. /\ ~busy /\ waited >= 0
          /\ IF due <= 0 THEN waited <= period + lateness
             ELSE waited <= (IF pace.end > 0 THEN 0 ELSE -pace.end)
          /\ wake = IF due > 0 THEN due ELSE 0
      BY <1>3, <2>3 DEF PaceTyped, Waiting, Sleeping, Pace!X11Loops
    <3>2. CASE ~Pace!Showable(change, queue)
      BY <1>1, <1>4, <1>9, <1>18, <3>2
    <3>3. CASE Pace!Showable(change, queue) /\ due <= 0
      <4>1. lateness' = lateness + 1
        BY <1>17, <1>18, <2>3, <3>1, <3>3
      <4>2. waited' <= waited + 1
        BY <1>1, <1>6
      <4>3. next <= 0
        BY <1>4, <1>5, <1>9, <3>3
      <4> HIDE DEF due
      <4>4. waited' <= period + lateness'
        BY <1>4, <1>6, <1>19, <3>1, <3>3, <4>1, <4>2
      <4>5. QED
        BY <4>3, <4>4
    <3>4. CASE Pace!Showable(change, queue) /\ due > 0
      <4>1. pace.started
        BY <3>4
      <4>2. waited <= (IF pace.end > 0 THEN 0 ELSE -pace.end)
        BY <3>1, <3>4
      <4>3. pace'.end = pace.end - 1 /\ next = pace.end - 1 + period /\ pace.end + period > 0
        BY <1>4, <1>5, <1>9, <3>4, <4>1
      <4>4. waited' = IF pace.end > 0 THEN waited ELSE waited + 1
        BY <1>1, <1>6, <3>1, <3>4
      <4>5. waited' <= (IF pace'.end > 0 THEN 0 ELSE -pace'.end)
        BY <1>4, <1>6, <4>2, <4>3, <4>4
      <4> HIDE DEF next, due
      <4>6. next <= 0 => waited' <= period + lateness'
        <5>1. SUFFICES ASSUME next <= 0 PROVE waited' <= period + lateness'
          OBVIOUS
        <5>2. -pace'.end = period
          BY <1>4, <4>3, <5>1
        <5>3. waited' <= period
          BY <1>4, <1>9, <1>19, <4>5, <5>2
        <5>4. lateness' \in Nat /\ period \in Int /\ waited' \in Int
          BY <1>4, <1>18, <1>19
        <5>5. QED
          BY <5>3, <5>4, NoMore, Zenon
      <4>7. QED
        BY <4>5, <4>6 DEF next
    <3>5. QED
      BY <1>4, <3>2, <3>3, <3>4
  <2>4. ASSUME loop \in {"compositor", "host"}
        PROVE  /\ waited' > 0 => ~busy /\ pace'.end <= 0
               /\ \/ ~Pace!Showable(change', queue') \/ waited' = -1
                  \/ waited' = 0 /\ (busy \/ pace'.end > 0)
                  \/ waited' + wake' <= Bonus
                  \/ wake' = 0 /\ waited' <= Bonus + lateness'
    <3>1. /\ loop \notin Pace!X11Loops
          /\ waited > 0 => ~busy /\ pace.end <= 0
          /\ \/ ~Pace!Showable(change, queue) \/ waited = -1
             \/ waited = 0 /\ (busy \/ pace.end > 0)
             \/ waited + wake <= Bonus
             \/ wake = 0 /\ waited <= Bonus + lateness
      BY <1>3, <2>4 DEF Waiting, Pace!X11Loops
    <3>2. CASE ~Pace!Showable(change, queue)
      BY <1>1, <1>15, <3>2
    <3>3. CASE Pace!Showable(change, queue) /\ waited = -1
      BY <1>1, <3>3
    <3>4. CASE Pace!Showable(change, queue) /\ waited # -1 /\ (busy \/ pace.end > 0)
      <4>1. waited = 0 /\ waited' = 0
        <5>1. ~(waited > 0)
          BY <1>4, <3>1, <3>4
        <5>2. waited' = waited
          BY <1>1, <3>4
        <5>3. QED
          BY <1>6, <3>4, <5>1, <5>2
      <4>2. CASE busy
        BY <4>1, <4>2
      <4>3. CASE ~busy
        <5>1. pace.end > 0
          BY <3>4, <4>3
        <5>2. pace.end = 1 => wake <= Bonus + 1
          BY <1>3, <1>4, <1>6, <1>13, <2>4, <5>1 DEF Sleeping, Bonus
        <5>3. QED
          BY <1>4, <1>6, <1>7, <1>9, <1>16, <4>1, <5>1, <5>2
      <4>4. QED
        BY <4>2, <4>3
    <3>5. CASE Pace!Showable(change, queue) /\ waited # -1 /\ ~busy /\ ~(pace.end > 0)
      <4>1. waited' = waited + 1 /\ waited >= 0
        BY <1>1, <1>6, <3>5
      <4>2. waited' > 0 => ~busy /\ pace'.end <= 0
        BY <1>4, <1>9, <3>5
      <4>3. wake = 0 => lateness' = lateness + 1
        BY <1>17, <1>18, <3>1
      <4>4. waited + wake <= Bonus \/ (wake = 0 /\ waited <= Bonus + lateness)
        BY <3>1, <3>5
      <4>5. waited' + wake' <= Bonus \/ (wake' = 0 /\ waited' <= Bonus + lateness')
        <5>1. CASE wake > 0
          BY <1>6, <1>7, <1>16, <4>1, <4>4, <5>1
        <5>2. CASE wake = 0
          BY <1>6, <1>7, <1>16, <4>1, <4>3, <4>4, <5>2
        <5>3. QED
          BY <1>6, <5>1, <5>2
      <4>6. QED
        BY <4>2, <4>5
    <3>6. QED
      BY <3>2, <3>3, <3>4, <3>5
  <2>5. QED
    <3>1. loop' = loop /\ period' = period /\ busy' = busy
      BY <1>1
    <3>2. loop' = "undamaged" =>
              LET due == IF pace'.started THEN pace'.end + period' ELSE 0
              IN  IF due <= 0 THEN waited' <= period' + lateness'
                  ELSE waited' <= (IF pace'.end > 0 THEN 0 ELSE -pace'.end)
      BY <2>3, <3>1
    <3>3. loop' \in {"shm", "dri3"} => waited' <= lateness' /\ (pace'.end > 0 => waited' = 0)
      BY <2>2, <3>1
    <3>4. loop' \in {"compositor", "host"} =>
              /\ waited' > 0 => ~busy' /\ pace'.end <= 0
              /\ \/ ~Pace!Showable(change', queue') \/ waited' = -1
                 \/ waited' = 0 /\ (busy' \/ pace'.end > 0)
                 \/ waited' + wake' <= Bonus'
                 \/ wake' = 0 /\ waited' <= Bonus' + lateness'
      BY <1>2, <2>4, <3>1
    <3>5. (Pace!Showable(change, queue))' <=> Pace!Showable(change', queue')
      BY <3>1 DEF Pace!Showable
    <3>6. QED
      BY <2>1, <3>2, <3>3, <3>4, <3>5 DEF Waiting
<1>22. PaceTyped'
  <2>1. wake' \in 0 .. 2 * Long'
    BY <1>2, <1>4, <1>6, <1>7
  <2>2. lateness' \in 0 .. Lateness[loop'] /\ debt' \in 0 .. 3 * Long'
    BY <1>1, <1>2, <1>8, <1>10
  <2>3. /\ loop' \in Loops /\ streaming' \in BOOLEAN
        /\ target' \in Periods[loop'] /\ period' \in Periods[loop']
        /\ change' \in BOOLEAN /\ busy' \in BOOLEAN /\ note' \in BOOLEAN
        /\ queue' \in Queues /\ (loop' # "host" => ~note' /\ queue' = "none")
        /\ (loop' \in Pace!X11Loops => ~busy' /\ waited' >= 0)
    BY <1>1, <1>3, <1>19 DEF PaceTyped
  <2>4. QED
    BY <1>10, <1>11, <1>19, <2>1, <2>2, <2>3, Zenon DEF PaceTyped
<1>20. QED
  BY <1>1, <1>3, <1>11, <1>12, <1>14, <1>21, <1>22 DEF PaceInv

LEMMA Marked ==
    ASSUME NEW marked
    PROVE  [Pace!Held EXCEPT !.pending = marked]
               = [w |-> pace, pending |-> marked, queue |-> queue, frames |-> 0]
  BY DEF Pace!Held

-----------------------------------------------------------------------------
(* FramePace: the turns of the compositor's loop.                          *)

\* What the loop holds between its turns, a change marked or not.
LEMMA HeldIs ==
    ASSUME PaceInv, NEW marked \in BOOLEAN
    PROVE  LET x == [w |-> pace, pending |-> marked, queue |-> queue, frames |-> 0]
           IN  /\ Holds(x)
               /\ marked = change => Pace!Held = x
               /\ marked => [Pace!Held EXCEPT !.pending = TRUE] = x
<1> DEFINE x == [w |-> pace, pending |-> marked, queue |-> queue, frames |-> 0]
<1>1. Pace!Held = [w |-> pace, pending |-> change, queue |-> queue, frames |-> 0]
  BY DEF Pace!Held
<1>2. /\ Paced(pace) /\ Worth(pace, period, level, debt) /\ level \in Int /\ debt \in Int
      /\ queue \in Queues /\ (loop # "host" => queue = "none") /\ period \in Int
  BY PeriodsAre DEF PaceInv, PaceTyped
<1>3. level + x.frames * period = level /\ debt - x.frames * period = debt
  BY <1>2
<1>4. Holds(x)
  BY <1>2, <1>3 DEF Holds
<1>5. marked => [Pace!Held EXCEPT !.pending = TRUE] = x
  <2>1. SUFFICES ASSUME marked = TRUE PROVE [Pace!Held EXCEPT !.pending = TRUE] = x
    OBVIOUS
  <2>2. x = [w |-> pace, pending |-> TRUE, queue |-> queue, frames |-> 0]
    BY <2>1
  <2>3. [Pace!Held EXCEPT !.pending = TRUE]
            = [w |-> pace, pending |-> TRUE, queue |-> queue, frames |-> 0]
    BY <1>1, Marked, Zenon
  <2>4. QED
    BY <2>2, <2>3
<1>6. QED
  BY <1>1, <1>4, <1>5

\* What a turn that counts its frames leaves.
LEMMA BecomesIs ==
    ASSUME PaceTyped, loop' = loop, period' = period, NEW x, Holds(x), Pace!Becomes(x)
    PROVE  /\ pace' = x.w /\ change' = x.pending /\ queue' = x.queue /\ lapsed' = lapsed
           /\ Paced(pace)' /\ Worth(pace, period, level, debt)'
           /\ level' \in Nat /\ debt' \in 0 .. 3 * Long /\ lateness' = 0
           /\ change' \in BOOLEAN /\ queue' \in Queues /\ (loop # "host" => queue' = "none")
           /\ waited' = IF Pace!Showable(change', queue') THEN waited ELSE 0
<1>1. /\ pace' = x.w /\ change' = x.pending /\ queue' = x.queue /\ lapsed' = lapsed
      /\ Pace!Counted(x.frames)
  BY DEF Pace!Becomes
<1>2. /\ Paced(x.w) /\ x.frames \in 0 .. 2
      /\ Worth(x.w, period, level + x.frames * period, debt - x.frames * period)
      /\ x.pending \in BOOLEAN /\ x.queue \in Queues /\ (loop # "host" => x.queue = "none")
  BY DEF Holds
<1>3. /\ Worth(x.w, period, level', debt') /\ level' \in Nat /\ debt' \in 0 .. 3 * Long
      /\ lateness' = 0
      /\ waited' = IF Pace!Showable(change', queue') THEN waited ELSE 0
  BY <1>1, <1>2, CountedIs
<1>4. /\ Long' = Long /\ (Pace!KeepsRate)' = Pace!KeepsRate
  BY LoopStays
<1>5. Paced(pace)' /\ Worth(pace, period, level, debt)'
  BY <1>1, <1>2, <1>3, <1>4 DEF Paced, Worth, Owes
<1>6. QED
  BY <1>1, <1>2, <1>3, <1>5

\* A change that is served, or is not for a full pool or a window still closed.
LEMMA ServedIs ==
    ASSUME loop \in Loops \ Pace!X11Loops, period \in Periods[loop], streaming \in BOOLEAN,
           NEW x, Holds(x), x.frames = 0, NEW full \in BOOLEAN, NEW wanted \in BOOLEAN
    PROVE  LET y == Pace!Served(x, full, wanted)
           IN  /\ Holds(y)
               /\ \/ ~x.pending /\ y = x
                  \/ x.pending /\ Untouched(x, y, "Damage", full)
                  \/ x.pending /\ Sends(x, y, "Damage", full)
                  \/ x.pending /\ HoldsOff(x, y, "Damage", full)
<1>1. CASE ~x.pending
  BY <1>1 DEF Pace!Served
<1>2. CASE x.pending
  <2>1. Pace!Served(x, full, wanted) = Pace!Rendered(x, "Damage", full, wanted)
    BY <1>2 DEF Pace!Served
  <2>2. x.frames \in 0 .. 1 /\ "Damage" \in {"Timer", "Damage", "HostFrame"}
    OBVIOUS
  <2>3. QED
    BY <1>2, <2>1, <2>2, RenderedIs
<1>3. QED
  BY <1>1, <1>2

\* A turn of the compositor's loop other than its timer's.
LEMMA OtherTurnKeeps ==
    ASSUME PaceInv, loop \notin Pace!X11Loops,
           UNCHANGED <<loop, streaming, target, period, wake, busy, spun>>,
           note' \in BOOLEAN, loop # "host" => ~note',
           NEW x, x = [w |-> pace, pending |-> TRUE, queue |-> queue, frames |-> 0],
           ~change => waited = 0 \/ busy \/ pace.end > 0,
           NEW y, Holds(y), Pace!Becomes(y),
           NEW trigger \in {"Damage", "HostFrame"},
           \/ Untouched(x, y, trigger, busy)
           \/ Sends(x, y, trigger, busy)
           \/ HoldsOff(x, y, trigger, busy)
    PROVE  PaceInv'
<1>1. /\ pace' = y.w /\ change' = y.pending /\ queue' = y.queue /\ lapsed' = lapsed
      /\ Paced(pace)' /\ Worth(pace, period, level, debt)'
      /\ level' \in Nat /\ debt' \in 0 .. 3 * Long /\ lateness' = 0
      /\ change' \in BOOLEAN /\ queue' \in Queues /\ (loop # "host" => queue' = "none")
      /\ waited' = IF Pace!Showable(change', queue') THEN waited ELSE 0
  BY BecomesIs DEF PaceInv
<1>2. /\ Long' = Long /\ Short' = Short /\ Bonus' = Bonus
      /\ (Pace!KeepsRate)' = Pace!KeepsRate
  BY LoopStays
<1>3. /\ PaceTyped /\ Paced(pace) /\ Sleeping /\ Waiting /\ spun \subseteq {"misfit"}
      /\ loop \in Loops /\ period \in Periods[loop]
  BY DEF PaceInv, PaceTyped
<1>4. loop \in {"compositor", "host"} /\ loop \notin {"shm", "undamaged", "dri3"}
  BY <1>3, LoopKinds
<1>5. /\ period \in Nat \ {0} /\ Long \in Nat \ {0} /\ Short \in Nat \ {0} /\ Short <= period
      /\ pace.end \in Int /\ pace.started \in BOOLEAN /\ (~pace.started => pace.end = 0)
      /\ y.w.end \in Int /\ wake \in Nat /\ busy \in BOOLEAN
      /\ waited \in Int /\ waited >= -1 /\ Lateness[loop] \in Nat
  <2>1. Paced(y.w)
    BY DEF Holds
  <2>2. QED
    BY <1>3, <2>1, PeriodsAre, PacingAssumption DEF Paced, PaceTyped, Pace!PaceAssumption
<1>6. x.w = pace /\ x.pending = TRUE /\ x.queue = queue
  OBVIOUS
<1>7. \/ Untouched(x, y, trigger, busy) /\ pace' = pace /\ (busy \/ pace.end > 0)
      \/ /\ Sends(x, y, trigger, busy) \/ HoldsOff(x, y, trigger, busy)
         /\ ~Pace!Showable(change', queue')
  <2>1. CASE Untouched(x, y, trigger, busy)
    <3>1. pace' = pace /\ (~Pace!Due(pace, trigger, period) \/ busy)
      BY <1>1, <1>6, <2>1 DEF Untouched
    <3>2. trigger # "Timer"
      OBVIOUS
    <3>3. ~Pace!Due(pace, trigger, period) => pace.end > 0
      BY <1>5, <3>2 DEF Pace!Due, Pace!PullAt
    <3>4. QED
      BY <2>1, <3>1, <3>3
  <2>2. CASE Sends(x, y, trigger, busy)
    BY <1>1, <2>2 DEF Sends, Pace!Showable
  <2>3. CASE HoldsOff(x, y, trigger, busy)
    BY <1>1, <2>3 DEF HoldsOff, Pace!Showable
  <2>4. QED
    BY <2>1, <2>2, <2>3
<1>8. (3 * Long) \div 2 \in Nat
  BY <1>5, Z3
<1>9. Sleeping'
  <2>1. \/ pace'.end = pace.end
        \/ /\ pace.started => pace.end + period <= pace'.end
           /\ ~pace.started /\ loop = "compositor" => pace'.end = 0
           /\ ~pace.started => pace.end = 0
    BY <1>1, <1>4, <1>5, <1>6, <1>7 DEF Untouched, Sends, HoldsOff
  <2>2. pace'.end \in Int
    BY <1>1, <1>5
  <2>3. CASE loop = "compositor"
    <3>1. /\ wake <= 1 \/ wake <= pace.end + Long
          /\ pace.end > 0 => wake <= pace.end + Long - Short
      BY <1>3, <2>3 DEF Sleeping
    <3>2. /\ wake <= 1 \/ wake <= pace'.end + Long
          /\ pace'.end > 0 => wake <= pace'.end + Long - Short
      BY <1>5, <2>1, <2>2, <2>3, <3>1, PeriodsAre, <1>3
    <3>3. QED
      BY <1>2, <2>3, <3>2 DEF Sleeping
  <2>4. CASE loop = "host"
    <3>1. wake <= (3 * Long) \div 2 + (IF pace.end > 0 THEN pace.end ELSE 0)
      BY <1>3, <2>4 DEF Sleeping
    <3>2. wake <= (3 * Long) \div 2 + (IF pace'.end > 0 THEN pace'.end ELSE 0)
      BY <1>5, <1>8, <2>1, <2>2, <3>1
    <3>3. QED
      BY <1>2, <2>4, <3>2 DEF Sleeping
  <2>5. QED
    BY <1>4, <2>3, <2>4
<1>10. waited' \in Int /\ waited' >= -1
  BY <1>1, <1>5
<1>11. Waiting'
  <2>1. CASE ~Pace!Showable(change', queue')
    <3>1. waited' = 0 /\ ~(waited' > 0) /\ ~(Pace!Showable(change, queue))'
      BY <1>1, <2>1 DEF Pace!Showable
    <3>2. QED
      BY <1>4, <3>1 DEF Waiting
  <2>2. CASE Pace!Showable(change', queue')
    <3>1. pace' = pace /\ (busy \/ pace.end > 0)
      BY <1>7, <2>2
    <3>2. waited' = waited /\ ~(waited > 0)
      BY <1>1, <1>3, <1>4, <1>5, <2>2, <3>1 DEF Waiting
    <3>3. waited' = 0 \/ waited' = -1
      BY <1>5, <3>2
    <3>4. /\ waited' = -1 \/ (waited' = 0 /\ (busy \/ pace'.end > 0))
          /\ ~(waited' > 0)
      BY <3>1, <3>2, <3>3
    <3>5. QED
      BY <1>4, <2>2, <3>4 DEF Waiting, Pace!Showable
  <2>3. QED
    BY <2>1, <2>2
<1>12. PaceTyped'
  <2>1. wake' \in 0 .. 2 * Long' /\ debt' \in 0 .. 3 * Long' /\ lateness' \in 0 .. Lateness[loop']
    BY <1>1, <1>2, <1>3, <1>5 DEF PaceTyped
  <2>2. /\ loop' \in Loops /\ streaming' \in BOOLEAN /\ target' \in Periods[loop']
        /\ period' \in Periods[loop'] /\ busy' \in BOOLEAN /\ lapsed' \in BOOLEAN
        /\ (loop' # "host" => ~note' /\ queue' = "none") /\ loop' \notin Pace!X11Loops
    BY <1>1, <1>3 DEF PaceTyped
  <2>3. QED
    BY <1>1, <1>10, <2>1, <2>2, Zenon DEF PaceTyped
<1>13. QED
  BY <1>1, <1>3, <1>9, <1>11, <1>12 DEF PaceInv

LEMMA CommitKeeps ==
    ASSUME PaceInv, Pace!Commit
    PROVE  PaceInv'
<1> DEFINE x == [w |-> pace, pending |-> TRUE, queue |-> queue, frames |-> 0]
           y == Pace!Served(x, busy, FALSE)
<1>1. /\ loop = "compositor" /\ loop \in Loops \ Pace!X11Loops /\ period \in Periods[loop]
      /\ streaming \in BOOLEAN /\ busy \in BOOLEAN /\ note \in BOOLEAN /\ ~note
  BY DEF Pace!Commit, PaceInv, PaceTyped, Pace!X11Loops
<1>2. Holds(x) /\ [Pace!Held EXCEPT !.pending = TRUE] = x
  BY HeldIs
<1>3. /\ UNCHANGED <<loop, streaming, target, period, wake, busy, spun>> /\ note' = note
      /\ Pace!Becomes(y)
  BY <1>2 DEF Pace!Commit
<1>4. ~change => waited = 0
  BY DEF PaceInv, Waiting, Pace!Showable
<1>5. /\ Holds(y)
      /\ \/ Untouched(x, y, "Damage", busy)
         \/ Sends(x, y, "Damage", busy)
         \/ HoldsOff(x, y, "Damage", busy)
  <2>1. x.pending /\ x.frames = 0
    OBVIOUS
  <2> HIDE DEF x
  <2>2. QED
    BY <1>1, <1>2, <2>1, ServedIs
<1> HIDE DEF y
<1>6. QED
  BY <1>1, <1>3, <1>4, <1>5, OtherTurnKeeps

LEMMA LoopTurnKeeps ==
    ASSUME PaceInv, Pace!OtherTurn
    PROVE  PaceInv'
<1> DEFINE x == [w |-> pace, pending |-> TRUE, queue |-> queue, frames |-> 0]
           y == Pace!Served(x, busy, FALSE)
<1>1. /\ loop \in Loops \ Pace!X11Loops /\ period \in Periods[loop]
      /\ streaming \in BOOLEAN /\ busy \in BOOLEAN /\ note \in BOOLEAN /\ change = TRUE
      /\ loop # "host" => ~note
  BY DEF Pace!OtherTurn, PaceInv, PaceTyped
<1>2. Holds(x) /\ Pace!Held = x
  BY <1>1, HeldIs
<1>3. /\ UNCHANGED <<loop, streaming, target, period, wake, busy, spun>> /\ note' = note
      /\ Pace!Becomes(y)
  BY <1>2 DEF Pace!OtherTurn
<1>5. /\ Holds(y)
      /\ \/ Untouched(x, y, "Damage", busy)
         \/ Sends(x, y, "Damage", busy)
         \/ HoldsOff(x, y, "Damage", busy)
  <2>1. x.pending /\ x.frames = 0
    OBVIOUS
  <2> HIDE DEF x
  <2>2. QED
    BY <1>1, <1>2, <2>1, ServedIs
<1> HIDE DEF y
<1>6. QED
  BY <1>1, <1>3, <1>5, OtherTurnKeeps

LEMMA HostWakeKeeps ==
    ASSUME PaceInv, Pace!HostWake
    PROVE  PaceInv'
<1> DEFINE x == [w |-> pace, pending |-> TRUE, queue |-> queue, frames |-> 0]
           y == Pace!Rendered(x, "HostFrame", busy, FALSE)
<1>1. /\ loop \in Loops \ Pace!X11Loops /\ loop = "host" /\ period \in Periods[loop]
      /\ streaming \in BOOLEAN /\ busy \in BOOLEAN /\ note' = FALSE
  BY DEF Pace!HostWake, PaceInv, PaceTyped, Pace!X11Loops
<1>2. Holds(x) /\ [Pace!Held EXCEPT !.pending = TRUE] = x
  BY HeldIs
<1>3. /\ UNCHANGED <<loop, streaming, target, period, wake, busy, spun>>
      /\ IF queue = "none" THEN Pace!Becomes(Pace!Held) ELSE Pace!Becomes(y)
  BY <1>2 DEF Pace!HostWake
<1>4. CASE queue # "none"
  <2>1. /\ Holds(y)
        /\ \/ Untouched(x, y, "HostFrame", busy)
           \/ Sends(x, y, "HostFrame", busy)
           \/ HoldsOff(x, y, "HostFrame", busy)
    <3>1. x.frames \in 0 .. 1
      OBVIOUS
    <3> HIDE DEF x
    <3>2. QED
      BY <1>1, <1>2, <3>1, RenderedIs
  <2>2. ~change => waited = 0
    BY DEF PaceInv, Waiting, Pace!Showable
  <2> HIDE DEF y
  <2>3. QED
    BY <1>1, <1>3, <1>4, <2>1, <2>2, OtherTurnKeeps
<1>5. CASE queue = "none"
  <2> DEFINE z == [w |-> pace, pending |-> change, queue |-> queue, frames |-> 0]
  <2>1. Holds(z) /\ Pace!Held = z
    BY HeldIs DEF PaceInv, PaceTyped
  <2>2. Pace!Becomes(z)
    BY <1>3, <1>5, <2>1
  <2>3. /\ pace' = z.w /\ change' = z.pending /\ queue' = z.queue /\ lapsed' = lapsed
        /\ Paced(pace)' /\ Worth(pace, period, level, debt)'
        /\ level' \in Nat /\ debt' \in 0 .. 3 * Long /\ lateness' = 0
        /\ waited' = IF Pace!Showable(change', queue') THEN waited ELSE 0
    <3> HIDE DEF z
    <3> QED
      BY <1>3, <2>1, <2>2, BecomesIs DEF PaceInv
  <2>4. pace' = pace /\ change' = change /\ queue' = queue
    BY <2>3
  <2>5. ~Pace!Showable(change, queue) /\ ~Pace!Showable(change', queue') /\ waited' = 0
    BY <1>1, <1>5, <2>3, <2>4 DEF Pace!Showable
  <2>6. /\ Long' = Long /\ Short' = Short /\ Bonus' = Bonus
        /\ (Pace!KeepsRate)' = Pace!KeepsRate
    BY <1>3, LoopStays
  <2>7. Sleeping'
    BY <1>1, <1>3, <2>4, <2>6 DEF PaceInv, Sleeping
  <2>8. Waiting'
    BY <1>1, <1>3, <2>5 DEF Waiting, Pace!Showable
  <2>9. PaceTyped'
    <3>1. wake' \in 0 .. 2 * Long' /\ debt' \in 0 .. 3 * Long' /\ lateness' \in 0 .. Lateness[loop']
      BY <1>1, <1>3, <2>3, <2>6, PacingAssumption DEF PaceInv, PaceTyped, Pace!PaceAssumption
    <3>2. waited' \in Int /\ waited' >= -1
      BY <2>5
    <3>3. QED
      BY <1>1, <1>3, <2>3, <2>4, <3>1, <3>2, Zenon DEF PaceInv, PaceTyped
  <2>10. QED
    BY <1>3, <2>3, <2>7, <2>8, <2>9 DEF PaceInv
<1>6. QED
  BY <1>4, <1>5

\* The frame timer.
LEMMA FireKeeps ==
    ASSUME PaceInv, Pace!Fire
    PROVE  PaceInv'
<1> DEFINE x == [w |-> pace, pending |-> change, queue |-> queue, frames |-> 0]
<1>1. /\ UNCHANGED <<loop, streaming, target, period, note>>
      /\ loop \in Loops \ Pace!X11Loops /\ period \in Periods[loop]
      /\ streaming \in BOOLEAN /\ busy \in BOOLEAN /\ change \in BOOLEAN /\ note \in BOOLEAN
      /\ wake = 0 /\ (loop # "host" => ~note)
  BY DEF Pace!Fire, PaceInv, PaceTyped
<1>2. Holds(x) /\ Pace!Held = x
  BY <1>1, HeldIs
<1>3. PICK full \in BOOLEAN, wanted \in BOOLEAN :
          LET served == Pace!Served(x, busy, wanted)
              passed == Pace!Rendered(served, "Timer", full, wanted)
              stuck == full /\ Pace!Due(served.w, "Timer", period)
          IN  /\ served.frames = 0 => full = busy
              /\ Pace!Becomes(passed)
              /\ busy' = full
              /\ wake' = IF stuck THEN 1
                         ELSE Pace!Max({1, Pace!NextWake(passed.w, period, passed.pending)})
              /\ spun' = IF busy \/ full \/ Pace!NextWake(passed.w, period, passed.pending) > 0
                         THEN spun
                         ELSE spun \cup {IF Pace!Misfit(passed) THEN "misfit" ELSE "idle"}
  BY <1>2 DEF Pace!Fire
<1> DEFINE y == Pace!Served(x, busy, wanted)
           z == Pace!Rendered(y, "Timer", full, wanted)
           soon == Pace!NextWake(z.w, period, z.pending)
<1>4. /\ y.frames = 0 => full = busy
      /\ Pace!Becomes(z) /\ busy' = full
      /\ wake' = 1 \/ wake' = Pace!Max({1, soon})
      /\ spun' = IF busy \/ full \/ soon > 0 THEN spun
                 ELSE spun \cup {IF Pace!Misfit(z) THEN "misfit" ELSE "idle"}
  BY <1>3
<1>5. /\ Holds(y)
      /\ \/ ~change /\ y = x
         \/ change /\ Untouched(x, y, "Damage", busy)
         \/ change /\ Sends(x, y, "Damage", busy)
         \/ change /\ HoldsOff(x, y, "Damage", busy)
  <2>1. x.frames = 0 /\ x.pending = change
    OBVIOUS
  <2> HIDE DEF x
  <2>2. QED
    BY <1>1, <1>2, <2>1, ServedIs
<1>6. y.frames \in 0 .. 1
  <2> HIDE DEF y
  <2>1. x.frames = 0
    OBVIOUS
  <2> HIDE DEF x
  <2>2. QED
    BY <1>5, <2>1 DEF Untouched, Sends, HoldsOff
<1>7. x.w = pace /\ x.pending = change /\ x.queue = queue /\ x.frames = 0
  OBVIOUS
<1> HIDE DEF x, y
<1>8. /\ Holds(z)
      /\ \/ Untouched(y, z, "Timer", full)
         \/ Sends(y, z, "Timer", full)
         \/ HoldsOff(y, z, "Timer", full)
  BY <1>1, <1>5, <1>6, RenderedIs
<1> HIDE DEF z, soon
<1>9. /\ pace' = z.w /\ change' = z.pending /\ queue' = z.queue /\ lapsed' = lapsed
      /\ Paced(pace)' /\ Worth(pace, period, level, debt)'
      /\ level' \in Nat /\ debt' \in 0 .. 3 * Long /\ lateness' = 0
      /\ change' \in BOOLEAN /\ queue' \in Queues /\ (loop # "host" => queue' = "none")
      /\ waited' = IF Pace!Showable(change', queue') THEN waited ELSE 0
  BY <1>1, <1>4, <1>8, BecomesIs DEF PaceInv
<1>10. /\ Long' = Long /\ Short' = Short /\ Bonus' = Bonus
       /\ (Pace!KeepsRate)' = Pace!KeepsRate
  BY <1>1, LoopStays
<1>11. /\ PaceTyped /\ Paced(pace) /\ Sleeping /\ Waiting /\ spun \subseteq {"misfit"}
  BY DEF PaceInv
<1>12. loop \in {"compositor", "host"} /\ loop \notin {"shm", "undamaged", "dri3"}
  BY <1>1, LoopKinds
<1>13. Paced(y.w) /\ Paced(z.w)
  BY <1>5, <1>8 DEF Holds
<1>14. /\ period \in Nat \ {0} /\ Long \in Nat \ {0} /\ Short \in Nat \ {0}
       /\ period <= Long /\ Short <= Long /\ Slack \in Nat /\ 2 * Slack < period
       /\ pace.end \in Int
       /\ z.w.end \in Int /\ z.w.end <= Long /\ z.w.started \in BOOLEAN
       /\ (~z.w.started => z.w.end = 0) /\ -3 * Long <= z.w.end
       /\ z.w.held \in Int /\ (loop # "host" => z.w.held = -4 * Long)
       /\ y.w.end \in Int /\ y.w.started \in BOOLEAN /\ (~y.w.started => y.w.end = 0)
       /\ y.w.held \in Int
       /\ waited \in Int /\ waited >= -1 /\ Lateness[loop] \in Nat
       /\ z.pending \in BOOLEAN
  <2>1. /\ period \in Nat \ {0} /\ Long \in Nat \ {0} /\ Short \in Nat \ {0}
        /\ period <= Long /\ Short <= period /\ Slack \in Nat /\ 2 * Slack < period
    BY <1>1, PeriodsAre
  <2>2. waited \in Int /\ waited >= -1 /\ Lateness[loop] \in Nat /\ z.pending \in BOOLEAN
    BY <1>1, <1>8, <1>11, PacingAssumption DEF PaceTyped, Pace!PaceAssumption, Holds
  <2>3. pace.end \in Int
    BY <1>11, <2>1 DEF Paced
  <2>4. /\ z.w.end \in Int /\ z.w.end <= Long /\ z.w.started \in BOOLEAN
        /\ (~z.w.started => z.w.end = 0) /\ -3 * Long <= z.w.end
        /\ z.w.held \in Int /\ (loop # "host" => z.w.held = -4 * Long)
    BY <1>13, <2>1 DEF Paced
  <2>5. /\ y.w.end \in Int /\ y.w.started \in BOOLEAN /\ (~y.w.started => y.w.end = 0)
        /\ y.w.held \in Int
    BY <1>13, <2>1 DEF Paced
  <2>6. Short <= Long
    BY <2>1
  <2>7. QED
    BY <2>1, <2>2, <2>3, <2>4, <2>5, <2>6
<1>15. (3 * Long) \div 2 \in Nat /\ 1 <= (3 * Long) \div 2 /\ (3 * Long) \div 2 <= 2 * Long
  BY <1>14, Z3
<1>16. z.w.held <= (3 * Long) \div 2
  BY <1>13, <1>14, <1>15 DEF Paced
<1>17. /\ soon \in Int
       /\ z.pending \/ z.w.end > 0 => soon <= z.w.end
       /\ ~z.pending /\ z.w.end <= 0 => soon = Pace!NextDue(z.w, period)
       /\ soon = Pace!NextDue(z.w, period) \/ soon = z.w.end
       /\ Pace!NextDue(z.w, period) = LET opens == IF z.w.started THEN z.w.end + period ELSE 0
                                      IN  IF z.w.held >= opens THEN z.w.held ELSE opens
       /\ Pace!NextDue(z.w, period) \in Int
  <2>1. Pace!NextDue(z.w, period) = LET opens == IF z.w.started THEN z.w.end + period ELSE 0
                                   IN  IF z.w.held >= opens THEN z.w.held ELSE opens
    BY <1>14, NextDueIs
  <2>2. Pace!NextDue(z.w, period) \in Int
    BY <1>14, <2>1
  <2>3. soon = IF z.pending \/ z.w.end > 0 THEN Pace!Min({Pace!NextDue(z.w, period), z.w.end})
               ELSE Pace!NextDue(z.w, period)
    BY DEF soon, Pace!NextWake, Pace!PullAt
  <2>4. Pace!Min({Pace!NextDue(z.w, period), z.w.end})
          = IF Pace!NextDue(z.w, period) <= z.w.end THEN Pace!NextDue(z.w, period) ELSE z.w.end
    <3> DEFINE a == Pace!NextDue(z.w, period)
               b == z.w.end
    <3>1. a \in Int /\ b \in Int
      BY <1>14, <2>2
    <3> HIDE DEF a, b
    <3>2. Pace!Min({a, b}) = IF a <= b THEN a ELSE b
      BY <3>1, OfTwo
    <3>3. QED
      BY <3>2 DEF a, b
  <2>5. QED
    BY <1>14, <2>1, <2>2, <2>3, <2>4
<1>18. wake' \in Int /\ 1 <= wake' /\ (wake' = 1 \/ wake' = soon)
  BY <1>4, <1>17, OfTwo
<1>19. wake' <= (IF z.w.end > 0 THEN z.w.end ELSE IF loop = "host" THEN (3 * Long) \div 2
                 ELSE IF wake' = 1 THEN 1 ELSE z.w.end + Long)
  BY <1>14, <1>15, <1>16, <1>17, <1>18
<1>20. wake' \in 0 .. 2 * Long
  BY <1>14, <1>15, <1>18, <1>19
<1>21. Sleeping'
  <2>1. loop = "compositor" =>
            /\ wake' <= 1 \/ wake' <= pace'.end + Long
            /\ pace'.end > 0 => wake' <= pace'.end + Long - Short
    BY <1>9, <1>14, <1>18, <1>19
  <2>2. loop = "host" => wake' <= (3 * Long) \div 2 + (IF pace'.end > 0 THEN pace'.end ELSE 0)
    BY <1>9, <1>14, <1>15, <1>18, <1>19
  <2>3. QED
    BY <1>1, <1>10, <1>12, <2>1, <2>2 DEF Sleeping
\* What can still be shown was not touched, for the window was closed or the pool full.
<1>22. ASSUME Pace!Showable(change', queue')
       PROVE  pace' = pace /\ busy' = busy /\ waited' = waited /\ (busy \/ pace.end > 0)
  <2>1. z.pending /\ (loop = "host" => z.queue = "fits")
    BY <1>9, <1>22 DEF Pace!Showable
  <2>2. z = y
    BY <1>8, <2>1 DEF Untouched, Sends, HoldsOff
  <2>3. change /\ y = x /\ (~Pace!Due(x.w, "Damage", period) \/ busy)
    BY <1>5, <1>7, <2>1, <2>2 DEF Untouched, Sends, HoldsOff
  <2>4. ~Pace!Due(x.w, "Damage", period) => pace.end > 0
    BY <1>7, <1>14 DEF Pace!Due, Pace!PullAt
  <2>5. pace' = pace /\ busy' = busy
    BY <1>4, <1>7, <1>9, <2>2, <2>3
  <2>6. QED
    BY <1>9, <1>22, <2>3, <2>4, <2>5
<1>23. Waiting'
  <2>1. CASE ~Pace!Showable(change', queue')
    <3>1. waited' = 0 /\ ~(waited' > 0) /\ ~(Pace!Showable(change, queue))'
      BY <1>1, <1>9, <2>1 DEF Pace!Showable
    <3>2. QED
      BY <1>1, <1>12, <3>1 DEF Waiting
  <2>2. CASE Pace!Showable(change', queue')
    <3>1. ~(waited > 0)
      BY <1>11, <1>12, <1>14, <1>22, <2>2 DEF Waiting
    <3>2. /\ waited' = -1 \/ (waited' = 0 /\ (busy' \/ pace'.end > 0))
          /\ ~(waited' > 0)
      BY <1>14, <1>22, <2>2, <3>1
    <3>3. (Pace!Showable(change, queue))'
      BY <1>1, <2>2 DEF Pace!Showable
    <3>4. QED
      BY <1>1, <1>12, <3>2, <3>3 DEF Waiting
  <2>3. QED
    BY <2>1, <2>2
<1>24. spun' \subseteq {"misfit"}
  <2>1. SUFFICES ASSUME ~busy, ~full, ~(soon > 0) PROVE Pace!Misfit(z)
    BY <1>4, <1>11
  <2>2. soon <= 0
    BY <1>17, <2>1
  <2>3. Pace!NextDue(z.w, period) <= 0 \/ z.w.end <= 0
    BY <1>17, <2>2
  <2>4. CASE Untouched(y, z, "Timer", full)
    <3>1. z = y /\ ~(Pace!NextDue(z.w, period) <= Slack)
      BY <2>1, <2>4 DEF Untouched, Pace!Due
    <3>2. soon = z.w.end /\ z.pending
      BY <1>14, <1>17, <2>2, <3>1
    <3>3. change /\ y.w.end <= 0
      BY <1>5, <1>7, <2>2, <3>1, <3>2
    <3>4. ~Untouched(x, y, "Damage", busy)
      BY <1>7, <1>14, <2>1, <3>3 DEF Untouched, Pace!Due, Pace!PullAt
    <3>5. HoldsOff(x, y, "Damage", busy)
      BY <1>5, <3>1, <3>2, <3>3, <3>4 DEF Sends
    <3>6. QED
      BY <3>1, <3>2, <3>5 DEF HoldsOff, Pace!Misfit
  <2>5. CASE Sends(y, z, "Timer", full)
    <3>1. ~z.pending /\ z.w.started /\ -period < z.w.end /\ z.w.held = -4 * Long
      BY <2>5 DEF Sends
    <3>2. Pace!NextDue(z.w, period) > 0
      BY <1>14, <1>17, <3>1
    <3>3. QED
      BY <1>14, <1>17, <2>2, <3>1, <3>2
  <2>6. CASE HoldsOff(y, z, "Timer", full)
    <3>1. loop = "host" /\ z.queue = "none" /\ 1 <= z.w.held
      BY <2>6 DEF HoldsOff
    <3>2. Pace!NextDue(z.w, period) >= 1
      BY <1>14, <1>17, <3>1
    <3>3. z.pending
      BY <1>14, <1>17, <2>2, <3>2
    <3>4. QED
      BY <3>1, <3>3 DEF Pace!Misfit
  <2>7. QED
    BY <1>8, <2>4, <2>5, <2>6
<1>25. PaceTyped'
  <2>1. wake' \in 0 .. 2 * Long' /\ debt' \in 0 .. 3 * Long' /\ lateness' \in 0 .. Lateness[loop']
    BY <1>1, <1>9, <1>10, <1>14, <1>20
  <2>2. waited' \in Int /\ waited' >= -1
    BY <1>9, <1>14
  <2>3. /\ loop' \in Loops /\ streaming' \in BOOLEAN /\ target' \in Periods[loop']
        /\ period' \in Periods[loop'] /\ busy' \in BOOLEAN /\ lapsed' \in BOOLEAN
        /\ (loop' # "host" => ~note' /\ queue' = "none") /\ loop' \notin Pace!X11Loops
        /\ note' \in BOOLEAN
    BY <1>1, <1>4, <1>9, <1>11 DEF PaceTyped
  <2>4. QED
    BY <1>9, <2>1, <2>2, <2>3, Zenon DEF PaceTyped
<1>26. QED
  BY <1>9, <1>21, <1>23, <1>24, <1>25 DEF PaceInv

\* What changes none of its variables keeps it.
LEMMA PaceStays ==
    ASSUME PaceInv, UNCHANGED PaceOnly
    PROVE  PaceInv'
<1>1. /\ UNCHANGED <<loop, streaming, target, period, pace, wake, change, busy, queue, note,
                     lateness, level, debt, lapsed, waited, spun>>
  BY DEF PaceOnly
<1>2. /\ Long' = Long /\ Short' = Short /\ Bonus' = Bonus
      /\ (Pace!KeepsRate)' = Pace!KeepsRate
  BY <1>1, LoopStays
<1>3. PaceTyped' /\ Paced(pace)' /\ Worth(pace, period, level, debt)'
  BY <1>1, <1>2 DEF PaceInv, PaceTyped, Paced, Worth, Owes
<1>4. Sleeping' /\ Waiting'
  BY <1>1, <1>2 DEF PaceInv, Sleeping, Waiting, Pace!Showable
<1>5. QED
  BY <1>1, <1>3, <1>4 DEF PaceInv

\* The steps keep the invariant.
LEMMA PaceKeeps ==
    ASSUME PaceInv, Pace!Next
    PROVE  PaceInv'
  BY GrabKeeps, ReportKeeps, FireKeeps, CommitKeeps, LoopTurnKeeps, HostWakeKeeps, TurnKeeps,
     PassKeeps, HostFrameKeeps, SetRateKeeps DEF Pace!Next

-----------------------------------------------------------------------------
(* FramePace: what the invariant says.                                     *)

\* For how long a change has waited with its window open.
LEMMA WaitedIs ==
    ASSUME PaceInv
    PROVE  Pace!ChangeIsShown /\ waited <= Lateness[loop] + 2 * Long
<1>1. /\ PaceTyped /\ Paced(pace) /\ Waiting /\ loop \in Loops
  BY DEF PaceInv, PaceTyped
<1>2. /\ Pace!Longest = Long /\ Long \in Nat \ {0} /\ Short \in Nat /\ Short <= Long
      /\ Short = Pace!Min(Periods[loop]) /\ Lateness[loop] \in Nat
      /\ period \in Nat \ {0} /\ period <= Long
  BY <1>1, PeriodsAre, PacingAssumption DEF Long, Short, Pace!PaceAssumption, PaceTyped
<1>3. (3 * Long) \div 2 \in Nat /\ (3 * Long) \div 2 <= 2 * Long
  BY <1>2, Z3
<1>4. /\ waited \in Int /\ waited >= -1 /\ wake \in Nat /\ lateness \in Nat
      /\ lateness <= Lateness[loop] /\ pace.end \in Int /\ pace.started \in BOOLEAN
      /\ (~pace.started => pace.end = 0)
  BY <1>1, <1>2 DEF PaceTyped, Paced
<1>5. CASE loop \in {"shm", "dri3"}
  <2>1. waited <= lateness
    BY <1>1, <1>5 DEF Waiting
  <2>2. waited <= Lateness[loop] + (Long - Short)
    BY <1>2, <1>4, <2>1
  <2>3. waited <= Lateness[loop] + 2 * Long
    BY <1>2, <1>4, <2>2
  <2>4. QED
    BY <1>2, <1>5, <2>2, <2>3 DEF Pace!ChangeIsShown
<1>6. CASE loop = "undamaged"
  <2> DEFINE due == IF pace.started THEN pace.end + period ELSE 0
  <2>1. IF due <= 0 THEN waited <= period + lateness
        ELSE waited <= (IF pace.end > 0 THEN 0 ELSE -pace.end)
    BY <1>1, <1>6 DEF Waiting
  <2>2. waited <= Lateness[loop] + Long
    <3>1. CASE due <= 0
      <4> HIDE DEF due
      <4>1. QED
        BY <1>2, <1>4, <2>1, <3>1
    <3>2. CASE ~(due <= 0)
      <4>1. waited <= (IF pace.end > 0 THEN 0 ELSE -pace.end)
        BY <2>1, <3>2
      <4>2. -pace.end <= period
        BY <1>2, <1>4, <3>2
      <4>3. QED
        BY <1>2, <1>4, <4>1, <4>2
    <3>3. QED
      BY <3>1, <3>2
  <2>3. waited <= Lateness[loop] + 2 * Long
    BY <1>2, <1>4, <2>2
  <2>4. QED
    BY <1>2, <1>6, <2>2, <2>3 DEF Pace!ChangeIsShown
<1>7. CASE loop \in {"compositor", "host"}
  <2>1. Bonus \in Nat /\ Bonus = IF loop = "host" THEN (3 * Long) \div 2 ELSE Long - Short
    BY <1>2, <1>3, <1>7 DEF Bonus
  <2>2. waited <= Bonus + lateness
    BY <1>1, <1>4, <1>7, <2>1 DEF Waiting
  <2>3. waited <= Lateness[loop] + Bonus
    BY <1>2, <1>4, <2>1, <2>2
  <2>4. waited <= Lateness[loop] + 2 * Long
    BY <1>2, <1>3, <1>4, <2>1, <2>3
  <2>5. QED
    BY <1>2, <1>7, <2>1, <2>3, <2>4 DEF Pace!ChangeIsShown
<1>8. QED
  BY <1>1, <1>5, <1>6, <1>7, LoopKinds

LEMMA PaceTypes ==
    ASSUME PaceInv
    PROVE  Pace!TypeOK
<1>1. /\ PaceTyped /\ Paced(pace) /\ Worth(pace, period, level, debt) /\ Waiting
      /\ spun \subseteq {"misfit"} /\ loop \in Loops
  BY DEF PaceInv, PaceTyped
<1>2. Pace!Longest = Long /\ Long \in Nat \ {0} /\ Short \in Nat /\ Short <= Long
      /\ Lateness[loop] \in Nat
  BY <1>1, PeriodsAre, PacingAssumption DEF Long, Pace!PaceAssumption
<1>3. (3 * Long) \div 2 \in Nat /\ (3 * Long) \div 2 <= 2 * Long
  BY <1>2, Z3
<1>4. pace \in Pace!Paces
  <2>1. pace.started \in BOOLEAN /\ pace.since \in 0 .. Pace!Quiet
    BY <1>1, <1>2 DEF Paced, Pace!Quiet
  <2>2. pace.end \in Int /\ -3 * Long <= pace.end /\ pace.end <= Long
    BY <1>1, <1>2 DEF Paced
  <2>3. pace.held \in Int /\ -4 * Long <= pace.held /\ pace.held <= (3 * Long) \div 2
    BY <1>1, <1>2, <1>3 DEF Paced
  <2>4. pace.end \in Pace!LongPast .. 3 * Pace!Longest /\ pace.held \in Pace!LongPast .. 3 * Pace!Longest
    BY <1>2, <1>3, <2>2, <2>3 DEF Pace!LongPast
  <2>5. pace = [started |-> pace.started, end |-> pace.end, held |-> pace.held, since |-> pace.since]
    BY <1>1 DEF Paced
  <2>6. QED
    BY <2>1, <2>4, <2>5 DEF Pace!Paces
<1>5. level \in 0 .. 4 * Long
  <2>1. level \in Nat /\ pace.end \in Int /\ pace.end <= Long
    BY <1>1, <1>2 DEF PaceTyped, Paced
  <2>2. QED
    BY <1>1, <1>2, <2>1 DEF Worth, Owes
<1>6. waited \in Int /\ waited >= -1 /\ wake \in Nat /\ lateness \in Nat
      /\ lateness <= Lateness[loop]
  BY <1>1, <1>2 DEF PaceTyped
<1>7. waited <= Lateness[loop] + 2 * Long
  BY WaitedIs
<1>8. {streaming, change, busy, note, lapsed} \subseteq BOOLEAN
  BY <1>1, Zenon DEF PaceTyped
<1>9. /\ {target, period} \subseteq Periods[loop] /\ wake \in 0 .. 2 * Long
      /\ queue \in {"none", "fits", "other"} /\ lateness \in 0 .. Lateness[loop]
      /\ debt \in 0 .. 4 * Long
  BY <1>1, <1>2 DEF PaceTyped, Queues
<1>10. waited \in -1 .. Lateness[loop] + 2 * Long
  BY <1>2, <1>6, <1>7
<1>11. spun \subseteq {"misfit", "idle"} /\ {level, debt} \subseteq 0 .. 4 * Long
  BY <1>1, <1>5, <1>9
<1>12. QED
  BY <1>1, <1>2, <1>4, <1>8, <1>9, <1>10, <1>11, Zenon DEF Pace!TypeOK

LEMMA RateIs ==
    ASSUME PaceInv
    PROVE  Pace!PaceHolds
<1>1. /\ PaceTyped /\ Paced(pace) /\ Worth(pace, period, level, debt) /\ loop \in Loops
      /\ spun \subseteq {"misfit"}
  BY DEF PaceInv, PaceTyped
<1>2. Pace!Longest = Long /\ Long \in Nat \ {0}
  BY <1>1, PeriodsAre DEF Long
<1>3. level \in Nat /\ pace.end \in Int /\ pace.end <= Long /\ debt <= 3 * Long
  BY <1>1, <1>2 DEF PaceTyped, Paced
<1>4. level <= 3 * Long
  BY <1>1, <1>2, <1>3 DEF Worth, Owes
<1>5. QED
  BY <1>1, <1>2, <1>3, <1>4 DEF Pace!PaceHolds

-----------------------------------------------------------------------------
(* Of the run's specification: one of the systems steps.                   *)

MCInv ==
    /\ kind \in {"pool", "x11", "wayland", "pace"}
    /\ IInv
    /\ kind = "x11" => X11Inv /\ X11Counts
    /\ kind = "wayland" => WaylandInv
    /\ kind = "pace" => PaceInv
    /\ kind \notin {"x11", "wayland"} => rebuilds = 0

\* What the KeyArmed of the run says of a step on X11.
KeyKept == kind = "x11" /\ owed /\ X11!Armed => ~owed' \/ X11!Armed' \/ ~seen'

AllVars == <<kind, vars, EncoderOnly, X11Only, WaylandOnly, PaceOnly>>

LEMMA InitMCInv == MCInit => MCInv
  BY InitIInv, InitX11Inv, InitX11Counts, InitWaylandInv, PaceStarts
     DEF MCInit, MCInv, BothOff

LEMMA NextMCInv == MCInv /\ [MCNext]_AllVars => MCInv' /\ KeyKept
<1> SUFFICES ASSUME MCInv, [MCNext]_AllVars PROVE MCInv' /\ KeyKept
  OBVIOUS
<1>1. UNCHANGED kind /\ IInv'
  <2>1. UNCHANGED kind /\ [Next]_vars
    BY DEF MCNext, AllVars
  <2>2. QED
    BY <2>1, NextIInv DEF MCInv
<1>2. CASE kind = "x11"
  <2>1. [X11!Next]_(X11!vars)
    BY <1>2 DEF MCNext, AllVars, EncoderOnly, X11Only, X11!vars, X11!settings, X11!coding,
                X11!recovery, X11!bounds
  <2>2. X11Inv' /\ X11Counts' /\ KeyKept
    BY <1>2, <2>1, NextX11Inv, NextX11Counts DEF MCInv, KeyKept
  <2>3. QED
    BY <1>1, <1>2, <2>2 DEF MCInv
<1>3. CASE kind = "wayland"
  <2>1. [Wayland!Next]_(Wayland!vars)
    BY <1>3 DEF MCNext, AllVars, EncoderOnly, WaylandOnly, Wayland!vars, Wayland!path,
                Wayland!flight, Wayland!recovery, Wayland!loop, Wayland!bounds
  <2>2. WaylandInv'
    BY <1>3, <2>1, NextWaylandInv DEF MCInv
  <2>3. QED
    BY <1>1, <1>3, <2>2 DEF MCInv, KeyKept
<1>4. CASE kind = "pool"
  <2>1. UNCHANGED rebuilds
    BY <1>4 DEF MCNext, AllVars, EncoderOnly
  <2>2. QED
    BY <1>1, <1>4, <2>1 DEF MCInv, KeyKept
<1>5. CASE kind = "pace"
  <2>1. UNCHANGED rebuilds
    BY <1>5 DEF MCNext, AllVars, EncoderOnly
  <2>2. CASE Pace!Next
    BY <1>1, <1>5, <2>1, <2>2, PaceKeeps DEF MCInv, KeyKept
  <2>3. CASE UNCHANGED PaceOnly
    <3>1. PaceInv'
      BY <1>5, <2>3, PaceStays DEF MCInv
    <3>2. QED
      BY <1>1, <1>5, <2>1, <3>1 DEF MCInv, KeyKept
  <2>4. QED
    BY <1>5, <2>2, <2>3 DEF MCNext, AllVars
<1>6. QED
  BY <1>2, <1>3, <1>4, <1>5 DEF MCInv

\* Between two successes the engine is opened again at most once, whatever the
\* order of failing encodes, failing rate changes, reshapes, panics and restarts;
\* and on X11 a demoted pipeline drives no engine until it is replaced.
THEOREM RecoveryIsBounded == MCSpec => []RecoveryEnds
<1>1. MCInv => RecoveryEnds
  <2>1. ASSUME MCInv PROVE rebuilds <= 1
    BY <2>1 DEF MCInv, X11Inv, Remembered, WaylandInv, WaylandRebuilt
  <2>2. ASSUME MCInv, kind = "x11" PROVE X11!DemotionHolds
    BY <2>2 DEF MCInv, X11Inv, Demoted, X11!DemotionHolds
  <2>3. QED
    BY <2>1, <2>2 DEF RecoveryEnds
<1>2. QED
  BY <1>1, InitMCInv, NextMCInv, PTL DEF MCSpec, AllVars

\* A key frame owed and armed stays so until it is out: no error, recovery, rate
\* change, reshape in place, panic or restart lets go of it, a late engine's
\* earlier unit neither.
THEOREM KeyStaysArmed == MCSpec => KeyArmed
<1>1. MCInv => (kind = "wayland" => Wayland!KeyArmed)
  BY DEF MCInv, WaylandInv
<1>2. [MCNext]_AllVars /\ MCInv =>
          [kind = "x11" /\ owed /\ X11!Armed => ~owed' \/ X11!Armed' \/ ~seen']_(X11!vars)
  BY NextMCInv DEF KeyKept
<1>3. QED
  BY <1>1, <1>2, InitMCInv, NextMCInv, PTL DEF MCSpec, AllVars, KeyArmed

\* The types of whichever runs, the bounds of what it counts among them: a streak
\* is never as long as the threshold that ends it, and the windows of the pacing
\* stay within the periods of its loop.
THEOREM EncodeThreadTypes == MCSpec => []Types
<1>1. MCInv => Types
  BY X11Types, WaylandTypes, PaceTypes DEF MCInv, IInv, Types
<1>2. QED
  BY <1>1, InitMCInv, NextMCInv, PTL DEF MCSpec, AllVars

\* The rate set is the rate streamed at, for every set of periods and however late
\* the loop comes: the frames are worth three of the longest periods more than the
\* time they took at most, and three less where every tick sends one and no window
\* passed whole; and no change keeps the timer close that it can do nothing for.
THEOREM RateIsKept == MCSpec => []PaceHolds
<1>1. MCInv => PaceHolds
  BY RateIs DEF MCInv, PaceHolds
<1>2. QED
  BY <1>1, InitMCInv, NextMCInv, PTL DEF MCSpec, AllVars

\* A change is shown at once or as the next window opens: it waits in an open
\* window no longer than the loop comes late, and what the rate's change or the
\* held timer of a host's capture adds.
THEOREM ChangesAreShown == MCSpec => []ChangeIsShown
<1>1. MCInv => ChangeIsShown
  BY WaitedIs DEF MCInv, ChangeIsShown
<1>2. QED
  BY <1>1, InitMCInv, NextMCInv, PTL DEF MCSpec, AllVars

=============================================================================
