------------------------------ MODULE X11Capture ------------------------------
(***************************************************************************)
(* The shared-memory X11 capture of pixelflux/src/x11/mod.rs: the capture  *)
(* thread of run_shm_capture, the encode thread of encode_loop, and the    *)
(* FramePool between them.                                                 *)
(*                                                                         *)
(* The capture thread grabs the root window into one of a few surfaces, by *)
(* request of the X server, and publishes it in a single slot; the encode  *)
(* thread takes it, fits its pipeline to it, reads it and recycles the     *)
(* surface.  The surfaces are destroyed and created anew when the captured *)
(* size changes or the X server comes back, which is when an encoder could *)
(* read memory that is gone.  Every pool operation is one step under the   *)
(* pool's lock; its waits look again every 20 ms, so they are guards.      *)
(*                                                                         *)
(* A size is one number (the root's, the region's and the captured one);   *)
(* the region's origin, which is clamped to the root, is left out.         *)
(***************************************************************************)
EXTENDS Integers, FiniteSets

CONSTANTS
    PoolSize,      \* POOL_N surfaces
    Sizes,         \* the sizes the root window takes
    Regions,       \* the sizes asked for; 0 follows the root
    GrabFailures,  \* failed grabs in a row the capture takes (120)
    Attempts,      \* reconnections tried after that (5)
    Streak,        \* reconnections without one good grab (4)
    Faults,        \* which of "Shm", "Panic", "Server" may happen
    MaxChanges     \* bound for model checking: what the outside does

\* What the constants are; the module of the run asserts it.
X11Assumption ==
    /\ PoolSize \in Nat \ {0}
    /\ Sizes \subseteq Nat \ {0} /\ Sizes # {}
    /\ Regions \subseteq Nat /\ Regions # {}
    /\ GrabFailures \in Nat /\ Attempts \in Nat /\ Streak \in Nat \ {0}
    /\ Faults \subseteq {"Shm", "Panic", "Server"}
    /\ MaxChanges \in Nat

VARIABLES
    \* the outside
    root, server, up, region, changes,
    \* Controls and the FramePool
    stop, regionDirty, free, slot, poolStop, generation,
    \* the capture thread
    pc, held, asked, size, target, birth, conn, fresh,
    failures, attempts, reconnects, result,
    \* the encode thread
    epc, encoding, pipe, pins

outside == <<root, server, up, region, changes>>
pool == <<free, slot, poolStop, generation>>
retries == <<failures, attempts, reconnects>>
surfaces == <<size, birth, generation, conn>>
encoder == <<epc, encoding, pipe, pins>>
vars == <<outside, stop, regionDirty, pool, pc, held, asked, size, target, birth,
          conn, fresh, retries, result, encoder>>

Idx == 1 .. PoolSize
None == 0    \* no surface index, no birth, an empty pin

\* The sizes captured: the root's, or a region's within it.
Captured == Sizes \cup (Regions \ {0})

\* A published frame; `birth` is which creation of the surfaces it lies in.
Frame == [idx : Idx, size : Captured, gen : Nat, birth : Nat]
NoFrame == [idx |-> None]
NoPipe == [size |-> None]

Drains == {"DrainRegion", "DrainPoll", "DrainReconnect"}

TypeOK ==
    /\ root \in Sizes /\ server \in Nat /\ up \in BOOLEAN
    /\ region \in Regions /\ changes \in 0 .. MaxChanges
    /\ stop \in BOOLEAN /\ regionDirty \in BOOLEAN /\ poolStop \in BOOLEAN
    /\ free \subseteq Idx /\ slot \in Frame \cup {NoFrame}
    /\ pc \in Drains \cup {"Top", "Poll", "Acquire", "Grab", "Publish",
                           "Reconnect", "Join", "Done"}
    /\ held \in Idx \cup {None} /\ asked \in Regions
    /\ size \in Captured /\ target \in Captured
    /\ birth \in Nat /\ generation \in Nat /\ conn \in Nat /\ fresh \in Nat
    /\ failures \in 0 .. GrabFailures + 1
    /\ attempts \in 0 .. Attempts /\ reconnects \in 0 .. Streak
    /\ result \in {"Running", "Ok", "Err"}
    /\ epc \in {"Take", "Fit", "Read", "Ended", "Panicking", "Panicked"}
    /\ encoding \in Frame \cup {NoFrame}
    /\ pipe \in [size : Captured, gen : Nat] \cup {NoPipe}
    /\ pins \in [Idx -> Nat]

\* resolve_dims.
Resolve(r, asks) == IF asks = 0 \/ asks > r THEN r ELSE asks

Init ==
    /\ root \in Sizes /\ server = 1 /\ up = TRUE
    /\ region \in Regions /\ changes = 0
    /\ stop = FALSE /\ regionDirty = FALSE
    /\ free = Idx /\ slot = NoFrame /\ poolStop = FALSE /\ generation = 0
    /\ pc = "Top" /\ held = None /\ asked = region
    /\ size = Resolve(root, region) /\ target = size
    /\ birth = 1 /\ conn = server /\ fresh = server
    /\ failures = 0 /\ attempts = 0 /\ reconnects = 0 /\ result = "Running"
    /\ epc = "Take" /\ encoding = NoFrame /\ pipe = NoPipe
    /\ pins = [i \in Idx |-> None]

-----------------------------------------------------------------------------
(* The capture thread.                                                     *)

\* A request on the capture's own connection is answered.
Answers == up /\ conn = server

\* The loop ends: the pool is shut down, and the encode thread joined next.
Leave(r) == pc' = "Join" /\ result' = r /\ poolStop' = TRUE

\* The top of the loop: the stop flag, then a live change of the region.
LoopStopped ==
    /\ pc = "Top" /\ stop
    /\ Leave("Ok")
    /\ UNCHANGED <<outside, stop, regionDirty, free, slot, held, asked, target,
                   surfaces, fresh, retries, encoder>>

ApplyRegion ==
    /\ pc = "Top" /\ ~stop
    /\ regionDirty' = FALSE
    /\ asked' = IF regionDirty THEN region ELSE asked
    /\ IF regionDirty /\ Answers /\ Resolve(root, region) # size
       THEN pc' = "DrainRegion" /\ target' = Resolve(root, region)
       ELSE pc' = "Poll" /\ UNCHANGED target
    /\ UNCHANGED <<outside, stop, pool, held, size, birth, conn, fresh, retries,
                   result, encoder>>

\* Mutant of PollDue: only a region that follows the root is polled for.
PollDueAuto == asked = 0

\* The root's size is polled now and then where the region follows it, and
\* after every failed grab.
PollDue == asked = 0 \/ failures > 0

PollGeometry ==
    /\ pc = "Poll"
    /\ \/ /\ PollDue /\ Answers /\ Resolve(root, asked) # size
          /\ pc' = "DrainPoll" /\ target' = Resolve(root, asked)
       \/ /\ failures > 0 /\ PollDue => ~Answers \/ Resolve(root, asked) = size
          /\ pc' = "Acquire" /\ UNCHANGED target
    /\ UNCHANGED <<outside, stop, regionDirty, pool, held, asked, size, birth,
                   conn, fresh, retries, result, encoder>>

\* Mutant of Reclaim: the frame reclaimed stays in the slot.
ReclaimKept ==
    /\ pc \in Drains /\ slot # NoFrame /\ slot.idx \notin free
    /\ free' = free \cup {slot.idx}
    /\ UNCHANGED <<outside, stop, regionDirty, slot, poolStop, generation, pc, held,
                   asked, size, target, birth, conn, fresh, retries, result, encoder>>

\* drain_for_resize: the frame not yet taken goes back,
Reclaim ==
    /\ pc \in Drains /\ slot # NoFrame
    /\ slot' = NoFrame /\ free' = free \cup {slot.idx}
    /\ UNCHANGED <<outside, stop, regionDirty, poolStop, generation, pc, held, asked,
                   size, target, birth, conn, fresh, retries, result, encoder>>

\* Mutant of Drained: the frame being encoded is not waited for.
DrainedEarly == pc \in Drains /\ slot = NoFrame

\* then every surface is waited for,
Drained == pc \in Drains /\ slot = NoFrame /\ free = Idx

\* unless a stop ends the wait.
DrainStopped ==
    /\ pc \in Drains /\ slot = NoFrame /\ free # Idx /\ (stop \/ poolStop)
    /\ IF pc = "DrainReconnect"
       THEN pc' = "Reconnect" /\ UNCHANGED <<result, poolStop>>
       ELSE Leave("Ok")
    /\ UNCHANGED <<outside, stop, regionDirty, free, slot, held, asked, target,
                   surfaces, fresh, retries, encoder>>

\* The surfaces anew at `to`, on the connection `on` (bump_generation).
Recreate(to, on) ==
    /\ size' = to /\ conn' = on
    /\ birth' = birth + 1 /\ generation' = generation + 1

\* The pool is drained for a size: for a region the one read before the drain,
\* for the root the one it has now, which may be the old one again.
Resized ==
    /\ Drained /\ pc # "DrainReconnect"
    /\ LET to == IF pc = "DrainPoll" /\ Answers THEN Resolve(root, asked) ELSE target
           next == IF pc = "DrainPoll" THEN "Acquire" ELSE "Poll"
       IN  \/ /\ pc = "DrainPoll" /\ to = size
              /\ pc' = next
              /\ UNCHANGED <<surfaces, result, poolStop>>
           \/ /\ pc = "DrainRegion" \/ to # size
              /\ Answers
              /\ Recreate(to, conn)
              /\ pc' = next
              /\ UNCHANGED <<result, poolStop>>
           \/ /\ pc = "DrainRegion" \/ to # size
              /\ ~Answers \/ "Shm" \in Faults
              /\ birth' = None /\ size' = to
              /\ Leave("Err")
              /\ UNCHANGED <<conn, generation>>
    /\ UNCHANGED <<outside, stop, regionDirty, free, slot, held, asked, target, fresh,
                   retries, encoder>>

\* acquire: a free surface, or None on a stop.
Acquire ==
    /\ pc = "Acquire"
    /\ \/ \E i \in free :
            /\ held' = i /\ free' = free \ {i} /\ pc' = "Grab"
            /\ UNCHANGED <<result, poolStop>>
       \/ free = {} /\ stop /\ Leave("Ok") /\ UNCHANGED <<free, held>>
    /\ UNCHANGED <<outside, stop, regionDirty, slot, asked, target, surfaces,
                   fresh, retries, encoder>>

GrabFrame ==
    /\ pc = "Grab" /\ Answers /\ size <= root
    /\ pc' = "Publish" /\ failures' = 0 /\ reconnects' = 0
    /\ UNCHANGED <<outside, stop, regionDirty, pool, held, asked, size, target, birth,
                   conn, fresh, attempts, result, encoder>>

\* Mutant of GrabsSpent: one failure too many.
GrabsSpentLate == failures > GrabFailures

\* The failure under way is one more than the capture takes in a row.
GrabsSpent == failures + 1 > GrabFailures

\* A grab past the root's edge, or on a connection that is gone.
GrabFails ==
    /\ pc = "Grab" /\ ~(Answers /\ size <= root)
    /\ free' = free \cup {held} /\ held' = None
    /\ failures' = failures + 1 /\ attempts' = 0
    /\ pc' = IF GrabsSpent THEN "Reconnect" ELSE "Top"
    /\ UNCHANGED <<outside, stop, regionDirty, slot, poolStop, asked, target,
                   surfaces, fresh, reconnects, result, encoder>>

\* Mutant of GaveUp: the attempts are not counted.
GaveUpNever == stop

\* No more attempts to reconnect.
GaveUp == stop \/ attempts = Attempts

\* One attempt of try_rebuild_channel, up to its drain of the pool.
Reconnect ==
    /\ pc = "Reconnect"
    /\ IF GaveUp
       THEN Leave("Err") /\ UNCHANGED <<attempts, target, fresh>>
       ELSE /\ attempts' = IF attempts < Attempts THEN attempts + 1 ELSE attempts
            /\ IF up
               THEN /\ pc' = "DrainReconnect" /\ fresh' = server
                    /\ target' = Resolve(root, asked)
               ELSE UNCHANGED <<pc, fresh, target>>
            /\ UNCHANGED <<result, poolStop>>
    /\ UNCHANGED <<outside, stop, regionDirty, free, slot, held, asked, surfaces,
                   failures, reconnects, encoder>>

\* And from there: the surfaces of the new connection replace the old ones.
Reconnected ==
    /\ Drained /\ pc = "DrainReconnect"
    /\ \/ /\ up /\ fresh = server
          /\ Recreate(target, fresh)
          /\ failures' = 0 /\ reconnects' = reconnects + 1
          /\ IF reconnects + 1 >= Streak
             THEN Leave("Err")
             ELSE pc' = "Top" /\ UNCHANGED <<result, poolStop>>
       \/ /\ ~(up /\ fresh = server) \/ "Shm" \in Faults
          /\ pc' = "Reconnect"
          /\ UNCHANGED <<surfaces, failures, reconnects, result, poolStop>>
    /\ UNCHANGED <<outside, stop, regionDirty, free, slot, held, asked, target, fresh,
                   attempts, encoder>>

\* publish gives up on a stop, the slot still full.
PublishStopped == slot # NoFrame /\ stop

Publish ==
    /\ pc = "Publish"
    /\ \/ /\ slot = NoFrame
          /\ slot' = [idx |-> held, size |-> size, gen |-> generation, birth |-> birth]
          /\ held' = None /\ pc' = "Top"
          /\ UNCHANGED <<result, poolStop>>
       \/ PublishStopped /\ Leave("Ok") /\ UNCHANGED <<slot, held>>
    /\ UNCHANGED <<outside, stop, regionDirty, free, asked, target, surfaces,
                   fresh, retries, encoder>>

\* An error of the capture outranks the encode thread's panic.
Outcome(r) == IF r = "Ok" /\ epc = "Panicked" THEN "Err" ELSE r

\* The encode thread is joined, then the surfaces go.
Join ==
    /\ pc = "Join" /\ epc \in {"Ended", "Panicked"}
    /\ pc' = "Done" /\ result' = Outcome(result) /\ birth' = None
    /\ UNCHANGED <<outside, stop, regionDirty, pool, held, asked, size, target, conn,
                   fresh, retries, encoder>>

-----------------------------------------------------------------------------
(* The encode thread.                                                      *)

capture == <<pc, held, asked, size, target, birth, conn, fresh, retries, result>>

Take ==
    /\ epc = "Take"
    /\ \/ /\ slot # NoFrame
          /\ encoding' = slot /\ slot' = NoFrame /\ epc' = "Fit"
       \/ /\ slot = NoFrame /\ poolStop
          /\ epc' = "Ended" /\ UNCHANGED <<slot, encoding>>
    /\ UNCHANGED <<outside, stop, regionDirty, free, poolStop, generation, capture,
                   pipe, pins>>

\* Mutant of Fits: the pipeline is kept for every frame of its size.
FitsSize(f) == pipe # NoPipe /\ pipe.size = f.size

\* The pipeline was made for the frame's size and surfaces.
Fits(f) == pipe = [size |-> f.size, gen |-> f.gen]

\* A pipeline reshaped or rebuilt lets go of the memory it registered with the
\* device, by address; the surfaces of one index share an address.
Fit ==
    /\ epc = "Fit"
    /\ epc' = "Read"
    /\ IF Fits(encoding)
       THEN UNCHANGED <<pipe, pins>>
       ELSE /\ pipe' = [size |-> encoding.size, gen |-> encoding.gen]
            /\ pins' = [i \in Idx |-> None]
    /\ UNCHANGED <<outside, stop, regionDirty, pool, capture, encoding>>

\* process reads the surface, registering it on first use, and recycle.
Encode ==
    /\ epc = "Read"
    /\ pins' = [pins EXCEPT ![encoding.idx] = IF @ = None THEN encoding.birth ELSE @]
    /\ free' = free \cup {encoding.idx}
    /\ encoding' = NoFrame /\ epc' = "Take"
    /\ UNCHANGED <<outside, stop, regionDirty, slot, poolStop, generation, capture, pipe>>

\* The encoder panics: its guard shuts the pool,
Panic ==
    /\ "Panic" \in Faults
    /\ epc \in {"Fit", "Read"}
    /\ epc' = "Panicking" /\ encoding' = NoFrame
    /\ poolStop' = TRUE
    /\ UNCHANGED <<outside, stop, regionDirty, free, slot, generation, capture, pipe,
                   pins>>

\* and stops the capture.
PanicStops ==
    /\ epc = "Panicking"
    /\ epc' = "Panicked" /\ stop' = TRUE
    /\ UNCHANGED <<outside, regionDirty, pool, capture, encoding, pipe, pins>>

-----------------------------------------------------------------------------
(* The outside: the X server and the owner of the capture.                 *)

threads == <<pool, capture, encoder>>
Change == changes < MaxChanges /\ changes' = changes + 1

RootResizes ==
    /\ Change /\ up
    /\ \E s \in Sizes \ {root} : root' = s
    /\ UNCHANGED <<server, up, region, stop, regionDirty, threads>>

ServerEnds ==
    /\ "Server" \in Faults /\ Change /\ up
    /\ up' = FALSE
    /\ UNCHANGED <<root, server, region, stop, regionDirty, threads>>

ServerStarts ==
    /\ ~up
    /\ up' = TRUE /\ server' = server + 1
    /\ \E s \in Sizes : root' = s
    /\ UNCHANGED <<region, changes, stop, regionDirty, threads>>

\* ScreenCapture::update_capture_region.
SetRegion ==
    /\ Change
    /\ \E r \in Regions \ {region} : region' = r
    /\ regionDirty' = TRUE
    /\ UNCHANGED <<root, server, up, stop, threads>>

RequestStop ==
    /\ Change /\ ~stop
    /\ stop' = TRUE
    /\ UNCHANGED <<root, server, up, region, regionDirty, threads>>

-----------------------------------------------------------------------------
CaptureStep ==
    \/ LoopStopped \/ ApplyRegion \/ PollGeometry
    \/ Reclaim \/ DrainStopped \/ Resized \/ Acquire \/ GrabFrame \/ GrabFails
    \/ Reconnect \/ Reconnected \/ Publish \/ Join
EncodeStep == Take \/ Fit \/ Encode \/ PanicStops
Outside == RootResizes \/ ServerEnds \/ ServerStarts \/ SetRegion \/ RequestStop

\* A capture that ended stays so.
Ended == pc = "Done" /\ UNCHANGED vars

Next == CaptureStep \/ EncodeStep \/ Panic \/ Outside \/ Ended

\* Both threads run; nothing says the server comes back or that a stop is asked.
Spec == Init /\ [][Next]_vars /\ WF_vars(CaptureStep) /\ WF_vars(EncodeStep)

-----------------------------------------------------------------------------
(* Properties.                                                             *)

\* No surface is destroyed while the encode thread reads a frame in it
\* (drain_for_resize; the join ahead of the teardown), and the encoder reads it
\* through a registration of its own memory, not of a destroyed surface that
\* had the address (the generation of FramePool).
ReadsLive ==
    /\ encoding # NoFrame => encoding.birth = birth
    /\ epc = "Read" => pins[encoding.idx] \in {None, encoding.birth}

\* A surface is free, captured into, published or read, and only one of them:
\* the capture never writes under the encoder, and none is lost while it lives.
SurfacesConserved ==
    LET places == <<free, {held}, {slot.idx}, {encoding.idx}>>
        In(i) == {k \in DOMAIN places : i \in places[k]}
    IN  \A i \in Idx : /\ Cardinality(In(i)) <= 1
                       /\ epc \notin {"Panicking", "Panicked"} => In(i) # {}

\* A root that shrinks under the region is followed before the grabs run out:
\* the capture only reconnects where its connection is gone.
ShrinkIsFollowed == pc = "Reconnect" => ~Answers

\* The capture goes on publishing or ends, and ends once it is stopped: it hangs
\* neither on an encoder that died, nor on a server that stays away, nor in any
\* of its waits.
StreamsOrEnds == []<>((pc = "Publish" /\ ~stop) \/ pc = "Done")
=============================================================================
