------------------------- MODULE CaptureLifecycle -------------------------
(***************************************************************************)
(* One ScreenCapture handle (lib.rs) whose X11 captures Python threads     *)
(* start and stop, from outside and from the callback a frame is delivered *)
(* to.  A call holds the interpreter's lock (the GIL) except while it      *)
(* waits: for the threads of the capture it stops, or for those of the     *)
(* capture it starts to be up.  Each capture has a capture thread and a    *)
(* delivery thread, with a channel of one frame in between; the delivery   *)
(* thread of capture c is the actor c, and calls as any Python thread may. *)
(***************************************************************************)
EXTENDS Naturals, FiniteSets

CONSTANTS
    Callers,      \* Python threads outside the captures
    MaxCaptures,  \* bound: captures ever launched
    MaxCalls,     \* bound: calls of start_capture and stop_capture
    MaxTimeouts   \* bound: waits that give up before what they wait for

ASSUME LifecycleAssumption ==
    /\ {MaxCaptures, MaxCalls, MaxTimeouts} \subseteq Nat
    /\ Callers \cap (0 .. MaxCaptures) = {}

None == 0
Captures == 1 .. MaxCaptures
Actors == Callers \cup Captures

VARIABLES
    gil,        \* who holds the interpreter's lock
    published,  \* st.controls with its handles and thread ids (st.backend = 1), by capture
    starting,   \* st.starting
    cursorRef,  \* st.cursor_ref
    users,      \* the cursor monitor's users
    live,       \* LIVE_X11
    stop,       \* Controls.stop of each capture
    told,       \* the capture's threads are up: etid_tx was used
    capture,    \* where the capture thread (with its encode thread) is
    queued,     \* the delivery channel holds a frame
    deliver,    \* where the delivery thread is
    pc,         \* where an actor's call is
    of,         \* the capture the call waits for
    launched, calls, timeouts, \* the bounded counters
    overtaken,  \* history: captures published over while they ran
    abandoned   \* history: captures a stop left to end by themselves

handle == <<published, starting, cursorRef, users>>
threads == <<told, capture, queued, deliver>>
bounds == <<launched, calls, timeouts>>
history == <<overtaken, abandoned>>
vars == <<gil, handle, live, stop, threads, pc, of, bounds, history>>

TypeOK ==
    /\ gil \in {None} \cup Actors
    /\ {published, starting} \subseteq {None} \cup Captures
    /\ cursorRef \in BOOLEAN
    /\ users \in 0 .. MaxCaptures
    /\ {live, overtaken, abandoned} \subseteq SUBSET Captures
    /\ {stop, told, queued} \subseteq [Captures -> BOOLEAN]
    /\ capture \in [Captures -> {"unspawned", "setup", "running", "sending", "ended"}]
    /\ deliver \in [Captures -> {"unspawned", "waiting", "attaching", "calling", "ended"}]
    /\ pc \in [Actors -> {"idle", "joining", "rejoining", "configuring", "awaiting", "late"}]
    /\ of \in [Actors -> {None} \cup Captures]
    /\ launched \in 0 .. MaxCaptures /\ calls \in 0 .. MaxCalls /\ timeouts \in 0 .. MaxTimeouts

Init ==
    /\ gil = None /\ published = None /\ starting = None
    /\ cursorRef = FALSE /\ users = 0 /\ live = {}
    /\ stop = [c \in Captures |-> FALSE] /\ told = stop /\ queued = stop
    /\ capture = [c \in Captures |-> "unspawned"] /\ deliver = capture
    /\ pc = [a \in Actors |-> "idle"] /\ of = [a \in Actors |-> None]
    /\ launched = 0 /\ calls = 0 /\ timeouts = 0
    /\ overtaken = {} /\ abandoned = {}

(***************************************************************************)
(* The capture's own threads.                                              *)
(***************************************************************************)

To(c, place) == capture' = [capture EXCEPT ![c] = place]

\* The encode thread is spawned and says its id.
SetUp(c) ==
    /\ capture[c] = "setup"
    /\ To(c, "running")
    /\ told' = [told EXCEPT ![c] = TRUE]
    /\ UNCHANGED <<gil, handle, live, stop, queued, deliver, pc, of, bounds, history>>

\* A frame is coded and handed to the channel, where it waits if the channel is full.
Code(c) ==
    /\ capture[c] = "running" /\ ~stop[c]
    /\ To(c, IF queued[c] THEN "sending" ELSE "running")
    /\ queued' = [queued EXCEPT ![c] = TRUE]
    /\ UNCHANGED <<gil, handle, live, stop, told, deliver, pc, of, bounds, history>>

Send(c) ==
    /\ capture[c] = "sending" /\ ~queued[c]
    /\ To(c, "running")
    /\ queued' = [queued EXCEPT ![c] = TRUE]
    /\ UNCHANGED <<gil, handle, live, stop, told, deliver, pc, of, bounds, history>>

End(c) ==
    /\ capture[c] = "running" /\ stop[c]
    /\ To(c, "ended")
    /\ UNCHANGED <<gil, handle, live, stop, told, queued, deliver, pc, of, bounds, history>>

\* The capture fails, before its threads are up or after: it flags its own stop.
Fail(c) ==
    /\ capture[c] \in {"setup", "running"}
    /\ To(c, "ended")
    /\ stop' = [stop EXCEPT ![c] = TRUE]
    /\ UNCHANGED <<gil, handle, live, told, queued, deliver, pc, of, bounds, history>>

\* Mutated: the delivery thread leaves what was queued before the stop.
ReceiveUnlessStopped(c) ==
    /\ deliver[c] = "waiting" /\ queued[c] /\ ~stop[c]
    /\ deliver' = [deliver EXCEPT ![c] = "attaching"]
    /\ queued' = [queued EXCEPT ![c] = FALSE]
    /\ UNCHANGED <<gil, handle, live, stop, told, capture, pc, of, bounds, history>>

Receive(c) ==
    /\ deliver[c] = "waiting" /\ queued[c]
    /\ deliver' = [deliver EXCEPT ![c] = "attaching"]
    /\ queued' = [queued EXCEPT ![c] = FALSE]
    /\ UNCHANGED <<gil, handle, live, stop, told, capture, pc, of, bounds, history>>

Attach(c) ==
    /\ deliver[c] = "attaching" /\ gil = None
    /\ gil' = c
    /\ deliver' = [deliver EXCEPT ![c] = "calling"]
    /\ UNCHANGED <<handle, live, stop, told, capture, queued, pc, of, bounds, history>>

CallbackReturns(c) ==
    /\ deliver[c] = "calling" /\ gil = c /\ pc[c] = "idle"
    /\ gil' = None
    /\ deliver' = [deliver EXCEPT ![c] = "waiting"]
    /\ UNCHANGED <<handle, live, stop, told, capture, queued, pc, of, bounds, history>>

\* The channel is closed by the end of the capture thread, and drained.
DeliveryEnds(c) ==
    /\ deliver[c] = "waiting" /\ ~queued[c] /\ capture[c] = "ended"
    /\ deliver' = [deliver EXCEPT ![c] = "ended"]
    /\ UNCHANGED <<gil, handle, live, stop, told, capture, queued, pc, of, bounds, history>>

(***************************************************************************)
(* The calls.  An actor runs with the interpreter's lock from the moment   *)
(* it calls to the moment it waits, and from the end of its wait.          *)
(***************************************************************************)

MayCall(a) ==
    /\ pc[a] = "idle" /\ calls < MaxCalls
    /\ gil = IF a \in Callers THEN None ELSE a

\* Who holds the interpreter's lock once a call of `a` returned: a callback goes on.
Holder(a) == IF a \in Callers THEN None ELSE a

\* The call comes from the delivery thread of the very capture it stops.
Reentrant(a) == a = published

\* The cursor monitor is joined, or the threads of the capture are.
Waits(a) == ~Reentrant(a) \/ (cursorRef /\ users <= 1)

\* Mutated: the reference is read, and not taken.
TakeCaptureNotRef ==
    /\ stop' = [c \in Captures |-> stop[c] \/ c \in {published, starting}]
    /\ published' = None /\ starting' = None
    /\ UNCHANGED cursorRef

\* The locked section of stop_internal: both captures are flagged, the handle emptied.
TakeCapture ==
    /\ stop' = [c \in Captures |-> stop[c] \/ c \in {published, starting}]
    /\ published' = None /\ starting' = None
    /\ cursorRef' = FALSE

\* Mutated: every stop gives a reference back, and the count does not saturate.
ReleaseCursorAlways == users' = users - 1

ReleaseCursor == users' = IF cursorRef /\ users > 0 THEN users - 1 ELSE users

StopInternal(a, waiting, done) ==
    /\ MayCall(a)
    /\ calls' = calls + 1
    /\ TakeCapture
    /\ live' = live \ {published}
    /\ ReleaseCursor
    /\ of' = [of EXCEPT ![a] = IF Reentrant(a) THEN None ELSE published]
    /\ pc' = [pc EXCEPT ![a] = IF Waits(a) THEN waiting ELSE done]
    /\ gil' = IF Waits(a) THEN None ELSE a
    /\ abandoned' = IF Reentrant(a) THEN abandoned \cup {published} ELSE abandoned
    /\ UNCHANGED <<threads, launched, timeouts, overtaken>>

StopCapture(a) == StopInternal(a, "joining", "idle")

StartCapture(a) == StopInternal(a, "rejoining", "configuring")

Ended(c) == capture[c] = "ended" /\ deliver[c] = "ended"

Joined(a) == \A c \in Captures : c = of[a] => Ended(c)

Return(a) ==
    /\ pc' = [pc EXCEPT ![a] = "idle"]
    /\ of' = [of EXCEPT ![a] = None]
    /\ gil' = Holder(a)

\* A stop, or a start that was superseded, is over; a start goes on.
AfterJoin(a) ==
    /\ gil = None
    /\ \/ pc[a] = "joining" /\ Return(a)
       \/ /\ pc[a] = "rejoining"
          /\ pc' = [pc EXCEPT ![a] = "configuring"]
          /\ of' = [of EXCEPT ![a] = None]
          /\ gil' = a
    /\ UNCHANGED <<handle, live, stop, threads, launched, calls, overtaken>>

Join(a) ==
    /\ Joined(a)
    /\ AfterJoin(a)
    /\ UNCHANGED <<timeouts, abandoned>>

JoinTimesOut(a) ==
    /\ ~Joined(a) /\ timeouts < MaxTimeouts
    /\ AfterJoin(a)
    /\ timeouts' = timeouts + 1
    /\ abandoned' = abandoned \cup {of[a]}

\* The settings are refused: the earlier capture is stopped all the same.
Refuse(a) ==
    /\ pc[a] = "configuring"
    /\ Return(a)
    /\ UNCHANGED <<handle, live, stop, threads, bounds, history>>

\* Mutated: the capture replaced in `starting` is not told to stop.
LaunchOver(a) ==
    LET c == launched + 1 IN
    /\ pc[a] = "configuring" /\ c \in Captures
    /\ launched' = c
    /\ live' = live \cup {c}
    /\ starting' = c
    /\ To(c, "setup")
    /\ deliver' = [deliver EXCEPT ![c] = "waiting"]
    /\ pc' = [pc EXCEPT ![a] = "awaiting"]
    /\ of' = [of EXCEPT ![a] = c]
    /\ gil' = None
    /\ UNCHANGED <<published, cursorRef, users, stop, told, queued, calls, timeouts, history>>

Launch(a) ==
    LET c == launched + 1 IN
    /\ pc[a] = "configuring" /\ c \in Captures
    /\ launched' = c
    /\ live' = live \cup {c}
    /\ starting' = c
    /\ stop' = [d \in Captures |-> stop[d] \/ d = starting]
    /\ To(c, "setup")
    /\ deliver' = [deliver EXCEPT ![c] = "waiting"]
    /\ pc' = [pc EXCEPT ![a] = "awaiting"]
    /\ of' = [of EXCEPT ![a] = c]
    /\ gil' = None
    /\ UNCHANGED <<published, cursorRef, users, told, queued, calls, timeouts, history>>

\* The threads are not up within two seconds: the start goes on without the id.
IdIsLate(a) ==
    /\ pc[a] = "awaiting" /\ capture[of[a]] = "setup" /\ timeouts < MaxTimeouts
    /\ pc' = [pc EXCEPT ![a] = "late"]
    /\ timeouts' = timeouts + 1
    /\ UNCHANGED <<gil, handle, live, stop, threads, of, launched, calls, history>>

IsUp(a) ==
    /\ gil = None
    /\ \/ pc[a] = "awaiting" /\ told[of[a]]
       \/ pc[a] = "late"

Publish(a) ==
    /\ IsUp(a) /\ starting = of[a]
    /\ starting' = None
    /\ users' = users + 1
    /\ cursorRef' = TRUE
    /\ published' = of[a]
    /\ overtaken' = overtaken \cup ({published} \ {None})
    /\ Return(a)
    /\ UNCHANGED <<live, stop, threads, bounds, abandoned>>

\* Mutated: the superseded capture's threads are not joined.
SupersededLeft(a) ==
    /\ IsUp(a) /\ starting # of[a]
    /\ live' = live \ {of[a]}
    /\ Return(a)
    /\ UNCHANGED <<handle, stop, threads, bounds, history>>

\* A stop or a newer start flagged this capture while it was starting: its start joins it.
Superseded(a) ==
    /\ IsUp(a) /\ starting # of[a]
    /\ live' = live \ {of[a]}
    /\ pc' = [pc EXCEPT ![a] = "joining"]
    /\ UNCHANGED <<gil, handle, stop, threads, of, bounds, history>>

\* The capture thread ended before its encode thread was spawned.
StartFails(a) ==
    /\ pc[a] = "awaiting" /\ gil = None
    /\ capture[of[a]] = "ended" /\ ~told[of[a]]
    /\ live' = live \ {of[a]}
    /\ starting' = IF starting = of[a] THEN None ELSE starting
    /\ Return(a)
    /\ UNCHANGED <<published, cursorRef, users, stop, threads, bounds, history>>

CaptureThread(c) == SetUp(c) \/ Send(c) \/ End(c)
DeliveryThread(c) == Receive(c) \/ CallbackReturns(c) \/ DeliveryEnds(c)
Proceeds(a) == Join(a) \/ Publish(a) \/ Superseded(a) \/ StartFails(a)
Configures(a) == Launch(a) \/ Refuse(a)

Next ==
    \/ \E c \in Captures : CaptureThread(c) \/ Code(c) \/ Fail(c) \/ DeliveryThread(c) \/ Attach(c)
    \/ \E a \in Actors : \/ StopCapture(a) \/ StartCapture(a)
                         \/ Proceeds(a) \/ Configures(a)
                         \/ JoinTimesOut(a) \/ IdIsLate(a)

(***************************************************************************)
(* The threads run, and the interpreter's lock goes round: a thread that   *)
(* wants it again and again is served.  No call, frame, failure or timeout *)
(* has to come.                                                            *)
(***************************************************************************)
Fairness ==
    /\ \A c \in Captures : /\ WF_vars(CaptureThread(c))
                           /\ WF_vars(DeliveryThread(c))
                           /\ SF_vars(Attach(c))
    /\ \A a \in Actors : SF_vars(Proceeds(a)) /\ WF_vars(Configures(a))

Spec == Init /\ [][Next]_vars
FairSpec == Spec /\ Fairness

(***************************************************************************)
(* Properties.                                                             *)
(***************************************************************************)

\* A capture that has not been told to stop can be: the handle holds it, published or
\* starting, and the sweep at the interpreter's end finds it.  The captures that two
\* concurrent starts publish one over the other are the only ones the handle loses.
RunningIsHeld ==
    \A c \in Captures : capture[c] # "unspawned" /\ ~stop[c] =>
        c \in live \cap ({published, starting} \cup overtaken)

\* The cursor monitor has one user for each capture that took a reference and has not
\* given it back: the one published, and those published over.
CursorIsPaired ==
    /\ users = Cardinality(overtaken) + (IF published = None THEN 0 ELSE 1)
    /\ cursorRef <=> published # None

\* What the comment on cursor_ref (lib.rs 9191-9198) says of the references: they pair
\* exactly per capture, so an idle handle holds none.
CursorIsReleased == published = None => users = 0

\* When every call has returned and nothing is published, no callback comes any more from
\* a capture that was not left to itself by a timeout or a stop in its own callback.
IdleIsQuiet ==
    (published = None /\ \A a \in Actors : pc[a] = "idle") =>
        \A c \in 1 .. launched \ (abandoned \cup overtaken) :
            ~queued[c] /\ deliver[c] \in {"waiting", "ended"} /\ capture[c] = "ended"

\* Calls of start_capture and stop_capture return without any wait having to give up, and
\* a capture told to stop ends with its delivery, whoever told it and from where: as calls
\* are bounded, the handle comes to rest for good.
ComesToRest ==
    <>[](/\ \A a \in Actors : pc[a] = "idle"
         /\ \A c \in Captures : stop[c] => Ended(c))
====
