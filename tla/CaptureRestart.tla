---------------------------- MODULE CaptureRestart ----------------------------
(***************************************************************************)
(* Starting, restarting, demoting and stopping the Wayland capture of one  *)
(* display (lib.rs: start_capture_on_display, stop_capture_on_display,     *)
(* teardown_capture, the demotion of a zero-copy session, the Barrier):    *)
(* what the threads left behind still do while their successors run.       *)
(*                                                                         *)
(* A capture has an encode thread (a second one once demoted), a delivery  *)
(* thread in front of Python, and a recording socket at one path.  A       *)
(* zero-copy capture shows a host compositor, whose buffers it borrows.    *)
(* What is encoded and why is WaylandEncode's, the buffers are             *)
(* WlFramePool's.                                                          *)
(***************************************************************************)
EXTENDS Naturals, Sequences

CONSTANTS
    MaxCaptures, MaxFrames,  \* bounds: captures started, frames published,
    MaxHosts                 \*   and frames of the host

Captures == 1 .. MaxCaptures
Threads == Captures \X {"first", "demoted"}
NoThread == <<>>

Frame == [of : Captures, n : 1 .. MaxFrames, host : 0 .. MaxHosts, torn : BOOLEAN]

VARIABLES
    capture,   \* node.capture, 0 without one
    starts,    \* captures started
    stopping,  \* the calloop: "no", "restarting" past the teardown, "barrier"
    prior,     \* restarting: the encode thread taken from the old capture
    demoted,   \* whether the capture was demoted to readback
    zero,      \* per capture: it started with a zero-copy session
    since,     \* per capture: the first of those it restarts, itself after a stop
    pred,      \* per encode thread: WlEncodeConfig::predecessor
    at,        \* where it is
    stop,      \* its pool is shut down
    slot,      \* its pool's slot
    hand,      \* the frame it holds
    taken,     \* its zero-copy session was taken by a restart
    sink,      \* it has upgraded recording_sink, and holds it
    dpred,     \* per delivery thread: predecessor
    dat,       \* where it is
    discard,   \* deliver_discard
    channel,   \* deliver_tx's channel
    calling,   \* the frame it calls Python with
    encodeReaper, deliverReaper,  \* the threads in them
    bound,     \* the capture whose sink's socket stands at the path, or 0
    published, recycled,  \* the capture's: WlCapture::published, stats.recycled
    frames,    \* frames published in all
    hosts,     \* frames the host lent
    retained, retainedUse,  \* its retained frame, host_retained_use
    inflight,  \* host_inflight
    back,      \* history: host frames handed back
    python,    \* history: the last frame Python was called with, for each
               \*   capture and those that took its place
    fenced     \* history: the Barrier has answered, and nothing started since

calloop == <<capture, starts, stopping, prior, demoted, zero, since>>
thread == <<pred, at, hand, taken, sink>>
pool == <<stop, slot>>
delivery == <<dpred, dat, discard, channel, calling, python>>
reaper == <<encodeReaper, deliverReaper>>
lease == <<published, frames, hosts, retained, retainedUse, inflight, back>>
vars == <<calloop, thread, pool, delivery, lease, reaper, bound, recycled, fenced>>

TypeOK ==
    /\ capture \in 0 .. starts /\ starts \in 0 .. MaxCaptures
    /\ stopping \in {"no", "restarting", "barrier"}
    /\ prior \in Threads \cup {NoThread} /\ demoted \in BOOLEAN
    /\ zero \in [Captures -> BOOLEAN] /\ since \in [Captures -> 0 .. MaxCaptures]
    /\ pred \in [Threads -> Threads \cup {NoThread}]
    /\ at \in [Threads -> {"none", "joining", "taking", "locking", "encoding",
                           "sending", "ended"}]
    /\ {stop, taken, sink} \subseteq [Threads -> BOOLEAN]
    /\ {slot, hand} \subseteq [Threads -> UNION {[1 .. k -> Frame] : k \in {0, 1}}]
    /\ dpred \in [Captures -> 0 .. MaxCaptures]
    /\ dat \in [Captures -> {"none", "joining", "receiving", "ended"}]
    /\ discard \in [Captures -> BOOLEAN]
    /\ {channel, calling, python} \subseteq [Captures -> UNION {[1 .. k -> Frame] : k \in {0, 1}}]
    /\ encodeReaper \subseteq Threads /\ deliverReaper \subseteq Captures
    /\ bound \in 0 .. starts
    /\ {published, recycled} \subseteq 0 .. MaxFrames
    /\ frames \in 0 .. MaxFrames /\ hosts \in 0 .. MaxHosts
    /\ retained \in 0 .. hosts /\ retainedUse \in 0 .. MaxFrames
    /\ inflight \subseteq (0 .. MaxFrames) \X (1 .. hosts)
    /\ back \subseteq 1 .. hosts /\ fenced \in BOOLEAN

Init ==
    /\ capture = 0 /\ starts = 0 /\ stopping = "no" /\ prior = NoThread
    /\ demoted = FALSE
    /\ zero = [c \in Captures |-> FALSE] /\ since = [c \in Captures |-> 0]
    /\ pred = [t \in Threads |-> NoThread] /\ at = [t \in Threads |-> "none"]
    /\ stop = [t \in Threads |-> FALSE] /\ slot = [t \in Threads |-> <<>>]
    /\ hand = [t \in Threads |-> <<>>] /\ taken = [t \in Threads |-> FALSE]
    /\ sink = [t \in Threads |-> FALSE]
    /\ dpred = [c \in Captures |-> 0] /\ dat = [c \in Captures |-> "none"]
    /\ discard = [c \in Captures |-> FALSE]
    /\ channel = [c \in Captures |-> <<>>] /\ calling = [c \in Captures |-> <<>>]
    /\ python = [c \in Captures |-> <<>>]
    /\ encodeReaper = {} /\ deliverReaper = {} /\ bound = 0
    /\ published = 0 /\ recycled = 0
    /\ frames = 0 /\ hosts = 0 /\ retained = 0 /\ retainedUse = 0
    /\ inflight = {} /\ back = {} /\ fenced = FALSE

-----------------------------------------------------------------------------
(* The calloop.                                                            *)

Running == capture # 0 /\ stopping = "no"

\* encode_join, and whether it drives a zero-copy session.
Encoder == <<capture, IF demoted THEN "demoted" ELSE "first">>
ZeroCopy == zero[capture] /\ ~demoted

\* Whether t encodes with a session of the calloop's.
Shares(t) == zero[t[1]] /\ t[2] = "first"

\* The last strong reference to a sink removes whatever stands at the path.
Unbound(c) == IF \E t \in Threads : t[1] = c /\ sink[t] THEN bound ELSE 0

\* release_host_inflight, of what the encode thread is done with or of all.
Release(lent, done) ==
    LET free == {loan \in lent : loan[1] <= done} IN
    /\ inflight' = lent \ free
    /\ back' = back \cup {loan[2] : loan \in free}

ReleaseAll(lent) == Release(lent, MaxFrames)

\* Mutant of Teardown: the frame pool is left open.
TeardownOpen ==
    /\ discard' = [discard EXCEPT ![capture] = TRUE]
    /\ bound' = Unbound(capture)
    /\ capture' = 0
    /\ UNCHANGED stop

\* teardown_capture.
Teardown ==
    /\ stop' = [stop EXCEPT ![Encoder] = TRUE]
    /\ discard' = [discard EXCEPT ![capture] = TRUE]
    /\ bound' = Unbound(capture)
    /\ capture' = 0

\* Mutant of LeftToReaper: the delivery thread's handle is dropped.
LeftToReaperNot == {}

\* The delivery thread a stop leaves to the reaper, its encode thread with it.
LeftToReaper == {capture}

\* stop_capture_on_display.
Stop ==
    /\ Running
    /\ Teardown
    /\ ReleaseAll(inflight)
    /\ encodeReaper' = encodeReaper \cup {Encoder}
    /\ deliverReaper' = deliverReaper \cup LeftToReaper
    /\ UNCHANGED <<starts, stopping, prior, demoted, zero, since, thread, slot, dpred, dat,
                   channel, calling, python, published, frames, hosts, retained,
                   retainedUse, recycled, fenced>>

\* start_capture_on_display over a running capture, up to the old session's lock.
BeginRestart ==
    /\ Running /\ starts < MaxCaptures
    /\ Teardown
    /\ stopping' = "restarting" /\ prior' = Encoder
    /\ UNCHANGED <<starts, demoted, zero, since, thread, slot, dpred, dat, channel, calling,
                   python, lease, reaper, recycled, fenced>>

\* Mutant of Joins: no thread waits for the one before it.
JoinsNothing(old) == "taking"

\* Where a new encode thread begins.
Joins(old) == IF old = NoThread THEN "taking" ELSE "joining"

\* The rest of a start, after `old` or afresh: the sink is bound, the delivery
\* thread joins its predecessor, and so does a readback's encode thread; a
\* zero-copy one leaves its predecessor to the reaper.
Launch(old, readback) ==
    LET c == starts + 1
        t == <<c, "first">>
        joined == IF readback THEN old ELSE NoThread
    IN
    /\ capture' = c /\ starts' = c
    /\ zero' = [zero EXCEPT ![c] = ~readback] /\ demoted' = FALSE
    /\ since' = [since EXCEPT ![c] = IF old = NoThread THEN c ELSE since[old[1]]]
    /\ bound' = c
    /\ dpred' = [dpred EXCEPT ![c] = IF old = NoThread THEN 0 ELSE old[1]]
    /\ dat' = [dat EXCEPT ![c] = IF old = NoThread THEN "receiving" ELSE "joining"]
    /\ pred' = [pred EXCEPT ![t] = joined]
    /\ at' = [at EXCEPT ![t] = Joins(joined)]
    /\ encodeReaper' = encodeReaper \cup ({old} \ {joined, NoThread})
    /\ published' = 0 /\ recycled' = 0 /\ retainedUse' = 0 /\ fenced' = FALSE

\* start_capture_on_display of a display without a capture.
Start ==
    /\ capture = 0 /\ stopping = "no" /\ starts < MaxCaptures
    /\ \E readback \in BOOLEAN : Launch(NoThread, readback)
    /\ UNCHANGED <<stopping, prior, hand, taken, sink, pool, discard, channel, calling,
                   python, deliverReaper, frames, hosts, retained, inflight, back>>

\* A zero-copy session is taken back once no encode runs on it.
FinishRestart ==
    /\ stopping = "restarting" /\ stopping' = "no" /\ prior' = NoThread
    /\ Shares(prior) => at[prior] # "encoding"
    /\ taken' = [taken EXCEPT ![prior] = TRUE]
    /\ ReleaseAll(inflight)
    /\ \E readback \in BOOLEAN : Launch(prior, readback)
    /\ UNCHANGED <<hand, sink, pool, discard, channel, calling, python, deliverReaper,
                   frames, hosts, retained>>

\* A frame into the free slot; of a zero-copy one the encode reads the host's
\* buffer itself, a readback has copied it.
Publish ==
    /\ Running /\ frames < MaxFrames /\ slot[Encoder] = <<>>
    /\ LET host == IF ZeroCopy THEN retained ELSE 0 IN
       /\ slot' = [slot EXCEPT ![Encoder] =
                     <<[of |-> capture, n |-> frames + 1, host |-> host, torn |-> FALSE]>>]
       /\ published' = IF ZeroCopy THEN published + 1 ELSE published
       /\ retainedUse' = IF host # 0 THEN published' ELSE retainedUse
    /\ frames' = frames + 1
    /\ UNCHANGED <<calloop, thread, stop, delivery, hosts, retained, inflight, back, reaper,
                   bound, recycled, fenced>>

\* Mutant of Lent: the frame replaced goes back at its latest publish's start.
LentEarly == retainedUse - 1

\* The publish whose recycling frees the retained frame.
Lent == retainedUse

\* retain_host_frame, of the host's next frame under a zero-copy session; no
\* frame of a readback reads the host's buffers.
Retain ==
    /\ Running /\ ZeroCopy /\ hosts < MaxHosts
    /\ hosts' = hosts + 1 /\ retained' = hosts + 1 /\ retainedUse' = 0
    /\ Release(inflight \cup (IF retained = 0 THEN {} ELSE {<<Lent, retained>>}), recycled)
    /\ UNCHANGED <<calloop, thread, pool, delivery, published, frames, reaper, bound,
                   recycled, fenced>>

\* The tick hands back what was read in the meantime.  (Its joins of threads
\* that have ended leave the Barrier the others.)
Tick ==
    /\ Running
    /\ Release(inflight, recycled)
    /\ UNCHANGED <<calloop, thread, pool, delivery, published, frames, hosts, retained,
                   retainedUse, reaper, bound, recycled, fenced>>

\* The host's frames turn out to be software's: the zero-copy session ends for
\* a readback of the same capture, whose thread joins its.
Demote ==
    /\ Running /\ ZeroCopy /\ retained # 0 /\ retainedUse = 0
    /\ stop' = [stop EXCEPT ![Encoder] = TRUE]
    /\ ReleaseAll(inflight)
    /\ demoted' = TRUE
    /\ pred' = [pred EXCEPT ![<<capture, "demoted">>] = Encoder]
    /\ at' = [at EXCEPT ![<<capture, "demoted">>] = Joins(Encoder)]
    /\ UNCHANGED <<capture, starts, stopping, prior, zero, since, hand, taken, sink, slot,
                   delivery, published, frames, hosts, retained, retainedUse, reaper, bound,
                   recycled, fenced>>

\* The Barrier of the shutdown, which has sent its stops: it joins every reaped
\* thread, then answers.
Barrier ==
    /\ stopping = "no" /\ capture = 0 /\ stopping' = "barrier"
    /\ UNCHANGED <<capture, starts, prior, demoted, zero, since, thread, pool, delivery,
                   lease, reaper, bound, recycled, fenced>>

Answer ==
    /\ stopping = "barrier" /\ stopping' = "no"
    /\ \A t \in encodeReaper : at[t] = "ended"
    /\ \A c \in deliverReaper : dat[c] = "ended"
    /\ encodeReaper' = {} /\ deliverReaper' = {} /\ fenced' = TRUE
    /\ UNCHANGED <<capture, starts, prior, demoted, zero, since, thread, pool, delivery,
                   lease, bound, recycled>>

-----------------------------------------------------------------------------
(* An encode thread.                                                       *)

To(t, place) == at[t] # place /\ at' = [at EXCEPT ![t] = place]

\* A thread that lets its sink go unbinds it where it was the last.
LetGo(t) ==
    /\ sink' = [sink EXCEPT ![t] = FALSE]
    /\ bound' = IF sink[t] /\ capture # t[1]
                   /\ ~\E o \in Threads \ {t} : o[1] = t[1] /\ sink[o]
                THEN 0 ELSE bound

\* The handle of the predecessor, joined.
Join(t) ==
    /\ at[t] = "joining" /\ at[pred[t]] = "ended"
    /\ To(t, "taking")
    /\ UNCHANGED <<calloop, pred, hand, taken, sink, pool, delivery, lease, reaper, bound,
                   recycled, fenced>>

\* take: the frame in the slot, published before the shutdown or not.
Take(t) ==
    /\ at[t] = "taking"
    /\ \/ slot[t] # <<>> /\ To(t, "locking")
       \/ slot[t] = <<>> /\ stop[t] /\ To(t, "ended")
    /\ hand' = [hand EXCEPT ![t] = slot[t]] /\ slot' = [slot EXCEPT ![t] = <<>>]
    /\ UNCHANGED <<calloop, pred, taken, sink, stop, delivery, lease, reaper, bound, recycled,
                   fenced>>

\* The session's lock, and the sink while its capture stands; a session taken
\* by a restart leaves nothing to encode with.
Lock(t) ==
    /\ at[t] = "locking"
    /\ IF taken[t] /\ Shares(t)
       THEN /\ To(t, "ended") /\ hand' = [hand EXCEPT ![t] = <<>>]
            /\ UNCHANGED sink
       ELSE /\ To(t, "encoding") /\ sink' = [sink EXCEPT ![t] = (capture = t[1])]
            /\ UNCHANGED hand
    /\ UNCHANGED <<calloop, pred, taken, pool, delivery, lease, reaper, bound, recycled,
                   fenced>>

\* A host buffer may be drawn over as soon as it is back.
Read(frame) == [frame EXCEPT !.torn = frame.host \in back, !.host = 0]

\* The encode, its buffer recycled and counted in its capture's stats.
Encode(t) ==
    /\ at[t] = "encoding"
    /\ To(t, "sending") /\ hand' = [hand EXCEPT ![t] = <<Read(Head(@))>>]
    /\ recycled' = IF t[1] = capture THEN recycled + 1 ELSE recycled
    /\ UNCHANGED <<calloop, pred, taken, sink, pool, delivery, lease, reaper, bound, fenced>>

\* send, which waits for room in the channel.
Send(t) ==
    /\ at[t] = "sending" /\ channel[t[1]] = <<>>
    /\ To(t, "taking")
    /\ channel' = [channel EXCEPT ![t[1]] = hand[t]] /\ hand' = [hand EXCEPT ![t] = <<>>]
    /\ LetGo(t)
    /\ UNCHANGED <<calloop, pred, taken, pool, dpred, dat, discard, calling, python, lease,
                   reaper, recycled, fenced>>

-----------------------------------------------------------------------------
(* A delivery thread.                                                      *)

\* Mutant of JoinDelivery: it waits for nobody.
JoinDeliveryNow(c) ==
    /\ dat[c] = "joining"
    /\ dat' = [dat EXCEPT ![c] = "receiving"]
    /\ UNCHANGED <<calloop, thread, pool, dpred, discard, channel, calling, python, lease,
                   reaper, bound, recycled, fenced>>

JoinDelivery(c) ==
    /\ dat[c] = "joining" /\ dat[dpred[c]] = "ended"
    /\ dat' = [dat EXCEPT ![c] = "receiving"]
    /\ UNCHANGED <<calloop, thread, pool, dpred, discard, channel, calling, python, lease,
                   reaper, bound, recycled, fenced>>

\* Mutant of Discards: what is in the channel at the teardown is delivered.
DiscardsNothing(c) == FALSE

Discards(c) == discard[c]

\* recv, and the frame thrown away once the capture is torn down.
Receive(c) ==
    /\ dat[c] = "receiving" /\ calling[c] = <<>> /\ channel[c] # <<>>
    /\ channel' = [channel EXCEPT ![c] = <<>>]
    /\ calling' = [calling EXCEPT ![c] = IF Discards(c) THEN <<>> ELSE channel[c]]
    /\ UNCHANGED <<calloop, thread, pool, dpred, dat, discard, python, lease, reaper, bound,
                   recycled, fenced>>

\* The callback, once the thread has the interpreter.
Call(c) ==
    /\ calling[c] # <<>>
    /\ python' = [python EXCEPT ![since[c]] = calling[c]]
    /\ calling' = [calling EXCEPT ![c] = <<>>]
    /\ UNCHANGED <<calloop, thread, pool, dpred, dat, discard, channel, lease, reaper, bound,
                   recycled, fenced>>

\* recv of a channel that nobody can send to any more.
Hangup(c) ==
    /\ dat[c] = "receiving" /\ calling[c] = <<>> /\ channel[c] = <<>>
    /\ discard[c] /\ \A t \in Threads : t[1] = c => at[t] \in {"none", "ended"}
    /\ dat' = [dat EXCEPT ![c] = "ended"]
    /\ UNCHANGED <<calloop, thread, pool, dpred, discard, channel, calling, python, lease,
                   reaper, bound, recycled, fenced>>

-----------------------------------------------------------------------------
EncodeStep(t) == Join(t) \/ Take(t) \/ Lock(t) \/ Encode(t) \/ Send(t)
DeliverStep(c) == JoinDelivery(c) \/ Receive(c) \/ Call(c) \/ Hangup(c)

ThreadStep ==
    \/ \E t \in Threads : EncodeStep(t)
    \/ \E c \in Captures : DeliverStep(c)

Next ==
    \/ Start \/ Stop \/ BeginRestart \/ FinishRestart \/ Publish \/ Retain \/ Tick
    \/ Demote \/ Barrier \/ Answer \/ ThreadStep

\* Every thread runs, Python's callback returns, and the calloop goes on.
Fairness ==
    /\ \A t \in Threads : WF_vars(EncodeStep(t))
    /\ \A c \in Captures : WF_vars(DeliverStep(c))
    /\ WF_vars(FinishRestart) /\ WF_vars(Answer)

RestartAssumption == MaxCaptures \in Nat /\ MaxFrames \in Nat /\ MaxHosts \in Nat

Spec == Init /\ [][Next]_vars /\ Fairness

-----------------------------------------------------------------------------
(* Properties.                                                             *)

\* Frames reach Python in the order they were captured, across restarts and a
\* demotion: nothing of a capture comes after a frame of one that took its
\* place.
PythonInOrder ==
    [][\A c \in Captures :
         python[c] # <<>> => python'[c] = python[c] \/ python'[c][1].n > python[c][1].n]_vars

\* With the captures stopped the Barrier fences: no thread that could attach
\* to Python, or drop a session, is left once it has answered.
BarrierQuiet ==
    fenced => /\ \A t \in Threads : at[t] \in {"none", "ended"}
              /\ \A c \in Captures : dat[c] \in {"none", "ended"}

\* "the frame it replaces goes back to the host only once no frame in flight
\* to the encode thread reads it" (retain_host_frame): no frame reaches Python
\* that was read from a buffer the host had back.
FramesAreLent == \A c \in Captures : python[c] # <<>> => ~python[c][1].torn

\* Of a capture that was not demoted.
LentUntilDemoted ==
    \A c \in Captures :
        (python[c] # <<>> /\ at[<<python[c][1].of, "demoted">>] = "none")
            => ~python[c][1].torn

\* A capture that was torn down comes to its end, every thread of it, whatever
\* it waits for: its predecessors, a full channel, Python.
TornDownEnded ==
    \A c \in Captures :
        discard[c] => /\ dat[c] = "ended"
                      /\ \A t \in Threads : t[1] = c => at[t] \in {"none", "ended"}
TornDownEnds == []<>TornDownEnded

\* "dropping it here, before a following start binds its own sink, is what
\* keeps the outgoing sink's unlink from stripping the successor's socket
\* path.  The encode thread holds only a Weak" (teardown_capture): a running
\* capture's socket can be connected to.
SocketStands == capture # 0 => bound = capture

=============================================================================
