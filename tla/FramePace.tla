------------------------------- MODULE FramePace -------------------------------
(***************************************************************************)
(* The pacing of a capture in windows (pace.rs FramePace::windowed) under  *)
(* the loops that use it: an X11 capture thread that sleeps until it may   *)
(* take a change and then watches for one (wait_for_frame), and the        *)
(* compositor, whose frame timer is armed only when it fires and which     *)
(* serves a change as it lands (serve_changes), compositing itself or      *)
(* publishing the frames of a host compositor.  There is no clock: every   *)
(* instant is kept as what it is from now, and time moves them all.        *)
(***************************************************************************)
EXTENDS Integers, FiniteSetsExt

CONSTANTS
    Loops,    \* the loops to run: "shm", "undamaged", "dri3", "compositor", "host"
    Periods,  \* the frame periods each one's rates may have
    Slack,    \* how early the timer's tick may run, a tenth of a period
    MaxLate   \* bound: how late each one comes to what it has to do

PaceAssumption ==
    /\ Loops \subseteq {"shm", "undamaged", "dri3", "compositor", "host"}
    /\ Slack \in Nat /\ MaxLate \in [Loops -> Nat]
    /\ DOMAIN Periods = Loops
    /\ \A l \in Loops :
           /\ IsFiniteSet(Periods[l]) /\ Periods[l] # {}
           /\ \A p \in Periods[l] : p \in Nat /\ 2 * Slack < p

VARIABLES
    loop,      \* which loop; never changes
    streaming, \* video_streaming_mode; never changes
    target,    \* the period of the rate that was set last
    period,    \* the one the loop runs at
    pace,      \* the FramePace
    wake,      \* time until the loop looks again by itself
    pending,   \* a change waits: change_pending, or the X server's report
    busy,      \* the encode pool has no buffer to render into
    queue,     \* the host's newest frame, of the capture's size or of another
    note,      \* the host's wake for it, not yet handled
    late,      \* for how long the loop has had something to do
    level,     \* history: time the frames so far are worth beyond the time they took
    debt,      \* history: time that passed beyond what the frames are worth
    lapsed,    \* history: a window passed whole without a tick, and debt is not kept
    waited,    \* history: for how long a change has waited with its window open
    spun       \* history: what the timer was kept close for while the pool had a buffer

vars == <<loop, streaming, target, period, pace, wake, pending, busy, queue, note, late,
          level, debt, lapsed, waited, spun>>
history == <<level, debt, lapsed, waited, spun>>

Longest == Max(Periods[loop])
X11Loops == {"shm", "undamaged", "dri3"}

\* The loops whose every tick sends a frame.
KeepsRate == loop \in {"shm", "undamaged", "compositor"}

\* An instant so long past that none is the same.
LongPast == -4 * Longest

\* Without a frame for so long a host counts as quiet; a longer time is the same.
Quiet == (3 * Longest + 1) \div 2

Paces ==
    [started : BOOLEAN, end : LongPast .. 3 * Longest, held : LongPast .. 3 * Longest,
     since : 0 .. Quiet]

TypeOK ==
    /\ loop \in Loops /\ {target, period} \subseteq Periods[loop]
    /\ pace \in Paces
    /\ wake \in 0 .. 2 * Longest
    /\ {streaming, pending, busy, note, lapsed} \subseteq BOOLEAN
    /\ queue \in {"none", "fits", "other"}
    /\ late \in 0 .. MaxLate[loop]
    /\ {level, debt} \subseteq 0 .. 4 * Longest
    /\ waited \in -1 .. MaxLate[loop] + 2 * Longest
    /\ spun \subseteq {"misfit", "idle"}

-----------------------------------------------------------------------------
(***************************************************************************)
(* The FramePace: whether a frame was ever counted (window_end is Some),   *)
(* where the last period a frame closed ends, where the timer is held off  *)
(* to, and the time since the last frame (last_tick).                      *)
(***************************************************************************)
Fresh == [started |-> FALSE, end |-> 0, held |-> LongPast, since |-> 0]

PullAt(w) == w.end

NextDue(w, p) == Max({w.held, IF w.started THEN w.end + p ELSE 0})

Due(w, trigger, p) ==
    IF trigger = "Timer" THEN NextDue(w, p) <= Slack ELSE PullAt(w) <= 0

\* The last of the grid of windows from `first` on that is not after now.
LastPast(first, p) == first + p * ((0 - first) \div p)

\* A mutant of LateClose: the grid moves to the late tick.
LateCloseHere(scheduled, p) == 0

\* The window a late timer tick closes: only windows passed whole are given up.
LateClose(scheduled, p) == LastPast(scheduled, p)

\* A mutant of ClosedBy: a change closes the window its period's frame closed.
ClosedByEnd(w, p) == IF w.end >= 0 THEN w.end ELSE LastPast(w.end, p) + p

\* window_closed_by: the open window's end, or a later one's where windows went by.
ClosedBy(w, p) ==
    IF ~w.started THEN 0
    ELSE IF w.end + p >= 0 THEN w.end + p
    ELSE LET past == LastPast(w.end + p, p) IN IF past = 0 THEN 0 ELSE past + p

(***************************************************************************)
(* window_tick, which ticked and record_tick come to.                      *)
(***************************************************************************)
Ticked(w, trigger, p, sent) ==
    LET scheduled == NextDue(w, p)
        end ==
            IF trigger = "Timer"
            THEN IF scheduled >= 0 THEN scheduled ELSE LateClose(scheduled, p)
            ELSE IF ~sent THEN w.end
            ELSE IF w.started /\ scheduled < 0 /\ -p < scheduled THEN scheduled
            ELSE ClosedBy(w, p)
    IN  [started |-> w.started \/ trigger = "Timer" \/ sent,
         end |-> end,
         held |-> IF sent THEN LongPast ELSE w.held,
         since |-> IF sent THEN 0 ELSE w.since]

\* A mutant of NextWake: nothing waits, so the timer sleeps past the window's opening.
NextWakeDue(w, p, waiting) == IF waiting THEN Min({NextDue(w, p), PullAt(w)}) ELSE NextDue(w, p)

NextWake(w, p, waiting) ==
    IF waiting \/ PullAt(w) > 0 THEN Min({NextDue(w, p), PullAt(w)}) ELSE NextDue(w, p)

\* A unit of time.  A window long past is as good as a later one of its grid.
Later(w) ==
    [w EXCEPT
        !.end = IF ~w.started THEN 0
                ELSE IF w.end - 1 < -3 * period THEN w.end - 1 + period ELSE w.end - 1,
        !.held = Max({LongPast, @ - 1}),
        !.since = IF loop = "host" THEN Min({Quiet, @ + 1}) ELSE 0]

-----------------------------------------------------------------------------
Init ==
    /\ loop \in Loops
    /\ streaming \in BOOLEAN /\ (loop # "host" => streaming)
    /\ target \in Periods[loop] /\ period = target
    /\ pace = Fresh
    /\ wake = 0 /\ pending = FALSE /\ busy = FALSE
    /\ queue = "none" /\ note = FALSE
    /\ late = 0 /\ level = 0 /\ debt = 0 /\ lapsed = FALSE /\ waited = 0 /\ spun = {}

\* A change waits, and there is a picture to show it with.
Showable(change, newest) == change /\ (loop = "host" => newest = "fits")

\* What `waited` is for a change that a full pool held up.
HeldUp == -1

\* A window of the rate that now runs went by whole without a tick.
Lapses == lapsed' = (lapsed \/ (KeepsRate /\ NextDue(pace', period') <= -period'))

\* What `frames` frames add to the history.
Counted(frames) ==
    /\ level' = Min({4 * Longest, level + frames * period})
    /\ debt' = Max({0, debt - frames * period})
    /\ waited' = IF Showable(pending', queue') THEN waited ELSE 0
    /\ late' = 0

(***************************************************************************)
(* The X11 capture threads.  The tick spends the report ahead of its grab; *)
(* then the loop reads the rate, and sleeps until it may take a change or, *)
(* where the server reports none, until the timer.                         *)
(***************************************************************************)
SleepsUntil(w, p) ==
    IF loop = "undamaged" THEN NextDue(w, p) ELSE Min({NextDue(w, p), PullAt(w)})

MayWatch(trigger) ==
    /\ wake = 0
    /\ \/ trigger = "Damage" /\ pending /\ loop # "undamaged"
       \/ trigger = "Timer" /\ NextDue(pace, period) <= 0

Grab(trigger, sent) ==
    /\ loop \in X11Loops /\ MayWatch(trigger)
    /\ ~sent => loop = "dri3"
    /\ pace' = Ticked(pace, trigger, period, sent)
    /\ pending' = FALSE /\ queue' = queue
    /\ period' = target
    /\ wake' = Max({0, SleepsUntil(pace', period')})
    /\ Counted(IF sent THEN 1 ELSE 0) /\ Lapses
    /\ UNCHANGED <<loop, streaming, target, busy, note, spun>>

Report ==
    /\ loop \in X11Loops /\ ~pending
    /\ pending' = TRUE
    /\ UNCHANGED <<loop, streaming, target, period, pace, wake, busy, queue, note, late, history>>

-----------------------------------------------------------------------------
(***************************************************************************)
(* The compositor.  render_node_tick, from what the loop holds to what it  *)
(* then holds: nothing where the trigger is not due or the pool is full;   *)
(* under host capture nothing is published, and the timer is held off,     *)
(* without a frame of the host or another reason (a key frame, a moving    *)
(* watermark, a host that went quiet while streaming).                     *)
(***************************************************************************)
Held == [w |-> pace, pending |-> pending, queue |-> queue, frames |-> 0]

HostQuiet(w) == 2 * w.since >= 3 * period

Publishes(x, wanted) ==
    loop # "host" \/ x.queue = "fits" \/ wanted
        \/ (streaming /\ (HostQuiet(x.w) \/ ~x.w.started))

\* A mutant of HoldOff: the deferral is forgotten, and the timer is due again at once.
HoldOffNot(w) == w

HoldOff(w) ==
    LET after == IF ~streaming THEN period
                 ELSE IF w.started THEN (3 * period) \div 2 - w.since
                 ELSE 0
    IN  [w EXCEPT !.held = Max({1, after})]

Rendered(x, trigger, full, wanted) ==
    IF ~Due(x.w, trigger, period) \/ full THEN x
    ELSE IF Publishes(x, wanted)
    THEN [w |-> Ticked(x.w, trigger, period, TRUE), pending |-> FALSE, queue |-> "none",
          frames |-> x.frames + 1]
    ELSE [x EXCEPT !.w = HoldOff(@), !.queue = "none"]

Served(x, full, wanted) == IF x.pending THEN Rendered(x, "Damage", full, wanted) ELSE x

Becomes(x) ==
    /\ pace' = x.w /\ pending' = x.pending /\ queue' = x.queue
    /\ Counted(x.frames) /\ UNCHANGED lapsed

\* A change marked for a host's frame that could not be shown, and is gone.
Misfit(x) == loop = "host" /\ x.pending /\ x.queue = "none"

\* The frame timer: serve_changes, render_pass, and when it next has to fire.
Fire ==
    /\ loop \notin X11Loops /\ wake = 0
    /\ \E full, wanted \in BOOLEAN :
           LET served == Served(Held, busy, wanted)
               passed == Rendered(served, "Timer", full, wanted)
               stuck == full /\ Due(served.w, "Timer", period)
           IN  /\ served.frames = 0 => full = busy
               /\ Becomes(passed)
               /\ busy' = full
               /\ wake' = IF stuck THEN 1
                          ELSE Max({1, NextWake(passed.w, period, passed.pending)})
               /\ spun' = IF busy \/ full \/ NextWake(passed.w, period, passed.pending) > 0
                          THEN spun
                          ELSE spun \cup {IF Misfit(passed) THEN "misfit" ELSE "idle"}
    /\ UNCHANGED <<loop, streaming, target, period, note>>

\* A client's commit, or input: marked, and served in the same turn of the loop.
Commit ==
    /\ loop = "compositor"
    /\ ~pending \/ (Due(pace, "Damage", period) /\ ~busy)
    /\ Becomes(Served([Held EXCEPT !.pending = TRUE], busy, FALSE))
    /\ UNCHANGED <<loop, streaming, target, period, wake, busy, note, spun>>

\* Any other turn of the loop.
OtherTurn ==
    /\ loop \notin X11Loops /\ pending
    /\ Becomes(Served(Held, busy, FALSE))
    /\ UNCHANGED <<loop, streaming, target, period, wake, busy, note, spun>>

\* The host's thread queues a frame and wakes the loop.
HostFrame(size) ==
    /\ loop = "host"
    /\ queue' = size /\ note' = TRUE
    /\ waited' = IF size = "fits" THEN waited ELSE 0
    /\ UNCHANGED <<loop, streaming, target, period, pace, wake, pending, busy, late,
                   level, debt, lapsed, spun>>

\* A wake the timer already served finds nothing queued and does nothing.
HostWake ==
    /\ note /\ note' = FALSE
    /\ Becomes(IF queue = "none" THEN Held
               ELSE Rendered([Held EXCEPT !.pending = TRUE], "HostFrame", busy, FALSE))
    /\ UNCHANGED <<loop, streaming, target, period, wake, busy, spun>>

\* The encode thread takes the pool's buffers, or gives one back.
Turn ==
    /\ loop \notin X11Loops
    /\ busy' = ~busy
    /\ waited' = IF Showable(pending, queue) THEN HeldUp ELSE 0
    /\ UNCHANGED <<loop, streaming, target, period, pace, wake, pending, queue, note, late,
                   level, debt, lapsed, spun>>

-----------------------------------------------------------------------------
\* UpdateRate: the compositor's loop has it at once, an X11 one at its next turn.
SetRate(p) ==
    /\ p # target /\ target' = p
    /\ period' = IF loop \in X11Loops THEN period ELSE p
    /\ UNCHANGED <<loop, streaming, pace, wake, pending, busy, queue, note, late, level, debt,
                   waited, spun>>
    /\ Lapses

HasToAct ==
    \/ note
    \/ wake = 0 /\ (loop \in X11Loops => MayWatch("Damage") \/ MayWatch("Timer"))

Pass ==
    /\ HasToAct => late < MaxLate[loop]
    /\ late' = IF HasToAct THEN late + 1 ELSE 0
    /\ pace' = Later(pace)
    /\ wake' = Max({0, wake - 1})
    /\ level' = Max({0, level - 1})
    /\ debt' = IF pace.started /\ KeepsRate /\ ~lapsed THEN debt + 1 ELSE 0
    /\ waited' = IF ~Showable(pending, queue) THEN 0
                 ELSE IF waited = HeldUp \/ busy \/ PullAt(pace) > 0 THEN waited
                 ELSE waited + 1
    /\ UNCHANGED <<loop, streaming, target, period, pending, busy, queue, note, spun>>
    /\ Lapses

Next ==
    \/ \E trigger \in {"Damage", "Timer"}, sent \in BOOLEAN : Grab(trigger, sent)
    \/ Report \/ Fire \/ Commit \/ OtherTurn \/ HostWake \/ Turn \/ Pass
    \/ \E size \in {"fits", "other"} : HostFrame(size)
    \/ \E p \in Periods[loop] : SetRate(p)

Spec == Init /\ [][Next]_vars

-----------------------------------------------------------------------------
\* The rate a display was given is the rate it streams at (window_tick's comment,
\* pace.rs:154-162): whatever changes when and however late the ticks run, the frames
\* sent are worth three periods more than the time they took at most, and, where
\* every tick sends one and no window passed whole, three less.  And the timer is not
\* kept close, one millisecond after another, by a change it can do nothing for
\* (defer, pace.rs:344-346), the frame of a host whose size is not the capture's apart.
PaceHolds ==
    /\ level <= 3 * Longest
    /\ debt <= 3 * Longest
    /\ spun \subseteq {"misfit"}

\* A change is published at once or as the next window opens (windowed, pace.rs:123-131):
\* one that no full pool held up waits in an open window for no longer than the loop
\* comes late, and, after the rate was raised, than the periods differ.  A server that
\* reports no damage is looked at once a period, and under a host's capture the timer
\* may sleep half as much again.
ChangeIsShown ==
    waited <= MaxLate[loop] + (CASE loop = "host" -> (3 * Longest) \div 2
                                 [] loop = "undamaged" -> Longest
                                 [] OTHER -> Longest - Min(Periods[loop]))

=============================================================================
