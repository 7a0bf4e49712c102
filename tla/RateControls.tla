------------------------------ MODULE RateControls ------------------------------
(***************************************************************************)
(* The lock-free controls of an encode thread (lib.rs WlEncodeControls,    *)
(* x11/mod.rs Controls).  A setter stores the rate's fields one by one and *)
(* then flips rate_dirty; the encode thread swaps the flag and loads the   *)
(* fields one by one.  The tunables go as one value under a mutex, with a  *)
(* flag of their own.  A rate is a function from its fields to the number  *)
(* of the update that last wrote each.                                     *)
(***************************************************************************)
EXTENDS Naturals, Sequences

CONSTANTS
    Compositor,   \* the thread that sets a Wayland capture's rate
    Callers,      \* the Python threads that set an X11 capture's
    MaxUpdates    \* bound: updates of each kind

Fields == {"bitrate", "vbv", "fps"}

\* A mutant of Order: a field is stored and loaded twice.
OrderTwice == <<"bitrate", "vbv", "fps", "fps">>

\* The order both sides access the fields in.
Order == <<"bitrate", "vbv", "fps">>

Setters == Callers \cup {Compositor}

VARIABLES
    wayland,       \* whose controls these are; never changes
    rate,          \* the atomics bitrate_kbps, vbv_mult_milli, fps_bits
    rateDirty,     \* rate_dirty
    tunables,      \* the mutex's Option, 0 for None
    tunablesDirty, \* tunables_dirty
    doing,         \* the stores each setter has yet to make, and their update
    left,          \* the fields the encode thread has yet to load
    loaded,        \* the ones it loaded
    taking,        \* it has swapped tunables_dirty and not yet taken the value
    applied,       \* the rate its encoder runs at
    tuned,         \* the tunables its encoder runs with
    updates,       \* updates of the rate so far
    tunings,       \* updates of the tunables so far
    newest         \* history: the tunables last stored under the mutex

vars == <<wayland, rate, rateDirty, tunables, tunablesDirty, doing, left, loaded, taking,
          applied, tuned, updates, tunings, newest>>
setter == <<wayland, doing, updates, tunings, newest>>
shared == <<rate, rateDirty, tunables, tunablesDirty>>
thread == <<left, loaded, taking, applied, tuned>>

Rates == [Fields -> Nat]
Idle == [todo |-> <<>>, n |-> 0]

TypeOK ==
    /\ {rate, loaded, applied} \subseteq Rates
    /\ {wayland, rateDirty, tunablesDirty, taking} \subseteq BOOLEAN
    /\ {tunables, tuned, updates, tunings, newest} \subseteq Nat
    /\ \A s \in Setters :
           /\ doing[s].n \in Nat
           /\ Len(doing[s].todo) <= 4   \* every field and the flag
    /\ Len(left) <= 3

Init ==
    /\ wayland \in BOOLEAN
    /\ rate = [f \in Fields |-> 0] /\ rateDirty = FALSE
    /\ tunables = 0 /\ tunablesDirty = FALSE
    /\ doing = [s \in Setters |-> Idle]
    /\ left = <<>> /\ loaded = rate /\ taking = FALSE
    /\ applied = rate /\ tuned = 0
    /\ updates = 0 /\ tunings = 0 /\ newest = 0

--------------------------------------------------------------------------------

(***************************************************************************)
(* The stores of a call, in order: the payload, then its flag (Release).   *)
(* UpdateRate stores every field, in the compositor's loop; an X11 setter  *)
(* stores its own, on its caller's thread.                                 *)
(***************************************************************************)
RateStores ==
    IF wayland THEN {Append(Order, "rate_dirty")} ELSE {<<f, "rate_dirty">> : f \in Fields}

\* A mutant of TunablesStores: the flag goes up ahead of the value.
TunablesStoresFlagFirst == <<"tunables_dirty", "tunables">>

TunablesStores == <<"tunables", "tunables_dirty">>

MaySet(s) == doing[s] = Idle /\ (s = Compositor <=> wayland)

SetRate(s) ==
    /\ MaySet(s) /\ updates < MaxUpdates
    /\ updates' = updates + 1
    /\ \E todo \in RateStores : doing' = [doing EXCEPT ![s] = [todo |-> todo, n |-> updates']]
    /\ UNCHANGED <<wayland, shared, thread, tunings, newest>>

SetTunables(s) ==
    /\ MaySet(s) /\ tunings < MaxUpdates
    /\ tunings' = tunings + 1
    /\ doing' = [doing EXCEPT ![s] = [todo |-> TunablesStores, n |-> tunings']]
    /\ UNCHANGED <<wayland, shared, thread, updates, newest>>

(***************************************************************************)
(* A call's next store; the tunables' replaces a value not yet taken.      *)
(***************************************************************************)
Store(s) ==
    /\ doing[s].todo # <<>>
    /\ LET to == Head(doing[s].todo)
           rest == Tail(doing[s].todo)
       IN  /\ rate' = IF to \in Fields THEN [rate EXCEPT ![to] = doing[s].n] ELSE rate
           /\ rateDirty' = (rateDirty \/ to = "rate_dirty")
           /\ tunables' = IF to = "tunables" THEN doing[s].n ELSE tunables
           /\ newest' = IF to = "tunables" THEN doing[s].n ELSE newest
           /\ tunablesDirty' = (tunablesDirty \/ to = "tunables_dirty")
           /\ doing' = [doing EXCEPT ![s] = IF rest = <<>> THEN Idle ELSE [@ EXCEPT !.todo = rest]]
    /\ UNCHANGED <<wayland, thread, updates, tunings>>

--------------------------------------------------------------------------------

\* A mutant of ClearsOn: the flag is cleared once its payload is read.
ClearsOnLast(step) == step = "last"

(***************************************************************************)
(* The encode thread, ahead of each frame: a flag is cleared by the swap   *)
(* that reads it, before its payload is.  It serves one flag at a time.    *)
(***************************************************************************)
ClearsOn(step) == step = "swap"

Swap ==
    /\ rateDirty /\ left = <<>> /\ ~taking
    /\ left' = Order
    /\ rateDirty' = ~ClearsOn("swap")
    /\ UNCHANGED <<rate, tunables, tunablesDirty, setter, loaded, taking, applied, tuned>>

(***************************************************************************)
(* Load one field; the last one applies the rate to the session.           *)
(***************************************************************************)
Load ==
    /\ left # <<>>
    /\ left' = Tail(left)
    /\ loaded' = [loaded EXCEPT ![Head(left)] = rate[Head(left)]]
    /\ LET last == Tail(left) = <<>> IN
           /\ rateDirty' = (rateDirty /\ ~(last /\ ClearsOn("last")))
           /\ applied' = IF last THEN loaded' ELSE applied
    /\ UNCHANGED <<rate, tunables, tunablesDirty, setter, taking, tuned>>

SwapTunables ==
    /\ tunablesDirty /\ ~taking /\ left = <<>>
    /\ tunablesDirty' = ~ClearsOn("swap") /\ taking' = TRUE
    /\ UNCHANGED <<rate, rateDirty, tunables, setter, left, loaded, applied, tuned>>

(***************************************************************************)
(* tunables.lock().take(): a newer value than the flag was set for may be  *)
(* there already, and its own flag then finds None.                        *)
(***************************************************************************)
TakeTunables ==
    /\ taking /\ taking' = FALSE
    /\ tunables' = 0
    /\ tuned' = IF tunables = 0 THEN tuned ELSE tunables
    /\ tunablesDirty' = (tunablesDirty /\ ~ClearsOn("last"))
    /\ UNCHANGED <<rate, rateDirty, setter, left, loaded, applied>>

Next ==
    \/ \E s \in Setters : SetRate(s) \/ SetTunables(s) \/ Store(s)
    \/ Swap \/ Load \/ SwapTunables \/ TakeTunables

Spec == Init /\ [][Next]_vars

--------------------------------------------------------------------------------

Settling == \E s \in Setters : doing[s] # Idle

(***************************************************************************)
(* No update is lost between a setter and the encode thread: once every    *)
(* setter is done and no flag is up or being served, the session runs at   *)
(* the rate the atomics hold, whatever a torn read applied meanwhile.      *)
(***************************************************************************)
RateSettles == (~Settling /\ ~rateDirty /\ left = <<>>) => applied = rate

(***************************************************************************)
(* The same for the tunables: the last value set is the one that runs,     *)
(* never an older one applied over it.                                     *)
(***************************************************************************)
TunablesSettle ==
    (~Settling /\ ~tunablesDirty /\ ~taking) => tuned = newest

\* No update is lost, of the rate or of the tunables (both of the above).
UpdatesSettle == RateSettles /\ TunablesSettle

=============================================================================
