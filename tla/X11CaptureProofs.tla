---------------------------- MODULE X11CaptureProofs ----------------------------
(***************************************************************************)
(* The X11 capture and the controls of a running capture.                  *)
(*                                                                         *)
(* Of the controls: no update of the rate or of the tunables is lost       *)
(* between its setter and the encode thread, whatever the interleaving of  *)
(* stores and loads.  Of the capture: its surfaces are each in one place,  *)
(* and none is read or registered once it is destroyed, for every number   *)
(* of surfaces, all sizes and regions, every budget of failures and        *)
(* whatever the server and the owner of the capture do.                    *)
(***************************************************************************)
EXTENDS MCX11Capture, SequenceTheorems, FiniteSetTheorems, TLAPS

-----------------------------------------------------------------------------
(* The controls of RateControls.                                           *)

\* What a setter stores to, and the calls it may be in.
Words == Fields \cup {"rate_dirty", "tunables", "tunables_dirty"}
Todos == {t \in Seq(Words) : Len(t) <= 4}
LastOf(t) == t[Len(t)]

\* What is left of a call that stores to the rate, its flag last of all.
RateTodos ==
    {t \in Todos : /\ Len(t) > 0 /\ LastOf(t) = "rate_dirty"
                   /\ \A i \in 1 .. Len(t) - 1 : t[i] \in Fields}

\* And of one that stores the tunables.
TuningTodos ==
    {t \in Todos : /\ Len(t) > 0 /\ LastOf(t) = "tunables_dirty"
                   /\ \A i \in 1 .. Len(t) - 1 : t[i] = "tunables"}

\* What is left of the encode thread's loads, and the fields among them.
Lefts == {l \in Seq(Fields) : Len(l) <= 3}
ToLoad(l) == {l[i] : i \in 1 .. Len(l)}

ControlsTyped ==
    /\ rate \in Rates /\ loaded \in Rates /\ applied \in Rates
    /\ wayland \in BOOLEAN /\ rateDirty \in BOOLEAN
    /\ tunablesDirty \in BOOLEAN /\ taking \in BOOLEAN
    /\ tunables \in Nat /\ tuned \in Nat
    /\ updates \in Nat /\ tunings \in Nat
    /\ newest \in Nat
    /\ doing \in [Setters -> [todo : RateTodos \cup TuningTodos \cup {<<>>}, n : Nat]]
    /\ \A s \in Setters : doing[s].n = 0 <=> doing[s].todo = <<>>
    /\ left \in Lefts

\* A flag is up, or a setter has yet to raise it.
RateOwed == rateDirty \/ \E s \in Setters : doing[s].todo \in RateTodos
TuningOwed ==
    taking \/ tunablesDirty \/ \E s \in Setters : doing[s].todo \in TuningTodos

\* A field the session does not run at is yet to be loaded, or a flag will tell.
RateTold ==
    /\ \A f \in Fields : RateOwed \/ f \in ToLoad(left) \/ loaded[f] = rate[f]
    /\ left = <<>> => applied = loaded

\* So with the tunables; the mutex holds the newest value or nothing.
TuningTold ==
    /\ tunables \in {0, newest}
    /\ tuned = newest \/ (tunables = newest /\ tunables # 0 /\ TuningOwed)

IInv == ControlsTyped /\ RateTold /\ TuningTold

--------------------------------------------------------------------------------

\* What Head and Tail answer of a sequence that holds something.
LEMMA TakeHead ==
    ASSUME NEW S, NEW t \in Seq(S), Len(t) > 0
    PROVE  /\ t # <<>> /\ Len(t) \in Nat
           /\ Head(t) = t[1] /\ t[1] \in S
           /\ Tail(t) \in Seq(S) /\ Len(Tail(t)) = Len(t) - 1
           /\ \A i \in 1 .. Len(t) - 1 : Tail(t)[i] = t[i + 1]
           /\ Len(t) = 1 => Tail(t) = <<>>
<1>1. Len(t) \in Nat
  BY LenProperties
<1>2. t # <<>>
  BY EmptySeq
<1>3. /\ Head(t) \in S /\ Tail(t) \in Seq(S) /\ Len(Tail(t)) = Len(t) - 1
      /\ \A i \in 1 .. Len(Tail(t)) : Tail(t)[i] = t[i + 1]
  BY <1>2, HeadTailProperties
<1>4. Head(t) = t[1]
  OBVIOUS
<1>5. Len(t) = 1 => Tail(t) = <<>>
  <2>1. SUFFICES ASSUME Len(t) = 1 PROVE ~(Len(Tail(t)) \in Nat \ {0})
    BY <1>3, EmptySeq
  <2>2. QED
    BY <1>3, <2>1
<1>6. QED
  BY <1>1, <1>2, <1>3, <1>4, <1>5

\* A call's next store leaves what is still owed of it.
LEMMA RateStoreOwes ==
    ASSUME NEW t \in RateTodos
    PROVE  /\ t # <<>>
           /\ Head(t) \in Fields \cup {"rate_dirty"}
           /\ Head(t) \in Fields => Tail(t) \in RateTodos
           /\ Head(t) = "rate_dirty" => Tail(t) = <<>>
<1>1. t \in Seq(Words) /\ Len(t) > 0 /\ Len(t) <= 4
  BY DEF RateTodos, Todos
<1>2. /\ t # <<>> /\ Len(t) \in Nat /\ Head(t) = t[1]
      /\ Tail(t) \in Seq(Words) /\ Len(Tail(t)) = Len(t) - 1
      /\ \A i \in 1 .. Len(t) - 1 : Tail(t)[i] = t[i + 1]
      /\ Len(t) = 1 => Tail(t) = <<>>
  BY <1>1, TakeHead
<1>3. CASE Len(t) = 1
  <2>1. Head(t) = "rate_dirty" /\ Tail(t) = <<>>
    BY <1>1, <1>2, <1>3 DEF RateTodos, LastOf
  <2>2. QED
    BY <2>1 DEF Fields, RateTodos
<1>4. CASE Len(t) > 1
  <2>1. Head(t) \in Fields
    BY <1>1, <1>2, <1>4 DEF RateTodos
  <2>2. Len(Tail(t)) > 0 /\ LastOf(Tail(t)) = "rate_dirty"
    BY <1>1, <1>2, <1>4 DEF RateTodos, LastOf
  <2>3. \A i \in 1 .. Len(Tail(t)) - 1 : Tail(t)[i] \in Fields
    BY <1>1, <1>2, <1>4 DEF RateTodos
  <2>4. Tail(t) \in Todos
    BY <1>1, <1>2, <1>4 DEF Todos
  <2>5. Tail(t) \in RateTodos
    BY <2>2, <2>3, <2>4 DEF RateTodos
  <2>6. QED
    BY <1>2, <2>1, <2>5 DEF Fields
<1>5. QED
  BY <1>1, <1>2, <1>3, <1>4

LEMMA TuningStoreOwes ==
    ASSUME NEW t \in TuningTodos
    PROVE  /\ t # <<>>
           /\ Head(t) \in {"tunables", "tunables_dirty"}
           /\ Head(t) = "tunables" => Tail(t) \in TuningTodos
           /\ Head(t) = "tunables_dirty" => Tail(t) = <<>>
<1>1. t \in Seq(Words) /\ Len(t) > 0 /\ Len(t) <= 4
  BY DEF TuningTodos, Todos
<1>2. /\ t # <<>> /\ Len(t) \in Nat /\ Head(t) = t[1]
      /\ Tail(t) \in Seq(Words) /\ Len(Tail(t)) = Len(t) - 1
      /\ \A i \in 1 .. Len(t) - 1 : Tail(t)[i] = t[i + 1]
      /\ Len(t) = 1 => Tail(t) = <<>>
  BY <1>1, TakeHead
<1>3. CASE Len(t) = 1
  <2>1. Head(t) = "tunables_dirty" /\ Tail(t) = <<>>
    BY <1>1, <1>2, <1>3 DEF TuningTodos, LastOf
  <2>2. QED
    BY <2>1 DEF TuningTodos
<1>4. CASE Len(t) > 1
  <2>1. Head(t) = "tunables"
    BY <1>1, <1>2, <1>4 DEF TuningTodos
  <2>2. Len(Tail(t)) > 0 /\ LastOf(Tail(t)) = "tunables_dirty"
    BY <1>1, <1>2, <1>4 DEF TuningTodos, LastOf
  <2>3. \A i \in 1 .. Len(Tail(t)) - 1 : Tail(t)[i] = "tunables"
    BY <1>1, <1>2, <1>4 DEF TuningTodos
  <2>4. Tail(t) \in Todos
    BY <1>1, <1>2, <1>4 DEF Todos
  <2>5. Tail(t) \in TuningTodos
    BY <2>2, <2>3, <2>4 DEF TuningTodos
  <2>6. QED
    BY <1>2, <2>1, <2>5
<1>5. QED
  BY <1>1, <1>2, <1>3, <1>4

\* A call in progress is of one kind, and begins whole.
LEMMA TodosApart == RateTodos \cap TuningTodos = {} /\ <<>> \notin RateTodos \cup TuningTodos
  BY DEF RateTodos, TuningTodos

\* Fields followed by the flag.
LEMMA RaisesFlag ==
    ASSUME NEW s \in Seq(Words), Len(s) = 3, \A i \in 1 .. 3 : s[i] \in Fields,
           "rate_dirty" \in Words
    PROVE  Append(s, "rate_dirty") \in RateTodos
<1>1. PICK w : w = Append(s, "rate_dirty")
  OBVIOUS
<1>2. w \in Seq(Words)
  BY <1>1, AppendProperties
<1>3. Len(w) = Len(s) + 1 /\ w[Len(s) + 1] = "rate_dirty"
  BY <1>1, AppendProperties, ZenonT(60)
<1>4. Len(w) = 4 /\ w[4] = "rate_dirty"
  BY <1>3
<1>5. \A i \in 1 .. 3 : w[i] = s[i]
  BY <1>1
<1>6. w \in Todos
  <2>1. Len(w) <= 4
    BY <1>4
  <2>2. QED
    BY <1>2, <2>1 DEF Todos
<1>7. LastOf(w) = "rate_dirty" /\ Len(w) > 0
  BY <1>4 DEF LastOf
<1>8. \A i \in 1 .. Len(w) - 1 : w[i] \in Fields
  BY <1>4, <1>5
<1>9. QED
  BY <1>1, <1>6, <1>7, <1>8 DEF RateTodos

\* Every call begins with its flag still to raise.
LEMMA CallsBegin ==
    /\ \A t \in RateStores : t \in RateTodos
    /\ TunablesStores \in TuningTodos
<1>1. Append(Order, "rate_dirty") \in RateTodos
  <2>1. /\ Order \in Seq(Words) /\ Len(Order) = 3
        /\ \A i \in 1 .. 3 : Order[i] \in Fields
    BY DEF Order, Words, Fields
  <2>2. "rate_dirty" \in Words
    BY DEF Words
  <2>3. QED
    BY <2>1, <2>2, RaisesFlag
<1>2. \A f \in Fields : <<f, "rate_dirty">> \in RateTodos
  BY DEF RateTodos, Todos, Words, Fields, LastOf
<1>3. TunablesStores \in TuningTodos
  BY DEF TunablesStores, TuningTodos, Todos, Words, Fields, LastOf
<1>4. QED
  BY <1>1, <1>2, <1>3 DEF RateStores

\* A load takes the first field off what is left.
LEMMA LoadShrinks ==
    ASSUME NEW l \in Lefts, l # <<>>
    PROVE  /\ Head(l) \in Fields
           /\ Tail(l) \in Lefts
           /\ ToLoad(l) = ToLoad(Tail(l)) \cup {Head(l)}
<1>1. l \in Seq(Fields) /\ Len(l) <= 3 /\ Len(l) > 0
  BY LenProperties, EmptySeq DEF Lefts
<1>2. /\ Len(l) \in Nat /\ Head(l) = l[1] /\ l[1] \in Fields
      /\ Tail(l) \in Seq(Fields) /\ Len(Tail(l)) = Len(l) - 1
      /\ \A i \in 1 .. Len(l) - 1 : Tail(l)[i] = l[i + 1]
  BY <1>1, TakeHead
<1>3. \A i \in 1 .. Len(l) : i = 1 \/ (i - 1 \in 1 .. Len(l) - 1 /\ l[i] = Tail(l)[i - 1])
  BY <1>1, <1>2
<1>4. ToLoad(l) = ToLoad(Tail(l)) \cup {Head(l)}
  BY <1>1, <1>2, <1>3, SMTT(40) DEF ToLoad
<1>5. QED
  BY <1>1, <1>2, <1>4 DEF Lefts

LEMMA LoadsBegin == Order \in Lefts /\ ToLoad(Order) = Fields /\ ToLoad(<<>>) = {}
<1>1. Order \in Lefts
  BY DEF Order, Lefts, Fields
<1>2. ToLoad(<<>>) = {}
  BY DEF ToLoad
<1>3. Len(Order) = 3 /\ Order[1] = "bitrate" /\ Order[2] = "vbv" /\ Order[3] = "fps"
  BY DEF Order
<1>4. ToLoad(Order) = {Order[1], Order[2], Order[3]}
  BY <1>3 DEF ToLoad
<1>5. QED
  BY <1>1, <1>2, <1>3, <1>4 DEF Fields

LEMMA InitIInv == Init => IInv
<1> SUFFICES ASSUME Init PROVE IInv
  OBVIOUS
<1>1. left \in Lefts
  BY EmptySeq DEF Init, Lefts
<1>2. /\ rate \in Rates /\ loaded \in Rates /\ applied \in Rates
      /\ 0 \in Nat
  BY DEF Init, Rates
<1>3. doing \in [Setters -> [todo : RateTodos \cup TuningTodos \cup {<<>>}, n : Nat]]
  BY <1>2 DEF Init, Idle
<1>4. ControlsTyped
  BY <1>1, <1>2, <1>3 DEF Init, ControlsTyped, Idle
<1>5. RateTold /\ TuningTold
  BY DEF Init, RateTold, TuningTold
<1>6. QED
  BY <1>4, <1>5 DEF IInv

--------------------------------------------------------------------------------

\* A call in progress is not one of the tuning calls and of the rate's at once.
LEMMA SetterTypes ==
    ASSUME ControlsTyped, NEW s \in Setters
    PROVE  /\ doing[s].todo \in RateTodos \cup TuningTodos \cup {<<>>}
           /\ doing[s].n \in Nat
           /\ doing[s].n # 0 => doing[s].todo # <<>>
           /\ doing[s].todo # <<>> => doing[s].n # 0
  BY DEF ControlsTyped

LEMMA SetRateIInv ==
    ASSUME IInv, NEW s \in Setters, SetRate(s)
    PROVE  IInv'
<1>1. PICK todo \in RateTodos : doing' = [doing EXCEPT ![s] = [todo |-> todo, n |-> updates']]
  BY CallsBegin DEF SetRate
<1>2. updates' \in Nat /\ updates' # 0
  BY DEF SetRate, IInv, ControlsTyped
<1>3. ControlsTyped'
  BY <1>1, <1>2, TodosApart DEF SetRate, IInv, ControlsTyped, thread, shared
<1>4. doing'[s].todo \in RateTodos
  BY <1>1 DEF IInv, ControlsTyped
<1>5. RateTold'
  BY <1>4 DEF SetRate, IInv, RateTold, RateOwed, thread, shared
<1>6. doing[s].todo \notin TuningTodos
  BY TodosApart DEF SetRate, MaySet, Idle
<1>7. TuningOwed => TuningOwed'
  BY <1>1, <1>6 DEF SetRate, IInv, ControlsTyped, TuningOwed, thread, shared
<1>8. TuningTold'
  BY <1>7 DEF SetRate, IInv, TuningTold, thread, shared
<1>9. QED
  BY <1>3, <1>5, <1>8 DEF IInv

LEMMA SetTunablesIInv ==
    ASSUME IInv, NEW s \in Setters, SetTunables(s)
    PROVE  IInv'
<1>1. doing' = [doing EXCEPT ![s] = [todo |-> TunablesStores, n |-> tunings']]
  BY DEF SetTunables
<1>2. tunings' \in Nat /\ tunings' # 0
  BY DEF SetTunables, IInv, ControlsTyped
<1>3. ControlsTyped'
  BY <1>1, <1>2, CallsBegin, TodosApart DEF SetTunables, IInv, ControlsTyped, thread, shared
<1>4. doing'[s].todo \in TuningTodos
  BY <1>1, CallsBegin DEF IInv, ControlsTyped
<1>5. doing[s].todo \notin RateTodos
  BY TodosApart DEF SetTunables, MaySet, Idle
<1>6. RateOwed => RateOwed'
  BY <1>1, <1>5 DEF SetTunables, IInv, ControlsTyped, RateOwed, thread, shared
<1>7. RateTold'
  BY <1>6 DEF SetTunables, IInv, RateTold, thread, shared
<1>8. TuningTold'
  BY <1>4 DEF SetTunables, IInv, TuningTold, TuningOwed, thread, shared
<1>9. QED
  BY <1>3, <1>7, <1>8 DEF IInv

\* A store of a rate's call: to a field, its flag still to come, or the flag.
LEMMA RateStoreIInv ==
    ASSUME IInv, NEW s \in Setters, Store(s), doing[s].todo \in RateTodos
    PROVE  IInv'
<1> DEFINE t == doing[s].todo
<1>1. /\ Head(t) \in Fields \cup {"rate_dirty"}
      /\ Head(t) \in Fields => Tail(t) \in RateTodos
      /\ Head(t) = "rate_dirty" => Tail(t) = <<>>
      /\ t # <<>>
  BY RateStoreOwes
<1>2. doing[s].n \in Nat /\ doing[s].n # 0
  BY <1>1, SetterTypes DEF IInv
<1>3. /\ UNCHANGED <<tunables, newest, tunablesDirty, wayland, thread, updates, tunings>>
      /\ rate' = IF Head(t) \in Fields THEN [rate EXCEPT ![Head(t)] = doing[s].n] ELSE rate
      /\ rateDirty' = (rateDirty \/ Head(t) = "rate_dirty")
      /\ doing' = [doing EXCEPT ![s] = IF Tail(t) = <<>> THEN Idle ELSE [@ EXCEPT !.todo = Tail(t)]]
  BY <1>1 DEF Store, IInv, ControlsTyped, Fields
<1> HIDE DEF t
<1>4. CASE Head(t) \in Fields
  <2>1. Tail(t) \in RateTodos /\ Tail(t) # <<>>
    BY <1>1, <1>4, TodosApart
  <2>2. doing' = [doing EXCEPT ![s] = [@ EXCEPT !.todo = Tail(t)]]
    BY <1>3, <2>1
  <2>3. doing'[s].todo \in RateTodos
    BY <2>1, <2>2 DEF IInv, ControlsTyped
  <2>4. rate' \in Rates
    BY <1>2, <1>3, <1>4 DEF IInv, ControlsTyped, Rates
  <2>5. rateDirty' = rateDirty
    BY <1>3, <1>4 DEF Fields, IInv, ControlsTyped
  <2>6. ControlsTyped'
    BY <1>2, <1>3, <2>1, <2>2, <2>4, <2>5, ZenonT(60) DEF IInv, ControlsTyped, thread
  <2>7. RateTold'
    BY <1>3, <2>3 DEF IInv, RateTold, RateOwed, thread
  <2>8. TuningOwed => TuningOwed'
    BY <1>3, <2>2, TodosApart DEF IInv, ControlsTyped, TuningOwed, thread, t
  <2>9. QED
    BY <1>3, <2>6, <2>7, <2>8 DEF IInv, TuningTold, thread
<1>5. CASE Head(t) = "rate_dirty"
  <2>1. doing' = [doing EXCEPT ![s] = Idle]
    BY <1>1, <1>3, <1>5
  <2>2. rate' = rate /\ rateDirty' = TRUE
    BY <1>3, <1>5 DEF Fields
  <2>3. ControlsTyped'
    <3>1. Idle \in [todo : RateTodos \cup TuningTodos \cup {<<>>}, n : Nat]
      BY DEF Idle
    <3>2. /\ doing' \in [Setters -> [todo : RateTodos \cup TuningTodos \cup {<<>>},
                                     n : Nat]]
          /\ \A x \in Setters : doing'[x].n = 0 <=> doing'[x].todo = <<>>
      BY <2>1, <3>1 DEF IInv, ControlsTyped, Idle
    <3>3. QED
      BY <1>3, <2>2, <3>2 DEF IInv, ControlsTyped, thread
  <2>4. RateTold'
    BY <1>3, <2>2 DEF IInv, RateTold, RateOwed, thread
  <2>5. TuningOwed => TuningOwed'
    BY <1>3, <2>1, TodosApart DEF IInv, ControlsTyped, TuningOwed, thread, t
  <2>6. QED
    BY <1>3, <2>3, <2>4, <2>5 DEF IInv, TuningTold, thread
<1>6. QED
  BY <1>1, <1>4, <1>5

\* A store of the tunables' call: the value, its flag still to come, or the flag.
LEMMA TuningStoreIInv ==
    ASSUME IInv, NEW s \in Setters, Store(s), doing[s].todo \in TuningTodos
    PROVE  IInv'
<1> DEFINE t == doing[s].todo
<1>1. /\ Head(t) \in {"tunables", "tunables_dirty"}
      /\ Head(t) = "tunables" => Tail(t) \in TuningTodos
      /\ Head(t) = "tunables_dirty" => Tail(t) = <<>>
      /\ t # <<>>
  BY TuningStoreOwes
<1>2. doing[s].n \in Nat /\ doing[s].n # 0
  BY <1>1, SetterTypes DEF IInv
<1>3. /\ UNCHANGED <<rate, rateDirty, wayland, thread, updates, tunings>>
      /\ tunables' = IF Head(t) = "tunables" THEN doing[s].n ELSE tunables
      /\ newest' = IF Head(t) = "tunables" THEN doing[s].n ELSE newest
      /\ tunablesDirty' = (tunablesDirty \/ Head(t) = "tunables_dirty")
      /\ doing' = [doing EXCEPT ![s] = IF Tail(t) = <<>> THEN Idle ELSE [@ EXCEPT !.todo = Tail(t)]]
  BY <1>1 DEF Store, IInv, ControlsTyped, Fields
<1> HIDE DEF t
<1>4. CASE Head(t) = "tunables"
  <2>1. Tail(t) \in TuningTodos /\ Tail(t) # <<>>
    BY <1>1, <1>4, TodosApart
  <2>2. doing' = [doing EXCEPT ![s] = [@ EXCEPT !.todo = Tail(t)]]
    BY <1>3, <2>1
  <2>3. doing'[s].todo \in TuningTodos
    BY <2>1, <2>2 DEF IInv, ControlsTyped
  <2>4. tunablesDirty' = tunablesDirty
    BY <1>3, <1>4 DEF IInv, ControlsTyped
  <2>5. ControlsTyped'
    BY <1>2, <1>3, <1>4, <2>1, <2>2, <2>4, ZenonT(60) DEF IInv, ControlsTyped, thread
  <2>6. RateOwed => RateOwed'
    BY <1>3, <2>2, TodosApart DEF IInv, ControlsTyped, RateOwed, thread, t
  <2>7. RateTold'
    BY <1>3, <2>6 DEF IInv, RateTold, thread
  <2>8. TuningTold'
    BY <1>2, <1>3, <1>4, <2>3 DEF TuningTold, TuningOwed
  <2>9. QED
    BY <2>5, <2>7, <2>8 DEF IInv
<1>5. CASE Head(t) = "tunables_dirty"
  <2>1. doing' = [doing EXCEPT ![s] = Idle]
    BY <1>1, <1>3, <1>5
  <2>2. tunables' = tunables /\ newest' = newest /\ tunablesDirty' = TRUE
    BY <1>3, <1>5
  <2>3. ControlsTyped'
    BY <1>3, <2>1, <2>2 DEF IInv, ControlsTyped, thread, Idle
  <2>4. RateOwed => RateOwed'
    BY <1>3, <2>1, TodosApart DEF IInv, ControlsTyped, RateOwed, thread, t
  <2>5. RateTold'
    BY <1>3, <2>4 DEF IInv, RateTold, thread
  <2>6. TuningTold'
    BY <1>3, <2>2 DEF IInv, TuningTold, TuningOwed, thread
  <2>7. QED
    BY <2>3, <2>5, <2>6 DEF IInv
<1>6. QED
  BY <1>1, <1>4, <1>5

LEMMA SwapIInv == ASSUME IInv, Swap PROVE IInv'
<1>1. left' = Order /\ rateDirty' = FALSE
  BY DEF Swap, ClearsOn
<1>2. ControlsTyped'
  BY <1>1, LoadsBegin DEF Swap, IInv, ControlsTyped, setter
<1>3. RateTold'
  <2>1. ToLoad(left') = Fields /\ left' # <<>>
    BY <1>1, LoadsBegin DEF Fields
  <2>2. QED
    BY <2>1 DEF RateTold
<1>4. TuningOwed' <=> TuningOwed
  BY DEF Swap, TuningOwed, setter
<1>5. TuningTold'
  BY <1>4 DEF Swap, IInv, TuningTold, setter
<1>6. QED
  BY <1>2, <1>3, <1>5 DEF IInv

LEMMA LoadIInv == ASSUME IInv, Load PROVE IInv'
<1>1. /\ left \in Lefts /\ left # <<>> /\ rate \in Rates /\ loaded \in Rates
      /\ left' = Tail(left) /\ loaded' = [loaded EXCEPT ![Head(left)] = rate[Head(left)]]
      /\ applied' = IF left' = <<>> THEN loaded' ELSE applied
      /\ UNCHANGED <<rate, tunables, tunablesDirty, setter, taking, tuned>>
  BY DEF Load, IInv, ControlsTyped
<1>2. rateDirty' = rateDirty
  BY DEF Load, ClearsOn, IInv, ControlsTyped
<1>3. /\ Head(left) \in Fields /\ left' \in Lefts
      /\ ToLoad(left) = ToLoad(left') \cup {Head(left)}
  BY <1>1, LoadShrinks
<1>4. loaded' \in Rates /\ applied' \in Rates
  BY <1>1, <1>3 DEF Rates, IInv, ControlsTyped
<1>5. ControlsTyped'
  BY <1>1, <1>2, <1>3, <1>4 DEF IInv, ControlsTyped, setter
<1>6. RateOwed' <=> RateOwed
  BY <1>1, <1>2 DEF RateOwed, setter
<1>7. ASSUME NEW f \in Fields, ~RateOwed', f \notin ToLoad(left')
      PROVE  loaded'[f] = rate'[f]
  <2>1. CASE f = Head(left)
    BY <1>1, <2>1, <1>3 DEF Rates
  <2>2. CASE f # Head(left)
    <3>1. loaded[f] = rate[f]
      BY <1>3, <1>6, <1>7, <2>2 DEF IInv, RateTold
    <3>2. QED
      BY <1>1, <1>3, <2>2, <3>1 DEF Rates
  <2>3. QED
    BY <2>1, <2>2
<1>8. left' = <<>> => applied' = loaded'
  BY <1>1
<1>9. TuningOwed' <=> TuningOwed
  BY <1>1 DEF TuningOwed, setter
<1>10. TuningTold'
  BY <1>1, <1>9 DEF IInv, TuningTold, setter
<1>11. QED
  BY <1>5, <1>7, <1>8, <1>10 DEF IInv, RateTold

LEMMA SwapTunablesIInv == ASSUME IInv, SwapTunables PROVE IInv'
<1>1. ControlsTyped'
  BY DEF SwapTunables, ClearsOn, IInv, ControlsTyped, setter
<1>2. RateOwed' <=> RateOwed
  BY DEF SwapTunables, RateOwed, setter
<1>3. RateTold'
  BY <1>2 DEF SwapTunables, IInv, RateTold
<1>4. TuningTold'
  BY DEF SwapTunables, IInv, TuningTold, TuningOwed, setter
<1>5. QED
  BY <1>1, <1>3, <1>4 DEF IInv

LEMMA TakeTunablesIInv == ASSUME IInv, TakeTunables PROVE IInv'
<1>1. tunablesDirty' = tunablesDirty
  BY DEF TakeTunables, ClearsOn, IInv, ControlsTyped
<1>2. ControlsTyped'
  <2>1. tunables' \in Nat
    BY DEF TakeTunables
  <2>2. tuned' \in Nat /\ taking' \in BOOLEAN
    BY DEF TakeTunables, IInv, ControlsTyped
  <2>3. QED
    BY <1>1, <2>1, <2>2 DEF TakeTunables, IInv, ControlsTyped, setter
<1>3. RateOwed' <=> RateOwed
  BY DEF TakeTunables, RateOwed, setter
<1>4. RateTold'
  BY <1>3 DEF TakeTunables, IInv, RateTold
<1>5. tunables' = 0 /\ tuned' = newest'
  BY DEF TakeTunables, IInv, TuningTold, setter
<1>6. QED
  BY <1>2, <1>4, <1>5 DEF IInv, TuningTold

LEMMA NextIInv == IInv /\ [Next]_vars => IInv'
<1> SUFFICES ASSUME IInv, [Next]_vars PROVE IInv'
  OBVIOUS
<1>1. CASE \E s \in Setters : SetRate(s) \/ SetTunables(s)
  BY <1>1, SetRateIInv, SetTunablesIInv
<1>2. CASE \E s \in Setters : Store(s)
  <2>1. PICK s \in Setters : Store(s)
    BY <1>2
  <2>2. doing[s].todo \in RateTodos \cup TuningTodos
    BY <2>1, SetterTypes DEF IInv, Store
  <2>3. QED
    BY <2>1, <2>2, RateStoreIInv, TuningStoreIInv
<1>3. CASE Swap \/ Load
  BY <1>3, SwapIInv, LoadIInv
<1>4. CASE SwapTunables \/ TakeTunables
  BY <1>4, SwapTunablesIInv, TakeTunablesIInv
<1>5. CASE UNCHANGED vars
  BY <1>5 DEF vars, IInv, ControlsTyped, RateTold, TuningTold, RateOwed, TuningOwed
<1>6. QED
  BY <1>1, <1>2, <1>3, <1>4, <1>5 DEF Next

--------------------------------------------------------------------------------

\* Settled controls owe nothing.
LEMMA SettledOwesNothing ==
    ASSUME ControlsTyped, ~Settling
    PROVE  \A s \in Setters : doing[s].todo \notin RateTodos \cup TuningTodos
  BY TodosApart DEF Settling, Idle

\* A call stores each field and its flag at most once.
LEMMA ControlsAreTyped == IInv => TypeOK
<1>1. ASSUME IInv PROVE TypeOK
  <2>1. \A t \in RateTodos \cup TuningTodos \cup {<<>>} : Len(t) <= 4
    BY EmptySeq DEF RateTodos, TuningTodos, Todos
  <2>2. Len(left) <= 3
    BY <1>1 DEF IInv, ControlsTyped, Lefts
  <2>3. QED
    BY <1>1, <2>1, <2>2 DEF IInv, ControlsTyped, TypeOK
<1>2. QED
  BY <1>1

\* The type invariant of the controls.
THEOREM ControlTypes == Spec => []TypeOK
  BY InitIInv, NextIInv, ControlsAreTyped, PTL DEF Spec

\* No update of the rate is lost between its setters and the encode thread: once
\* all is quiet, the session runs at the rate the atomics hold.
THEOREM RatesSettle == Spec => []RateSettles
<1>1. ASSUME IInv PROVE RateSettles
  <2>1. SUFFICES ASSUME ~Settling, ~rateDirty, left = <<>> PROVE applied = rate
    BY DEF RateSettles
  <2>2. ~RateOwed
    BY <1>1, <2>1, SettledOwesNothing DEF IInv, RateOwed
  <2>3. \A f \in Fields : loaded[f] = rate[f]
    BY <1>1, <2>1, <2>2, LoadsBegin DEF IInv, RateTold
  <2>4. loaded = rate
    BY <1>1, <2>3 DEF IInv, ControlsTyped, Rates
  <2>5. QED
    BY <1>1, <2>1, <2>4 DEF IInv, RateTold
<1>2. QED
  BY <1>1, InitIInv, NextIInv, PTL DEF Spec

\* Nor of the tunables: the value set last is the one that runs.
THEOREM LastTuningRuns == Spec => []TunablesSettle
<1>1. ASSUME IInv PROVE TunablesSettle
  <2>1. SUFFICES ASSUME ~Settling, ~tunablesDirty, ~taking PROVE tuned = newest
    BY DEF TunablesSettle
  <2>2. ~TuningOwed
    BY <1>1, <2>1, SettledOwesNothing DEF IInv, TuningOwed
  <2>3. QED
    BY <1>1, <2>2 DEF IInv, TuningTold
<1>2. QED
  BY <1>1, InitIInv, NextIInv, PTL DEF Spec

\* Neither kind of update is lost.
THEOREM UpdatesRun == Spec => []UpdatesSettle
<1>1. RateSettles /\ TunablesSettle => UpdatesSettle
  BY DEF UpdatesSettle
<1>2. QED
  BY <1>1, RatesSettle, LastTuningRuns, PTL


-----------------------------------------------------------------------------
(* The capture of X11Capture.                                              *)

\* The type invariant, by what its parts are about.
Flags == up \in BOOLEAN /\ stop \in BOOLEAN /\ regionDirty \in BOOLEAN /\ poolStop \in BOOLEAN

Lengths ==
    /\ root \in Sizes /\ region \in Regions /\ asked \in Regions
    /\ size \in X11!Captured /\ target \in X11!Captured

Steps ==
    /\ pc \in X11!Drains \cup {"Top", "Poll", "Acquire", "Grab", "Publish",
                               "Reconnect", "Join", "Done"}
    /\ epc \in {"Take", "Fit", "Read", "Ended", "Panicking", "Panicked"}
    /\ result \in {"Running", "Ok", "Err"}

\* The counters stay within their limits, which end the capture.
Numbers ==
    /\ server \in Nat /\ changes \in 0 .. MaxChanges
    /\ birth \in Nat /\ generation \in Nat /\ conn \in Nat /\ fresh \in Nat
    /\ failures \in 0 .. GrabFailures + 1
    /\ failures > GrabFailures => pc \in {"Reconnect", "DrainReconnect", "Join", "Done"}
    /\ attempts \in 0 .. Attempts /\ reconnects \in 0 .. Streak
    /\ reconnects = Streak => pc \in {"Join", "Done"}

Surfaces ==
    /\ free \subseteq X11!Idx /\ held \in X11!Idx \cup {X11!None}
    /\ slot \in X11!Frame \cup {X11!NoFrame}
    /\ encoding \in X11!Frame \cup {X11!NoFrame}

Device ==
    /\ pipe \in [size : X11!Captured, gen : Nat] \cup {X11!NoPipe}
    /\ pins \in [X11!Idx -> Nat]

\* What each thread holds at each of its steps.
Holding ==
    /\ encoding # X11!NoFrame <=> epc \in {"Fit", "Read"}
    /\ pc \in {"Grab", "Publish"} => held \in X11!Idx
    /\ pc \notin {"Grab", "Publish", "Join", "Done"} => held = X11!None
    /\ pc = "Done" => epc \in {"Ended", "Panicked"}

\* A surface is in one place, and none is lost unless the encoder panicked.
Places ==
    /\ held \notin free
    /\ slot # X11!NoFrame => slot.idx \notin free \cup {held}
    /\ encoding # X11!NoFrame => encoding.idx \notin free \cup {held, slot.idx}
    /\ epc \notin {"Panicking", "Panicked"} =>
           X11!Idx \subseteq free \cup {held, slot.idx, encoding.idx}

\* The surfaces are created once per generation, and a frame is of the surfaces
\* there are: neither a creation nor the end may pass a frame by.
Births ==
    /\ birth = generation + 1 \/ pc \in {"Join", "Done"}
    /\ slot # X11!NoFrame =>
           slot.birth = slot.gen + 1 /\ (slot.birth = birth \/ pc = "Done")
    /\ encoding # X11!NoFrame =>
           encoding.birth = encoding.gen + 1 /\ encoding.birth = birth

\* What the pipeline registered is of the generation it was made for, which is
\* that of the frame it reads.
Registered ==
    /\ \A i \in X11!Idx :
           pins[i] # X11!None => pipe # X11!NoPipe /\ pins[i] = pipe.gen + 1
    /\ epc = "Read" => pipe = [size |-> encoding.size, gen |-> encoding.gen]

Typed == Flags /\ Lengths /\ Steps /\ Numbers /\ Surfaces /\ Device
X11Inv == Typed /\ Holding /\ Places /\ Births /\ Registered

-----------------------------------------------------------------------------
\* A size resolved is one that is captured.
LEMMA ResolvedIsCaptured ==
    ASSUME NEW r \in Sizes, NEW asks \in Regions
    PROVE  X11!Resolve(r, asks) \in X11!Captured
  BY DEF X11!Resolve, X11!Captured

LEMMA FlagsKept == ASSUME Flags, X11!Next PROVE Flags'
  BY Zenon DEF Flags, X11!vars, X11!Next, X11!CaptureStep, X11!EncodeStep, X11!Outside,
      X11!outside, X11!pool, X11!retries, X11!surfaces, X11!encoder, X11!capture,
      X11!threads, X11!vars, X11!Leave, X11!Recreate, X11!Change, X11!LoopStopped,
      X11!ApplyRegion, X11!PollGeometry, X11!Reclaim, X11!DrainStopped, X11!Resized,
      X11!Acquire, X11!GrabFrame, X11!GrabFails, X11!Reconnect, X11!Reconnected,
      X11!Publish, X11!Join, X11!Take, X11!Fit, X11!Encode, X11!PanicStops, X11!Panic,
      X11!RootResizes, X11!ServerEnds, X11!ServerStarts, X11!SetRegion, X11!RequestStop,
      X11!Ended

LEMMA LengthsKept == ASSUME Lengths, X11!Next PROVE Lengths'
  BY ResolvedIsCaptured DEF Lengths, X11!Resized, X11!Next, X11!CaptureStep,
      X11!EncodeStep, X11!Outside, X11!outside, X11!pool, X11!retries, X11!surfaces,
      X11!encoder, X11!capture, X11!threads, X11!vars, X11!Leave, X11!Recreate,
      X11!Change, X11!LoopStopped, X11!ApplyRegion, X11!PollGeometry, X11!Reclaim,
      X11!DrainStopped, X11!Resized, X11!Acquire, X11!GrabFrame, X11!GrabFails,
      X11!Reconnect, X11!Reconnected, X11!Publish, X11!Join, X11!Take, X11!Fit,
      X11!Encode, X11!PanicStops, X11!Panic, X11!RootResizes, X11!ServerEnds,
      X11!ServerStarts, X11!SetRegion, X11!RequestStop, X11!Ended

LEMMA StepsKept == ASSUME Steps, X11!Next PROVE Steps'
  BY DEF Steps, X11!Drains, X11!Outcome, X11!Next, X11!CaptureStep, X11!EncodeStep,
      X11!Outside, X11!outside, X11!pool, X11!retries, X11!surfaces, X11!encoder,
      X11!capture, X11!threads, X11!vars, X11!Leave, X11!Recreate, X11!Change,
      X11!LoopStopped, X11!ApplyRegion, X11!PollGeometry, X11!Reclaim, X11!DrainStopped,
      X11!Resized, X11!Acquire, X11!GrabFrame, X11!GrabFails, X11!Reconnect,
      X11!Reconnected, X11!Publish, X11!Join, X11!Take, X11!Fit, X11!Encode,
      X11!PanicStops, X11!Panic, X11!RootResizes, X11!ServerEnds, X11!ServerStarts,
      X11!SetRegion, X11!RequestStop, X11!Ended

LEMMA NumbersKept == ASSUME Numbers, X11!Next PROVE Numbers'
  BY CaptureAssumption DEF Numbers, X11!X11Assumption, X11!GrabsSpent, X11!GaveUp, X11!None, X11!Drained,
      X11!Drains, X11!Next, X11!CaptureStep, X11!EncodeStep, X11!Outside, X11!outside,
      X11!pool, X11!retries, X11!surfaces, X11!encoder, X11!capture, X11!threads,
      X11!vars, X11!Leave, X11!Recreate, X11!Change, X11!LoopStopped, X11!ApplyRegion,
      X11!PollGeometry, X11!Reclaim, X11!DrainStopped, X11!Resized, X11!Acquire,
      X11!GrabFrame, X11!GrabFails, X11!Reconnect, X11!Reconnected, X11!Publish,
      X11!Join, X11!Take, X11!Fit, X11!Encode, X11!PanicStops, X11!Panic,
      X11!RootResizes, X11!ServerEnds, X11!ServerStarts, X11!SetRegion, X11!RequestStop,
      X11!Ended

-----------------------------------------------------------------------------
(* What a step of one side leaves to the other.                            *)

LEMMA OutsideKeeps ==
    ASSUME X11!Outside \/ X11!Ended
    PROVE  UNCHANGED <<free, slot, generation, pc, held, size, birth, epc, encoding, pipe, pins>>
  BY DEF X11!Outside, X11!Ended, X11!vars, X11!RootResizes, X11!ServerEnds,
      X11!ServerStarts, X11!SetRegion, X11!RequestStop, X11!threads, X11!pool, X11!capture,
      X11!encoder

LEMMA CaptureKeeps ==
    ASSUME X11!CaptureStep
    PROVE  UNCHANGED <<epc, encoding, pipe, pins>>
  BY DEF X11!CaptureStep, X11!LoopStopped, X11!ApplyRegion, X11!PollGeometry, X11!Reclaim,
      X11!DrainStopped, X11!Resized, X11!Acquire, X11!GrabFrame, X11!GrabFails,
      X11!Reconnect, X11!Reconnected, X11!Publish, X11!Join, X11!encoder

LEMMA EncoderKeeps ==
    ASSUME X11!EncodeStep \/ X11!Panic
    PROVE  UNCHANGED <<generation, pc, held, size, birth>>
  BY DEF X11!EncodeStep, X11!Panic, X11!Take, X11!Fit, X11!Encode, X11!PanicStops, X11!pool,
      X11!capture

\* The steps of the capture's loop that move no surface, and make none.
LEMMA LoopKeeps ==
    ASSUME \/ X11!LoopStopped \/ X11!ApplyRegion \/ X11!PollGeometry \/ X11!DrainStopped
           \/ X11!GrabFrame \/ X11!Reconnect
    PROVE  UNCHANGED <<free, slot, held, size, birth, generation>>
  BY DEF X11!LoopStopped, X11!ApplyRegion, X11!PollGeometry, X11!DrainStopped, X11!GrabFrame,
      X11!Reconnect, X11!pool, X11!surfaces

-----------------------------------------------------------------------------
(* The steps.                                                              *)

\* A drained pool has every surface back.
LEMMA DrainedHasAll ==
    ASSUME Typed, Holding, Places, X11!Drained
    PROVE  slot = X11!NoFrame /\ encoding = X11!NoFrame /\ held = X11!None
<1>1. pc \in X11!Drains /\ slot = X11!NoFrame /\ free = X11!Idx
  BY DEF X11!Drained
<1>2. held = X11!None
  BY <1>1 DEF Holding, X11!Drains
<1>3. encoding # X11!NoFrame => encoding.idx \in X11!Idx
  BY DEF Typed, Surfaces, X11!Frame
<1>4. QED
  BY <1>1, <1>2, <1>3 DEF Places

LEMMA HoldingKept ==
    ASSUME Typed, Holding, X11!Next
    PROVE  Holding'
<1>1. CASE X11!CaptureStep
  <2>1. UNCHANGED <<encoding, epc>>
    BY <1>1, CaptureKeeps
  <2>2. CASE X11!Acquire \/ X11!GrabFrame \/ X11!GrabFails \/ X11!Publish
    BY <2>1, <2>2 DEF Holding, Typed, Surfaces, X11!Acquire, X11!GrabFrame, X11!GrabFails,
        X11!Publish, X11!Leave, X11!None
  <2>3. CASE X11!LoopStopped \/ X11!ApplyRegion \/ X11!PollGeometry \/ X11!Reconnect
    BY <2>1, <2>3 DEF Holding, X11!LoopStopped, X11!ApplyRegion, X11!PollGeometry,
        X11!Reconnect, X11!Leave
  <2>4. CASE X11!Reclaim \/ X11!DrainStopped \/ X11!Resized \/ X11!Reconnected
    BY <2>1, <2>4 DEF Holding, X11!Drains, X11!Drained, X11!Reclaim, X11!DrainStopped,
        X11!Resized, X11!Reconnected, X11!Leave
  <2>5. CASE X11!Join
    BY <2>1, <2>5 DEF Holding, X11!Join
  <2>6. QED
    BY <1>1, <2>2, <2>3, <2>4, <2>5 DEF X11!CaptureStep
<1>2. CASE X11!EncodeStep \/ X11!Panic
  BY <1>2, EncoderKeeps DEF Holding, X11!EncodeStep, X11!Panic, X11!Take, X11!Fit, X11!Encode,
      X11!PanicStops
<1>3. CASE X11!Outside \/ X11!Ended
  BY <1>3, OutsideKeeps DEF Holding
<1>4. QED
  BY <1>1, <1>2, <1>3 DEF X11!Next

LEMMA SurfacesKept ==
    ASSUME Typed, Holding, X11!Next
    PROVE  Surfaces'
<1> USE DEF Typed, Surfaces
<1>1. CASE X11!CaptureStep
  <2>1. CASE X11!Reclaim \/ X11!GrabFails \/ X11!Acquire
    BY <1>1, <2>1, CaptureKeeps DEF X11!Reclaim, X11!GrabFails, X11!Acquire, X11!Frame,
        X11!NoFrame, Holding, X11!Leave
  <2>2. CASE X11!Publish
    <3>1. CASE slot = X11!NoFrame
      <4>1. [idx |-> held, size |-> size, gen |-> generation, birth |-> birth] \in X11!Frame
        BY <2>2 DEF X11!Publish, X11!Frame, Holding, Lengths, Numbers
      <4>2. QED
        BY <1>1, <2>2, <3>1, <4>1, CaptureKeeps DEF X11!Publish, X11!PublishStopped
    <3>2. CASE slot # X11!NoFrame
      BY <1>1, <2>2, <3>2, CaptureKeeps DEF X11!Publish
    <3>3. QED
      BY <3>1, <3>2
  <2>3. CASE X11!Resized \/ X11!Reconnected \/ X11!Join
    BY <1>1, <2>3, CaptureKeeps DEF X11!Resized, X11!Reconnected, X11!Join, X11!pool
  <2>4. QED
    BY <1>1, <2>1, <2>2, <2>3, LoopKeeps, CaptureKeeps DEF X11!CaptureStep
<1>2. CASE X11!EncodeStep \/ X11!Panic
  BY <1>2, EncoderKeeps DEF X11!EncodeStep, X11!Panic, X11!Take, X11!Fit, X11!Encode,
      X11!PanicStops, X11!Frame, X11!NoFrame, Holding, X11!pool
<1>3. CASE X11!Outside \/ X11!Ended
  BY <1>3, OutsideKeeps
<1>4. QED
  BY <1>1, <1>2, <1>3 DEF X11!Next

LEMMA DeviceKept ==
    ASSUME Typed, Holding, X11!Next
    PROVE  Device'
<1> USE DEF Typed, Device
<1>1. CASE X11!Fit
  <2>1. encoding \in X11!Frame
    BY <1>1 DEF X11!Fit, Holding, Surfaces
  <2>2. [size |-> encoding.size, gen |-> encoding.gen] \in [size : X11!Captured, gen : Nat]
    BY <2>1 DEF X11!Frame
  <2>3. [i \in X11!Idx |-> X11!None] \in [X11!Idx -> Nat]
    BY DEF X11!None
  <2>4. QED
    BY <1>1, <2>2, <2>3 DEF X11!Fit
<1>2. CASE X11!Encode
  <2>1. encoding.idx \in X11!Idx /\ encoding.birth \in Nat
    BY <1>2 DEF X11!Encode, Holding, Surfaces, X11!Frame
  <2>2. QED
    BY <1>2, <2>1 DEF X11!Encode
<1>3. CASE X11!Take \/ X11!PanicStops \/ X11!Panic
  BY <1>3 DEF X11!Take, X11!PanicStops, X11!Panic
<1>4. QED
  BY <1>1, <1>2, <1>3, CaptureKeeps, OutsideKeeps DEF X11!Next, X11!EncodeStep

LEMMA PlacesKept ==
    ASSUME Typed, Holding, Places, X11!Next
    PROVE  Places'
<1> USE DEF Typed, Places
<1>1. CASE X11!Reclaim
  BY <1>1 DEF X11!Reclaim, X11!encoder, Surfaces, Holding, X11!Drains, X11!Frame, X11!NoFrame, X11!Idx, X11!None
<1>2. CASE X11!Acquire
  BY <1>2 DEF X11!Acquire, X11!encoder, Surfaces, Holding, X11!Frame, X11!NoFrame, X11!Idx, X11!None
<1>3. CASE X11!GrabFails
  BY <1>3 DEF X11!GrabFails, X11!encoder, Surfaces, Holding, X11!Frame, X11!NoFrame, X11!Idx, X11!None
<1>4. CASE X11!Publish
  BY <1>4 DEF X11!Publish, X11!encoder, Surfaces, Holding, X11!Frame, X11!NoFrame, X11!Idx, X11!None
<1>5. CASE X11!Resized \/ X11!Reconnected \/ X11!Join
  BY <1>5 DEF X11!Resized, X11!Reconnected, X11!Join, X11!encoder, X11!pool
<1>6. CASE X11!Take
  BY <1>6, EncoderKeeps DEF X11!Take, X11!EncodeStep, Surfaces, Holding, X11!Frame, X11!NoFrame, X11!Idx, X11!None
<1>7. CASE X11!Encode
  BY <1>7, EncoderKeeps DEF X11!Encode, X11!EncodeStep, Surfaces, Holding, X11!Frame, X11!NoFrame, X11!Idx, X11!None
<1>8. CASE X11!Fit
  BY <1>8 DEF X11!Fit, X11!pool, X11!capture
<1>9. CASE X11!Panic \/ X11!PanicStops
  BY <1>9, EncoderKeeps DEF X11!Panic, X11!PanicStops, X11!EncodeStep, X11!pool
<1>10. QED
  BY <1>1, <1>2, <1>3, <1>4, <1>5, <1>6, <1>7, <1>8, <1>9, LoopKeeps, CaptureKeeps,
     OutsideKeeps DEF X11!Next, X11!CaptureStep, X11!EncodeStep

LEMMA BirthsKept ==
    ASSUME Typed, Holding, Places, Births, X11!Next
    PROVE  Births'
<1>1. CASE X11!Reclaim \/ X11!Acquire \/ X11!GrabFails
  BY <1>1, CaptureKeeps DEF Births, X11!CaptureStep, X11!Reclaim, X11!Acquire, X11!GrabFails,
      X11!Leave, X11!surfaces
<1>2. CASE X11!Publish
  <2>1. encoding' = encoding /\ birth' = birth /\ generation' = generation
    BY <1>2 DEF X11!Publish, X11!surfaces, X11!encoder
  <2>2. birth = generation + 1
    BY <1>2 DEF X11!Publish, Births
  <2>3. slot' \in {slot, [idx |-> held, size |-> size, gen |-> generation, birth |-> birth]}
    BY <1>2 DEF X11!Publish
  <2>4. slot' # X11!NoFrame => slot'.birth = slot'.gen + 1 /\ slot'.birth = birth
    BY <1>2, <2>2, <2>3 DEF X11!Publish, Births
  <2>5. QED
    BY <2>1, <2>2, <2>4 DEF Births
<1>3. CASE X11!Resized \/ X11!Reconnected
  <2>1. slot = X11!NoFrame /\ encoding = X11!NoFrame
    BY <1>3, DrainedHasAll DEF X11!Resized, X11!Reconnected
  <2>2. slot' = slot /\ encoding' = encoding
    BY <1>3 DEF X11!Resized, X11!Reconnected, X11!encoder
  <2>3. birth' = generation' + 1 \/ pc' \in {"Join", "Done"}
    BY <1>3 DEF X11!Resized, X11!Reconnected, X11!Recreate, X11!Leave, X11!surfaces, Births,
        X11!Drained, X11!Drains, Typed, Numbers
  <2>4. QED
    BY <2>1, <2>2, <2>3 DEF Births
<1>4. CASE X11!Join
  <2>1. encoding = X11!NoFrame
    BY <1>4 DEF X11!Join, Holding
  <2>2. QED
    BY <1>4, <2>1 DEF X11!Join, X11!encoder, X11!pool, Births
<1>5. CASE \/ X11!LoopStopped \/ X11!ApplyRegion \/ X11!PollGeometry \/ X11!DrainStopped
           \/ X11!GrabFrame \/ X11!Reconnect
  <2>1. pc' \in {"Join", "Done"} \/ pc \notin {"Join", "Done"}
    BY <1>5 DEF X11!LoopStopped, X11!ApplyRegion, X11!PollGeometry, X11!DrainStopped,
        X11!GrabFrame, X11!Reconnect, X11!Drains
  <2>2. pc # "Done"
    BY <1>5 DEF X11!LoopStopped, X11!ApplyRegion, X11!PollGeometry, X11!DrainStopped,
        X11!GrabFrame, X11!Reconnect, X11!Drains
  <2>3. QED
    BY <1>5, <2>1, <2>2, LoopKeeps, CaptureKeeps DEF Births, X11!CaptureStep
<1>6. CASE X11!Take
  <2>1. slot # X11!NoFrame => pc # "Done"
    BY <1>6 DEF X11!Take, Holding
  <2>2. QED
    BY <1>6, <2>1, EncoderKeeps DEF X11!Take, X11!EncodeStep, Births
<1>7. CASE X11!Fit \/ X11!Encode \/ X11!Panic \/ X11!PanicStops
  BY <1>7, EncoderKeeps DEF X11!Fit, X11!Encode, X11!Panic, X11!PanicStops, X11!EncodeStep,
      X11!pool, Births
<1>8. CASE X11!Outside \/ X11!Ended
  BY <1>8, OutsideKeeps DEF Births
<1>9. QED
  BY <1>1, <1>2, <1>3, <1>4, <1>5, <1>6, <1>7, <1>8 DEF X11!Next, X11!CaptureStep, X11!EncodeStep

LEMMA RegisteredKept ==
    ASSUME Typed, Holding, Births, Registered, X11!Next
    PROVE  Registered'
<1>1. CASE X11!Take \/ X11!PanicStops \/ X11!Panic
  BY <1>1 DEF X11!Take, X11!PanicStops, X11!Panic, Registered, X11!pool
<1>2. CASE X11!Fit
  <2>1. epc' = "Read" /\ encoding' = encoding
    BY <1>2 DEF X11!Fit
  <2>2. pipe' = [size |-> encoding.size, gen |-> encoding.gen]
    BY <1>2 DEF X11!Fit, X11!Fits
  <2>3. ASSUME NEW i \in X11!Idx, pins'[i] # X11!None
        PROVE  pipe' # X11!NoPipe /\ pins'[i] = pipe'.gen + 1
    BY <1>2, <2>3 DEF X11!Fit, Registered
  <2>4. QED
    BY <2>1, <2>2, <2>3 DEF Registered
<1>3. CASE X11!Encode
  <2>1. pipe' = pipe /\ epc' = "Take"
    BY <1>3 DEF X11!Encode
  <2>2. encoding # X11!NoFrame /\ encoding \in X11!Frame
    BY <1>3 DEF X11!Encode, Holding, Typed, Surfaces
  <2>3. /\ pipe = [size |-> encoding.size, gen |-> encoding.gen]
        /\ encoding.birth = encoding.gen + 1
    BY <1>3, <2>2 DEF X11!Encode, Registered, Births
  <2>4. pipe # X11!NoPipe /\ pipe.gen + 1 = encoding.birth
    BY <2>2, <2>3 DEF X11!NoPipe, X11!Frame
  <2>5. pins' = [pins EXCEPT ![encoding.idx] = IF @ = X11!None THEN encoding.birth ELSE @]
    BY <1>3 DEF X11!Encode
  <2>6. QED
    BY <2>1, <2>4, <2>5 DEF Registered, Typed, Device
<1>4. QED
  BY <1>1, <1>2, <1>3, CaptureKeeps, OutsideKeeps DEF X11!Next, X11!EncodeStep, Registered

-----------------------------------------------------------------------------
LEMMA InitX11Inv == X11!Init => X11Inv
<1> SUFFICES ASSUME X11!Init PROVE X11Inv
  OBVIOUS
<1> USE DEF X11!Init
<1>1. Flags
  BY Zenon DEF Flags
<1>2. Lengths /\ Steps /\ Numbers
  BY CaptureAssumption, ResolvedIsCaptured
     DEF Lengths, Steps, Numbers, X11!X11Assumption
<1>3. Surfaces /\ Device
  BY DEF Surfaces, Device, X11!None
<1>4. Holding /\ Places /\ Births /\ Registered
  BY DEF Holding, Places, Births, Registered, X11!Idx, X11!None, X11!NoFrame
<1>5. QED
  BY <1>1, <1>2, <1>3, <1>4 DEF X11Inv, Typed

LEMMA NextX11Inv == X11Inv /\ [X11!Next]_(X11!vars) => X11Inv'
<1>1. ASSUME X11Inv, X11!Next PROVE X11Inv'
  BY <1>1, FlagsKept, LengthsKept, StepsKept, NumbersKept, SurfacesKept, DeviceKept,
     HoldingKept, PlacesKept, BirthsKept, RegisteredKept DEF X11Inv, Typed
<1>2. ASSUME X11Inv, UNCHANGED X11!vars PROVE X11Inv'
  BY <1>2 DEF X11!vars, X11!outside, X11!pool, X11!retries, X11!encoder, X11Inv, Typed, Flags,
      Lengths, Steps, Numbers, Surfaces, Device, Holding, Places, Births, Registered
<1>3. QED
  BY <1>1, <1>2

-----------------------------------------------------------------------------
(* A root that shrinks.                                                    *)

\* A grab that fails on a connection that answers was for a size the root no longer
\* has: each such failure has a change of the root of its own behind it, as the next
\* grab waits for the size to be followed.
Chased ==
    /\ conn <= server /\ fresh <= server
    /\ pc \in {"Reconnect", "DrainReconnect"} => failures = GrabFailures + 1
    /\ X11!Answers =>
           /\ failures <= changes
           /\ size > root /\ (failures = 0 \/ pc \in {"Acquire", "Grab"}) => failures < changes
           /\ pc = "DrainRegion" /\ target > root /\ failures = 0 => 0 < changes
    /\ pc = "DrainReconnect" /\ up /\ fresh = server /\ target > root => 0 < changes


LEMMA ResolvedFits ==
    ASSUME NEW r \in Sizes, NEW asks \in Regions
    PROVE  X11!Resolve(r, asks) <= r
  BY CaptureAssumption DEF X11!Resolve, X11!X11Assumption

LEMMA InitChased == X11!Init => Chased
<1>1. ASSUME X11!Init PROVE Chased
  <2>1. size <= root
    BY <1>1, ResolvedFits DEF X11!Init
  <2>2. size \in Nat /\ root \in Nat
    BY <1>1, ResolvedIsCaptured, CaptureAssumption DEF X11!Init, X11!Captured, X11!X11Assumption
  <2>3. QED
    BY <1>1, <2>1, <2>2 DEF X11!Init, Chased
<1>2. QED
  BY <1>1

LEMMA NextChased ==
    ASSUME Lengths, Numbers, Chased, X11!Next
    PROVE  Chased'
<1>1. /\ root \in Nat /\ size \in Nat /\ target \in Nat
      /\ server \in Nat /\ conn \in Nat /\ fresh \in Nat
      /\ failures \in Nat /\ changes \in Nat /\ GrabFailures \in Nat
  BY CaptureAssumption DEF Lengths, Numbers, X11!Captured, X11!X11Assumption
<1>2. CASE X11!EncodeStep \/ X11!Panic \/ X11!Ended
  BY <1>2 DEF Chased, X11!Answers, X11!EncodeStep, X11!Take, X11!Fit, X11!Encode,
      X11!PanicStops, X11!Panic, X11!Ended, X11!vars, X11!outside, X11!capture, X11!retries
<1>3. CASE X11!Outside
  BY <1>1, <1>3, CaptureAssumption
     DEF Chased, Lengths, X11!X11Assumption, X11!Answers, X11!Outside, X11!RootResizes,
         X11!ServerEnds, X11!ServerStarts, X11!SetRegion, X11!RequestStop, X11!Change,
         X11!threads, X11!capture, X11!retries
<1>4. CASE X11!CaptureStep
  <2>0. UNCHANGED <<root, server, up, changes>>
    BY <1>4 DEF X11!CaptureStep, X11!LoopStopped, X11!ApplyRegion, X11!PollGeometry,
        X11!Reclaim, X11!DrainStopped, X11!Resized, X11!Acquire, X11!GrabFrame,
        X11!GrabFails, X11!Reconnect, X11!Reconnected, X11!Publish, X11!Join, X11!outside
  <2>1. CASE \/ X11!LoopStopped \/ X11!Reclaim \/ X11!DrainStopped \/ X11!Acquire
             \/ X11!Publish \/ X11!Join
    BY <1>1, <2>0, <2>1
       DEF Chased, X11!Answers, X11!LoopStopped, X11!Reclaim, X11!DrainStopped, X11!Acquire,
           X11!Publish, X11!Join, X11!Leave, X11!surfaces, X11!retries, X11!Drains
  <2>2. CASE X11!ApplyRegion \/ X11!PollGeometry
    <3>1. /\ X11!Resolve(root, region) <= root /\ X11!Resolve(root, asked) <= root
          /\ X11!Resolve(root, region) \in Nat /\ X11!Resolve(root, asked) \in Nat
      BY <1>1, ResolvedFits, ResolvedIsCaptured, CaptureAssumption
         DEF Lengths, X11!Captured, X11!X11Assumption
    <3>2. QED
      BY <1>1, <2>0, <2>2, <3>1
         DEF Chased, X11!Answers, X11!ApplyRegion, X11!PollGeometry, X11!PollDue, X11!retries
  <2>3. CASE X11!Resized
    <3>1. X11!Resolve(root, asked) <= root /\ X11!Resolve(root, asked) \in Nat
      BY <1>1, ResolvedFits, ResolvedIsCaptured, CaptureAssumption
         DEF Lengths, X11!Captured, X11!X11Assumption
    <3>2. QED
      BY <1>1, <2>0, <2>3, <3>1
         DEF Chased, X11!Answers, X11!Resized, X11!Recreate, X11!Leave, X11!surfaces,
             X11!retries, X11!Drained, X11!Drains
  <2>4. CASE X11!GrabFrame \/ X11!GrabFails
    BY <1>1, <2>0, <2>4
       DEF Chased, Numbers, X11!Answers, X11!GrabFrame, X11!GrabFails, X11!GrabsSpent,
           X11!surfaces
  <2>5. CASE X11!Reconnect
    <3>1. X11!Resolve(root, asked) <= root /\ X11!Resolve(root, asked) \in Nat
      BY <1>1, ResolvedFits, ResolvedIsCaptured, CaptureAssumption
         DEF Lengths, X11!Captured, X11!X11Assumption
    <3>2. QED
      BY <1>1, <2>0, <2>5, <3>1
         DEF Chased, X11!Answers, X11!Reconnect, X11!Leave, X11!surfaces, X11!GaveUp
  <2>6. CASE X11!Reconnected
    BY <1>1, <2>0, <2>6
       DEF Chased, X11!Answers, X11!Reconnected, X11!Recreate, X11!Leave, X11!surfaces,
           X11!Drained, X11!Drains
  <2>7. QED
    BY <1>4, <2>1, <2>2, <2>3, <2>4, <2>5, <2>6 DEF X11!CaptureStep
<1>5. QED
  BY <1>2, <1>3, <1>4 DEF X11!Next

LEMMA StutterChased == Chased /\ UNCHANGED X11!vars => Chased'
  BY DEF Chased, X11!Answers, X11!vars, X11!outside, X11!retries

-----------------------------------------------------------------------------
(* Of the run's specification: the controls step, or the capture does.     *)

MCInv == IInv /\ X11Inv /\ Chased

LEMMA InitMCInv == MCInit => MCInv
  BY InitIInv, InitX11Inv, InitChased DEF MCInit, MCInv

LEMMA NextMCInv == MCInv /\ [MCNext]_<<kind, vars, X11Only>> => MCInv'
<1>1. X11!vars = X11!vars' <=> UNCHANGED X11Only
  BY DEF X11Only, X11!vars, X11!outside, X11!pool, X11!retries, X11!encoder
<1>2. ASSUME MCInv, UNCHANGED vars \/ Next PROVE IInv'
  BY <1>2, NextIInv DEF MCInv
<1>3. ASSUME MCInv, UNCHANGED X11Only \/ X11!Next PROVE X11Inv' /\ Chased'
  BY <1>1, <1>3, NextX11Inv, NextChased, StutterChased DEF MCInv, X11Inv, Typed
<1>4. QED
  BY <1>2, <1>3 DEF MCInv, MCNext

LEMMA MCInvHolds == MCSpec => []MCInv
  BY InitMCInv, NextMCInv, PTL DEF MCSpec

\* The type invariant: with it, that the counts of failures, attempts and
\* reconnections stay within what the capture takes.
THEOREM CaptureTypes == MCSpec => []Types
<1>1. ASSUME MCInv PROVE Types
  <2>1. TypeOK
    BY <1>1, ControlsAreTyped DEF MCInv
  <2>2. X11!TypeOK
    BY <1>1, Zenon
       DEF MCInv, X11Inv, Typed, Flags, Lengths, Steps, Numbers, Surfaces, Device, X11!TypeOK
  <2>3. QED
    BY <2>1, <2>2 DEF Types
<1>2. QED
  BY <1>1, MCInvHolds, PTL

\* No surface is destroyed under the encode thread, nor read through what was
\* registered of one that is: the drain ahead of every recreation and the join
\* ahead of the teardown hold whatever is resized, restarted or refused.
THEOREM ReadsAreLive == MCSpec => []ReadsLive
<1>1. ASSUME MCInv PROVE ReadsLive
  <2>1. encoding # X11!NoFrame => encoding.birth = birth
    BY <1>1 DEF MCInv, X11Inv, Births
  <2>2. ASSUME epc = "Read" PROVE pins[encoding.idx] \in {X11!None, encoding.birth}
    <3>1. encoding # X11!NoFrame
      BY <1>1, <2>2 DEF MCInv, X11Inv, Holding
    <3>2. encoding \in X11!Frame /\ encoding.birth = encoding.gen + 1
      BY <1>1, <3>1 DEF MCInv, X11Inv, Typed, Surfaces, Births
    <3>3. pipe.gen = encoding.gen
      BY <1>1, <2>2 DEF MCInv, X11Inv, Registered
    <3>4. QED
      BY <1>1, <3>2, <3>3 DEF MCInv, X11Inv, Registered, X11!Frame
  <2>3. QED
    BY <2>1, <2>2 DEF ReadsLive, X11!ReadsLive
<1>2. QED
  BY <1>1, MCInvHolds, PTL

\* A surface is free, captured into, published or read, and only one of them, and
\* none is lost but to an encoder's panic.
THEOREM SurfacesInOnePlace == MCSpec => []SurfacesConserved
<1> DEFINE places == <<free, {held}, {slot.idx}, {encoding.idx}>>
           In(i) == {k \in DOMAIN places : i \in places[k]}
<1>0. \A S : X11!Cardinality(S) = Cardinality(S)
  BY DEF X11!Cardinality, Cardinality
<1>1. ASSUME MCInv, NEW i \in X11!Idx
      PROVE  /\ Cardinality(In(i)) <= 1
             /\ epc \notin {"Panicking", "Panicked"} => In(i) # {}
  <2>1. /\ slot # X11!NoFrame \/ slot.idx = X11!None
        /\ encoding # X11!NoFrame \/ encoding.idx = X11!None
        /\ i # X11!None
    BY DEF X11!NoFrame, X11!Idx, X11!None
  <2>2. \A j, k \in In(i) : j = k
    BY <1>1, <2>1 DEF MCInv, X11Inv, Places
  <2>3. CASE In(i) = {}
    <3>1. Cardinality(In(i)) = 0
      BY <2>3, FS_EmptySet
    <3>2. epc \in {"Panicking", "Panicked"}
      <4>1. SUFFICES ASSUME epc \notin {"Panicking", "Panicked"} PROVE FALSE
        OBVIOUS
      <4>2. i \in free \cup {held, slot.idx, encoding.idx}
        BY <1>1, <4>1 DEF MCInv, X11Inv, Places
      <4>3. QED
        BY <2>3, <4>2
    <3>3. QED
      BY <3>1, <3>2
  <2>4. CASE In(i) # {}
    <3>1. PICK k : In(i) = {k}
      BY <2>2, <2>4
    <3>2. QED
      BY <2>4, <3>1, FS_Singleton
  <2>5. QED
    BY <2>3, <2>4
<1>2. MCInv => SurfacesConserved
  BY <1>0, <1>1, Zenon DEF SurfacesConserved, X11!SurfacesConserved
<1>3. QED
  BY <1>2, MCInvHolds, PTL

\* The capture gives a connection that answers up only after more changes from
\* outside than the failures it takes: a root that shrinks once is followed.
THEOREM ShrinksAreSpent ==
    MCSpec => [](pc = "Reconnect" /\ X11!Answers => GrabFailures < changes)
<1>1. ASSUME MCInv PROVE pc = "Reconnect" /\ X11!Answers => GrabFailures < changes
  BY <1>1, CaptureAssumption
     DEF MCInv, X11Inv, Typed, Numbers, Chased, X11!X11Assumption
<1>2. QED
  BY <1>1, MCInvHolds, PTL

\* As many changes as the failures it takes, 120 in the code, are not enough for it.
THEOREM ShrinksAreFollowed ==
    ASSUME MaxChanges <= GrabFailures
    PROVE  MCSpec => []ShrinkIsFollowed
<1>1. ASSUME MCInv PROVE ShrinkIsFollowed
  BY <1>1, CaptureAssumption
     DEF MCInv, X11Inv, Typed, Numbers, Chased, X11!X11Assumption, ShrinkIsFollowed,
         X11!ShrinkIsFollowed
<1>2. QED
  BY <1>1, MCInvHolds, PTL

=============================================================================
