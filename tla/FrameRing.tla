------------------------------- MODULE FrameRing -------------------------------
(***************************************************************************)
(* The virtual camera's frame ring (webcam/ring.rs): one writer, readers   *)
(* in other processes, a seqlock per slot and a header naming the newest   *)
(* one.  The stores of publish wait in program order in a buffer, and the  *)
(* memory model says in which order they reach the readers: theirs on      *)
(* x86_64, and with Weak what the orderings written in the code alone      *)
(* promise, as an aarch64 build gives.                                     *)
(*                                                                         *)
(* The reader is the V4L2 interposer, kept elsewhere; it loads in order,   *)
(* as read_latest of the tests does.                                       *)
(***************************************************************************)
EXTENDS Naturals, SequencesExt

CONSTANTS
    Slots,       \* n_slots, at least two
    Weak,        \* the memory orders no more than the code asks for
    Compressed,  \* an MJPEG device: a fill may fail with the slot half written
    MaxFrames    \* bound: calls of publish

RingAssumption == Slots \in Nat /\ Slots >= 2 /\ MaxFrames \in Nat

Spoiled == MaxFrames + 1  \* what a failed fill leaves

VARIABLES
    nextSlot, slotSeq, frameSeq,  \* the fields of Ring
    calls,    \* how many publishes there were
    stores,   \* issued and not yet seen by the reader
    mem,      \* what the reader sees
    aim,      \* the reader: the latest_frame_seq it set out for, 0 between
    slot,     \*   reads, the latest_slot it found, Slots before
    copy,     \*   what it loaded of that slot
    taken     \* history: the last copy accepted

vars == <<nextSlot, slotSeq, frameSeq, calls, stores, mem, aim, slot, copy, taken>>
writer == <<nextSlot, slotSeq, frameSeq, calls>>
reader == <<aim, slot, copy, taken>>

SlotWords == {"seq", "meta", "top", "bottom"} \X (0 .. Slots - 1)
Words == SlotWords \cup {<<"latest", "slot">>, <<"latest", "frame">>}
Copied == [frame : Nat, top : Nat, bottom : Nat, aim : Nat]

TypeOK ==
    /\ nextSlot \in 0 .. Slots - 1 /\ slotSeq \in [0 .. Slots - 1 -> Nat]
    /\ frameSeq <= calls /\ calls \in 0 .. MaxFrames
    /\ stores \in Seq([at : Words, value : Nat, release : BOOLEAN])
    /\ mem \in [Words -> Nat]
    /\ aim \in Nat /\ slot \in 0 .. Slots /\ copy \in Seq(Nat)
    /\ taken \in Copied

Init ==
    /\ nextSlot = 0 /\ slotSeq = [i \in 0 .. Slots - 1 |-> 0] /\ frameSeq = 0
    /\ calls = 0 /\ stores = <<>> /\ mem = [word \in Words |-> 0]
    /\ aim = 0 /\ slot = Slots /\ copy = <<>>
    /\ taken = [frame |-> 0, top |-> 0, bottom |-> 0, aim |-> 0]

-----------------------------------------------------------------------------
(* publish, its stores in program order.                                   *)

Store(word, of, value) == [at |-> <<word, of>>, value |-> value, release |-> FALSE]
Release(word, of, value) == [at |-> <<word, of>>, value |-> value, release |-> TRUE]

\* The slot's seq of its k-th step, odd while the slot is written.
Bump(k) == Release("seq", nextSlot, slotSeq[nextSlot] + k)

\* The stores of one publish are long out when the next frame is decoded.
Issue(issued) ==
    /\ calls < MaxFrames /\ calls' = calls + 1
    /\ stores = <<>> /\ stores' = issued
    /\ slotSeq' = [slotSeq EXCEPT ![nextSlot] = @ + 2]

\* Mutant of Publishing: the slot is even before its metadata is in.
PublishingEarly(frame) ==
    <<Bump(1), Store("top", nextSlot, frame), Store("bottom", nextSlot, frame),
      Bump(2), Store("meta", nextSlot, frame),
      Release("latest", "slot", nextSlot), Release("latest", "frame", frame)>>

Publishing(frame) ==
    <<Bump(1), Store("top", nextSlot, frame), Store("bottom", nextSlot, frame),
      Store("meta", nextSlot, frame), Bump(2),
      Release("latest", "slot", nextSlot), Release("latest", "frame", frame)>>

Publish ==
    /\ Issue(Publishing(frameSeq + 1))
    /\ frameSeq' = frameSeq + 1
    /\ nextSlot' = (nextSlot + 1) % Slots
    /\ UNCHANGED <<mem, reader>>

\* A fill that returns 0, or more than the slot holds, and what it wrote: the
\* raw formats nothing, an MJPEG encoder that ran out of the slot a part.
Abandon(spoilt) ==
    /\ spoilt => Compressed
    /\ Issue(IF spoilt THEN <<Bump(1), Store("top", nextSlot, Spoiled), Bump(2)>>
             ELSE <<Bump(1), Bump(2)>>)
    /\ UNCHANGED <<frameSeq, nextSlot, mem, reader>>

\* A store reaches the readers: a release after all before it, and with Weak
\* any other past whatever is not of its own word.
Overtakes(i) ==
    /\ Weak /\ ~stores[i].release
    /\ \A j \in 1 .. i - 1 : stores[j].at # stores[i].at

Commit ==
    /\ \E i \in DOMAIN stores :
        /\ i = 1 \/ Overtakes(i)
        /\ mem' = [mem EXCEPT ![stores[i].at] = stores[i].value]
        /\ stores' = RemoveAt(stores, i)
    /\ UNCHANGED <<writer, reader>>

-----------------------------------------------------------------------------
(* A reader that copies the newest slot.                                   *)

SetOut ==
    /\ aim = 0 /\ mem[<<"latest", "frame">>] > taken.frame
    /\ aim' = mem[<<"latest", "frame">>]
    /\ UNCHANGED <<writer, stores, mem, slot, copy, taken>>

FindSlot ==
    /\ aim > 0 /\ slot = Slots
    /\ slot' = mem[<<"latest", "slot">>]
    /\ UNCHANGED <<writer, stores, mem, aim, copy, taken>>

Loads == <<"seq", "meta", "top", "bottom", "seq">>

Load ==
    /\ slot < Slots /\ Len(copy) < Len(Loads)
    /\ copy' = Append(copy, mem[<<Loads[Len(copy) + 1], slot>>])
    /\ UNCHANGED <<writer, stores, mem, aim, slot, taken>>

Accepted == copy[1] = copy[5] /\ copy[1] % 2 = 0

\* The copy is taken, or the newest slot is looked for again.
Judge ==
    /\ Len(copy) = Len(Loads)
    /\ slot' = Slots /\ copy' = <<>>
    /\ IF Accepted
       THEN /\ aim' = 0
            /\ taken' = [frame |-> copy[2], top |-> copy[3], bottom |-> copy[4], aim |-> aim]
       ELSE UNCHANGED <<aim, taken>>
    /\ UNCHANGED <<writer, stores, mem>>

-----------------------------------------------------------------------------
Write == Publish \/ (\E spoilt \in BOOLEAN : Abandon(spoilt)) \/ Commit
Read == SetOut \/ FindSlot \/ Load \/ Judge

Next == Write \/ Read
Spec == Init /\ [][Next]_vars

\* A copy accepted is one frame, all of it with its own metadata, and no older
\* than the frame the header advertised when the reader set out: "Readers copy
\* the newest slot and retry if `seq` changed or was odd" (the head of ring.rs).
FrameIsWhole ==
    /\ taken.top = taken.frame /\ taken.bottom = taken.frame
    /\ taken.frame >= taken.aim

=============================================================================
