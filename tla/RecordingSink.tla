----------------------------- MODULE RecordingSink -----------------------------
(***************************************************************************)
(* The recording socket of a capture (recording_sink.rs): the accept       *)
(* thread lists a client and flags it, the encode thread or, on Wayland,   *)
(* the compositor's tick swaps the flag for a key frame, the encode thread *)
(* offers every frame to each client's bounded queue, and a writer thread  *)
(* per client sends what is in it.  A client too slow for its queue is     *)
(* dropped.                                                                *)
(*                                                                         *)
(* Frames are full-frame video; a striped stream is not recorded, and one  *)
(* that becomes full-frame begins with a key frame.  The sink's own end is *)
(* in CaptureRestart.                                                      *)
(***************************************************************************)
EXTENDS Naturals, Sequences

CONSTANTS
    Clients,   \* those that connect, each once
    QueueCap,  \* CLIENT_QUEUE_CAP
    MaxFrames  \* bound: frames encoded

None == 0

SinkAssumption == QueueCap \in Nat /\ MaxFrames \in Nat

VARIABLES
    listed,     \* RecordingSink::clients
    accepting,  \* the client the accept thread holds the list's lock for
    connected,  \* client_connected
    ticking,    \* the compositor's tick took that flag and is to ask for its key frame
    forceIdr,   \* controls.force_idr
    encoding,   \* the encode thread: "idle", "encoding", "offering"
    requested,  \* requested_idr of the frame it is at
    frame,      \* the last frame encoded: its number and whether it is a key
    queue,      \* per client: its bounded channel
    stopped,    \* its handle's stop
    writer,     \* its thread: "none", "waiting", "writing", "ended"
    hand,       \* the frame that thread writes
    last,       \* history: the last frame written out to it, None before one
    keyed       \* history: it was offered a key frame

vars == <<listed, accepting, connected, ticking, forceIdr, encoding, requested, frame, queue,
          stopped, writer, hand, last, keyed>>
encoder == <<connected, ticking, forceIdr, encoding, requested, frame>>
written == <<stopped, writer, hand, last>>

Frame == [n : 0 .. MaxFrames, key : BOOLEAN]
First == [n |-> None, key |-> FALSE]

TypeOK ==
    /\ listed \subseteq Clients /\ accepting \in SUBSET Clients
    /\ {connected, ticking, forceIdr, requested} \subseteq BOOLEAN
    /\ encoding \in {"idle", "encoding", "offering"} /\ frame \in Frame
    /\ \A c \in Clients : queue[c] \in Seq(Frame) /\ Len(queue[c]) <= QueueCap
    /\ {stopped, keyed} \subseteq [Clients -> BOOLEAN]
    /\ writer \in [Clients -> {"none", "waiting", "writing", "ended"}]
    /\ hand \in [Clients -> Frame] /\ last \in [Clients -> 0 .. MaxFrames]

Init ==
    /\ listed = {} /\ accepting = {}
    /\ connected = FALSE /\ ticking = FALSE /\ forceIdr = FALSE
    /\ encoding = "idle" /\ requested = FALSE /\ frame = First
    /\ queue = [c \in Clients |-> <<>>] /\ stopped = [c \in Clients |-> FALSE]
    /\ writer = [c \in Clients |-> "none"] /\ hand = [c \in Clients |-> First]
    /\ last = [c \in Clients |-> None] /\ keyed = [c \in Clients |-> FALSE]

-----------------------------------------------------------------------------
(* The accept thread, which holds the list's lock over both steps.         *)

Accept(c) ==
    /\ writer[c] = "none" /\ accepting = {}
    /\ writer' = [writer EXCEPT ![c] = "waiting"]
    /\ listed' = listed \cup {c} /\ accepting' = {c}
    /\ UNCHANGED <<encoder, queue, stopped, hand, last, keyed>>

Flag ==
    /\ accepting # {} /\ accepting' = {}
    /\ connected' = TRUE
    /\ UNCHANGED <<listed, ticking, forceIdr, encoding, requested, frame, queue, written, keyed>>

-----------------------------------------------------------------------------
(* The compositor's tick, which asks where a client has just connected and *)
(* may take the flag ahead of the encode thread.                           *)

TickTakes ==
    /\ connected /\ ~ticking
    /\ connected' = FALSE /\ ticking' = TRUE
    /\ UNCHANGED <<listed, accepting, forceIdr, encoding, requested, frame, queue, written,
                   keyed>>

\* request_idr of a pooled capture.
TickAsks ==
    /\ ticking /\ ticking' = FALSE
    /\ forceIdr' = TRUE
    /\ UNCHANGED <<listed, accepting, connected, encoding, requested, frame, queue, written,
                   keyed>>

-----------------------------------------------------------------------------
(* The encode thread.                                                      *)

\* The request taken for the next frame: should_force_idr is only asked where
\* force_idr was not set.
Begin ==
    /\ encoding = "idle" /\ frame.n < MaxFrames
    /\ encoding' = "encoding"
    /\ requested' = (forceIdr \/ connected)
    /\ forceIdr' = FALSE /\ connected' = (forceIdr /\ connected)
    /\ UNCHANGED <<listed, accepting, ticking, frame, queue, written, keyed>>

\* Mutant of Rearmed: a frame that comes out empty takes the request with it.
RearmedNever == forceIdr

\* An unserved request stays armed.
Rearmed == forceIdr \/ requested

\* A frame comes out, the one asked for a key frame, or none does.
Encoded ==
    /\ encoding = "encoding"
    /\ \/ /\ encoding' = "offering"
          /\ \E key \in BOOLEAN :
              (requested => key) /\ frame' = [n |-> frame.n + 1, key |-> key]
          /\ UNCHANGED forceIdr
       \/ /\ encoding' = "idle" /\ forceIdr' = Rearmed
          /\ UNCHANGED frame
    /\ UNCHANGED <<listed, accepting, connected, ticking, requested, queue, written, keyed>>

\* Mutant of Dropped: a client misses what its queue has no room for.
DroppedNever(c) == writer[c] = "ended"

\* try_send fails: the queue is full, or its writer has ended.
Dropped(c) == writer[c] = "ended" \/ Len(queue[c]) = QueueCap

\* write_frame.
Offer ==
    /\ encoding = "offering" /\ accepting = {}
    /\ encoding' = "idle"
    /\ LET dropped == {c \in listed : Dropped(c)}
           takes == {c \in listed \ dropped : Len(queue[c]) < QueueCap}
       IN
       /\ listed' = listed \ dropped
       /\ stopped' = [c \in Clients |-> stopped[c] \/ c \in dropped]
       /\ queue' = [c \in Clients |->
                      IF c \in takes THEN Append(queue[c], frame) ELSE queue[c]]
       /\ keyed' = [c \in Clients |-> keyed[c] \/ (c \in takes /\ frame.key)]
    /\ UNCHANGED <<accepting, connected, ticking, forceIdr, requested, frame, writer, hand, last>>

-----------------------------------------------------------------------------
(* A client's writer.                                                      *)

\* The next frame, unless the handle was stopped; of a dropped client the
\* channel ends.
Drain(c) ==
    /\ writer[c] = "waiting"
    /\ \/ /\ queue[c] # <<>>
          /\ queue' = [queue EXCEPT ![c] = Tail(@)]
          /\ hand' = [hand EXCEPT ![c] = IF stopped[c] THEN First ELSE Head(queue[c])]
          /\ writer' = [writer EXCEPT ![c] = IF stopped[c] THEN "ended" ELSE "writing"]
       \/ /\ queue[c] = <<>> /\ c \notin listed
          /\ writer' = [writer EXCEPT ![c] = "ended"]
          /\ UNCHANGED <<queue, hand>>
    /\ UNCHANGED <<listed, accepting, encoder, stopped, last, keyed>>

Write(c) ==
    /\ writer[c] = "writing"
    /\ writer' = [writer EXCEPT ![c] = "waiting"]
    /\ last' = [last EXCEPT ![c] = hand[c].n] /\ hand' = [hand EXCEPT ![c] = First]
    /\ UNCHANGED <<listed, accepting, encoder, queue, stopped, keyed>>

\* The client is gone, or a stop caught the frame half written.
Break(c) ==
    /\ writer[c] = "writing"
    /\ writer' = [writer EXCEPT ![c] = "ended"] /\ hand' = [hand EXCEPT ![c] = First]
    /\ UNCHANGED <<listed, accepting, encoder, queue, stopped, last, keyed>>

-----------------------------------------------------------------------------
Next ==
    \/ Flag \/ TickTakes \/ TickAsks \/ Begin \/ Encoded \/ Offer
    \/ \E c \in Clients : Accept(c) \/ Drain(c) \/ Write(c) \/ Break(c)

Spec == Init /\ [][Next]_vars

-----------------------------------------------------------------------------
(* Properties.                                                             *)

\* A listed client that was offered no key frame has one coming: flagged, in
\* the tick's hands, asked for, or being encoded.  "A newly connected client arms
\* should_force_idr so the next encode emits an IDR it can decode from."
KeyIsOwed ==
    \A c \in listed :
        keyed[c] \/ writer[c] = "ended" \/ c \in accepting \/ connected \/ ticking
            \/ forceIdr \/ (encoding = "encoding" /\ requested) \/ (encoding = "offering" /\ frame.key)

\* What a client has been sent is an unbroken run of the stream: a frame it has
\* no room for ends it.
NoGap ==
    [][\A c \in Clients :
         last[c] # None => last'[c] \in {last[c], last[c] + 1}]_vars

=============================================================================
