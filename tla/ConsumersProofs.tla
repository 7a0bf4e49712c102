---------------------------- MODULE ConsumersProofs ----------------------------
(***************************************************************************)
(* What becomes of a capture's frames, for every number of captures,       *)
(* frames, clients and faults, and every depth of a queue: a client of the *)
(* recording socket is sent an unbroken run of the stream that begins with *)
(* the key frame it is owed; Python is called with the frames in order,    *)
(* none of them read from a buffer that had gone back, by no thread that   *)
(* outlives the Barrier; the camera's readers see no picture predicted     *)
(* through what its worker left out, and of its ring whole pictures only;  *)
(* and its server closes no reader for the hang-up of another.             *)
(***************************************************************************)
EXTENDS MCConsumers, Integers, SequenceTheorems, FiniteSetTheorems, TLAPS

\* CaptureRestart, with its proofs.
Restarts == INSTANCE CaptureRestartProofs WITH MaxFrames <- MaxPublished, hand <- holding

-----------------------------------------------------------------------------
(* The clients of the recording socket: the invariant.                     *)

Frames == [n : Nat, key : BOOLEAN]

\* Without the bound on the stream.
SinkTyped ==
    /\ listed \subseteq Clients
    /\ encoding \in {"idle", "encoding", "offering"}
    /\ frame \in Frames /\ QueueCap \in Nat
    /\ queue \in [Clients -> Seq(Frames)]
    /\ \A c \in Clients : Len(queue[c]) <= QueueCap
    /\ writer \in [Clients -> {"none", "waiting", "writing", "ended"}]
    /\ stopped \in [Clients -> BOOLEAN] /\ keyed \in [Clients -> BOOLEAN]
    /\ hand \in [Clients -> Frames] /\ last \in [Clients -> Nat]

\* The last frame that was offered to the clients.
Offered == IF encoding = "offering" THEN frame.n - 1 ELSE frame.n

\* The frames of a queue follow each other.
Follow(q) == \A i \in 1 .. Len(q) - 1 : q[i + 1].n = q[i].n + 1

\* What a client was sent, or is being sent: the queue goes on behind it.
Reached(c) == IF writer[c] = "writing" THEN hand[c].n ELSE last[c]

\* What is on its way to a client is one run, from what it has up to the last
\* frame offered where it is listed.
OnTheWay(c) ==
    /\ Follow(queue[c])
    /\ writer[c] = "writing" =>
           /\ hand[c].n # None
           /\ last[c] # None => hand[c].n = last[c] + 1
    /\ writer[c] = "none" => queue[c] = <<>> /\ last[c] = None /\ c \notin listed
    /\ (writer[c] # "ended" /\ queue[c] # <<>>) =>
           /\ Head(queue[c]).n # None
           /\ Reached(c) # None => Head(queue[c]).n = Reached(c) + 1
    /\ (writer[c] # "ended" /\ c \in listed) =>
           /\ queue[c] # <<>> => queue[c][Len(queue[c])].n = Offered
           /\ (queue[c] = <<>> /\ Reached(c) # None) => Reached(c) = Offered

InRun ==
    /\ encoding = "offering" => frame.n # None
    /\ \A c \in Clients : OnTheWay(c)

SinkInv == SinkTyped /\ InRun /\ KeyIsOwed

--------------------------------------------------------------------------------
(* Sequences.                                                              *)

\* What Head and Tail answer of a queue that holds a frame.
LEMMA TakeHead ==
    ASSUME NEW S, NEW q \in Seq(S), q # <<>>
    PROVE  /\ Len(q) \in Nat \ {0} /\ Head(q) = q[1] /\ q[1] \in S
           /\ Tail(q) \in Seq(S) /\ Len(Tail(q)) = Len(q) - 1
           /\ \A i \in 1 .. Len(q) - 1 : Tail(q)[i] = q[i + 1]
<1>1. Len(q) \in Nat \ {0}
  BY EmptySeq, LenProperties
<1>2. /\ Head(q) \in S /\ Tail(q) \in Seq(S) /\ Len(Tail(q)) = Len(q) - 1
      /\ \A i \in 1 .. Len(Tail(q)) : Tail(q)[i] = q[i + 1]
  BY HeadTailProperties
<1>3. Head(q) = q[1]
  OBVIOUS
<1>4. QED
  BY <1>1, <1>2, <1>3

\* And what a queue becomes with a frame behind.
LEMMA Behind ==
    ASSUME NEW S, NEW q \in Seq(S), NEW e \in S
    PROVE  /\ Append(q, e) \in Seq(S) /\ Append(q, e) # <<>>
           /\ Len(q) \in Nat /\ Len(Append(q, e)) = Len(q) + 1
           /\ \A i \in 1 .. Len(q) : Append(q, e)[i] = q[i]
           /\ Append(q, e)[Len(q) + 1] = e
<1>1. Len(q) \in Nat
  BY LenProperties
<1>2. /\ Append(q, e) \in Seq(S) /\ Len(Append(q, e)) = Len(q) + 1
      /\ \A i \in 1 .. Len(q) : Append(q, e)[i] = q[i]
      /\ Append(q, e)[Len(q) + 1] = e
  BY AppendProperties
<1>3. Append(q, e) # <<>>
  BY <1>1, <1>2, EmptySeq
<1>4. QED
  BY <1>1, <1>2, <1>3

\* A run stays one without its first frame.
LEMMA TailFollows ==
    ASSUME NEW q \in Seq(Frames), q # <<>>, Follow(q)
    PROVE  /\ Follow(Tail(q))
           /\ Tail(q) # <<>> => /\ Head(Tail(q)).n = Head(q).n + 1
                                /\ Tail(q)[Len(Tail(q))] = q[Len(q)]
           /\ Tail(q) = <<>> => q[Len(q)] = Head(q)
<1>1. /\ Len(q) \in Nat \ {0} /\ Head(q) = q[1]
      /\ Tail(q) \in Seq(Frames) /\ Len(Tail(q)) = Len(q) - 1
      /\ \A i \in 1 .. Len(q) - 1 : Tail(q)[i] = q[i + 1]
  BY TakeHead
<1>2. Follow(Tail(q))
  <2>1. SUFFICES ASSUME NEW i \in 1 .. Len(Tail(q)) - 1
                 PROVE  Tail(q)[i + 1].n = Tail(q)[i].n + 1
    BY DEF Follow
  <2>2. /\ i \in 1 .. Len(q) - 1 /\ i + 1 \in 1 .. Len(q) - 1
    BY <1>1, <2>1
  <2>3. Tail(q)[i] = q[i + 1] /\ Tail(q)[i + 1] = q[(i + 1) + 1]
    BY <1>1, <2>2
  <2>4. q[(i + 1) + 1].n = q[i + 1].n + 1
    BY <2>2 DEF Follow
  <2>5. QED
    BY <2>3, <2>4
<1>3. ASSUME Tail(q) # <<>>
      PROVE  /\ Head(Tail(q)).n = Head(q).n + 1
             /\ Tail(q)[Len(Tail(q))] = q[Len(q)]
  <2>1. Len(Tail(q)) \in Nat \ {0} /\ Head(Tail(q)) = Tail(q)[1]
    BY <1>1, <1>3, TakeHead
  <2>2. 1 \in 1 .. Len(q) - 1 /\ Len(q) - 1 \in 1 .. Len(q) - 1
    BY <1>1, <2>1
  <2>3. Tail(q)[1] = q[1 + 1] /\ Tail(q)[Len(q) - 1] = q[(Len(q) - 1) + 1]
    BY <1>1, <2>2
  <2>4. q[1 + 1].n = q[1].n + 1
    BY <2>2 DEF Follow
  <2>5. (Len(q) - 1) + 1 = Len(q)
    BY <1>1
  <2>6. QED
    BY <1>1, <2>1, <2>3, <2>4, <2>5
<1>4. ASSUME Tail(q) = <<>> PROVE q[Len(q)] = Head(q)
  <2>1. Len(q) = 1
    BY <1>1, <1>4, EmptySeq
  <2>2. QED
    BY <1>1, <2>1
<1>5. QED
  BY <1>2, <1>3, <1>4

\* And with the frame behind its last.
LEMMA BehindFollows ==
    ASSUME NEW q \in Seq(Frames), NEW e \in Frames, Follow(q),
           q # <<>> => e.n = q[Len(q)].n + 1
    PROVE  /\ Follow(Append(q, e)) /\ Append(q, e)[Len(Append(q, e))] = e
           /\ q # <<>> => Head(Append(q, e)) = Head(q)
           /\ q = <<>> => Head(Append(q, e)) = e
<1> DEFINE r == Append(q, e)
<1>1. /\ r \in Seq(Frames) /\ r # <<>> /\ Len(q) \in Nat /\ Len(r) = Len(q) + 1
      /\ \A i \in 1 .. Len(q) : r[i] = q[i]
      /\ r[Len(q) + 1] = e
  BY Behind
<1>2. Follow(r)
  <2>1. SUFFICES ASSUME NEW i \in 1 .. Len(r) - 1 PROVE r[i + 1].n = r[i].n + 1
    BY DEF Follow
  <2>2. i \in 1 .. Len(q) /\ r[i] = q[i]
    BY <1>1, <2>1
  <2>3. CASE i = Len(q)
    <3>1. q # <<>>
      BY <2>2, <1>1, EmptySeq
    <3>2. QED
      BY <1>1, <2>2, <2>3, <3>1
  <2>4. CASE i # Len(q)
    <3>1. i + 1 \in 1 .. Len(q) /\ i \in 1 .. Len(q) - 1
      BY <1>1, <2>2, <2>4
    <3>2. r[i + 1] = q[i + 1] /\ q[i + 1].n = q[i].n + 1
      BY <1>1, <3>1 DEF Follow
    <3>3. QED
      BY <2>2, <3>2
  <2>5. QED
    BY <2>3, <2>4
<1>3. Head(r) = r[1]
  BY <1>1, TakeHead
<1>4. q # <<>> => Head(r) = Head(q)
  <2>1. SUFFICES ASSUME q # <<>> PROVE Head(r) = Head(q)
    OBVIOUS
  <2>2. Len(q) \in Nat \ {0} /\ Head(q) = q[1]
    BY <2>1, TakeHead
  <2>3. QED
    BY <1>1, <1>3, <2>2
<1>5. q = <<>> => Head(r) = e
  <2>1. q = <<>> => Len(q) = 0
    OBVIOUS
  <2>2. QED
    BY <1>1, <1>3, <2>1
<1>6. QED
  BY <1>1, <1>2, <1>4, <1>5

-------------------------------------------------------------------------------
(* The invariant is inductive.                                             *)

\* Of a client whose own state a step leaves alone.
LEMMA Stays ==
    ASSUME NEW c, OnTheWay(c),
           queue'[c] = queue[c], writer'[c] = writer[c],
           hand'[c] = hand[c], last'[c] = last[c],
           c \in listed' => c \in listed /\ Offered' = Offered,
           writer[c] = "none" => c \notin listed'
    PROVE  OnTheWay(c)'
  BY DEF OnTheWay, Reached, Follow

LEMMA InitSinkInv ==
    ASSUME QueueCap \in Nat, Init
    PROVE  SinkInv
<1>1. First \in Frames
  BY DEF First, Frames, None
<1>2. <<>> \in Seq(Frames) /\ Len(<<>>) = 0
  BY EmptySeq
<1>3. SinkTyped
  BY <1>1, <1>2 DEF Init, SinkTyped, None
<1>4. Follow(<<>>)
  BY <1>2 DEF Follow
<1>5. \A c \in Clients : OnTheWay(c)
  BY <1>4 DEF Init, OnTheWay, None
<1>6. QED
  BY <1>3, <1>5 DEF Init, SinkInv, InRun, KeyIsOwed

\* One client accepted.
LEMMA AcceptSinkInv ==
    ASSUME SinkInv, NEW c \in Clients, Accept(c)
    PROVE  SinkInv'
<1> USE DEF SinkInv
<1>1. SinkTyped'
  BY DEF SinkTyped, Accept, encoder
<1>2. Offered' = Offered
  BY DEF Offered, Accept, encoder
<1>3. OnTheWay(c)'
  <2>1. queue'[c] = <<>> /\ last'[c] = None /\ writer'[c] = "waiting"
    BY DEF Accept, InRun, OnTheWay, SinkTyped
  <2>2. QED
    BY <2>1, EmptySeq DEF OnTheWay, Reached, Follow
<1>4. ASSUME NEW d \in Clients, d # c PROVE OnTheWay(d)'
  BY <1>2, <1>4, Stays DEF Accept, InRun, SinkTyped, OnTheWay
<1>5. InRun'
  BY <1>3, <1>4 DEF InRun, Accept, encoder
<1>6. KeyIsOwed'
  BY DEF KeyIsOwed, Accept, encoder, SinkTyped
<1>7. QED
  BY <1>1, <1>5, <1>6

\* A step of the accept thread, the tick or the encode thread that offers nothing.
LEMMA QuietSinkInv ==
    ASSUME SinkInv, Flag \/ TickTakes \/ TickAsks \/ Begin \/ Encoded
    PROVE  SinkInv'
<1> USE DEF SinkInv
<1>1. /\ UNCHANGED <<listed, queue, stopped, writer, hand, last, keyed>>
      /\ Offered' = Offered
  BY DEF SinkTyped, Frames, Flag, TickTakes, TickAsks, Begin, Encoded, written, Offered
<1>2. frame' \in Frames /\ encoding' \in {"idle", "encoding", "offering"}
  BY DEF SinkTyped, Frames, Flag, TickTakes, TickAsks, Begin, Encoded
<1>3. SinkTyped'
  BY <1>1, <1>2 DEF SinkTyped
<1>4. \A c \in Clients : OnTheWay(c)'
  BY <1>1, Stays DEF InRun, OnTheWay
<1>5. encoding' = "offering" => frame'.n # None
  BY DEF SinkTyped, Frames, InRun, Flag, TickTakes, TickAsks, Begin, Encoded, None
<1>6. KeyIsOwed'
  <2>1. CASE Flag
    BY <2>1 DEF KeyIsOwed, Flag, written
  <2>2. CASE Begin
    BY <2>2 DEF KeyIsOwed, Begin, written
  <2>3. CASE Encoded
    <3>1. SUFFICES ASSUME NEW c \in listed, ~keyed[c], writer[c] # "ended", c \notin accepting,
                          ~connected, ~ticking
                   PROVE  \/ forceIdr' \/ (encoding' = "encoding" /\ requested')
                          \/ (encoding' = "offering" /\ frame'.key)
      BY <1>1, <2>3 DEF KeyIsOwed, Encoded
    <3>2. forceIdr \/ requested
      BY <2>3, <3>1 DEF KeyIsOwed, Encoded
    <3>3. CASE encoding' = "idle" /\ forceIdr' = Rearmed
      BY <3>2, <3>3 DEF Rearmed
    <3>4. CASE /\ encoding' = "offering" /\ UNCHANGED forceIdr
               /\ \E key \in BOOLEAN :
                    (requested => key) /\ frame' = [n |-> frame.n + 1, key |-> key]
      BY <3>2, <3>4
    <3>5. QED
      BY <2>3, <3>3, <3>4 DEF Encoded
  <2>4. CASE TickTakes \/ TickAsks
    BY <2>4 DEF KeyIsOwed, TickTakes, TickAsks, written
  <2>5. QED
    BY <2>1, <2>2, <2>3, <2>4
<1>7. QED
  BY <1>3, <1>4, <1>5, <1>6 DEF InRun

\* A frame offered to every listed client: one that stays listed takes it.
LEMMA OfferSinkInv ==
    ASSUME SinkInv, Offer
    PROVE  SinkInv'
<1> USE DEF SinkInv
<1> DEFINE takes == {c \in listed : ~Dropped(c)}
<1>1. /\ listed' = takes
      /\ UNCHANGED <<accepting, connected, ticking, forceIdr, requested, frame, writer, hand, last>>
      /\ encoding = "offering" /\ encoding' = "idle"
  BY DEF Offer
<1>2. ASSUME NEW c \in Clients
      PROVE  /\ Len(queue[c]) \in Nat
             /\ c \in takes => Len(queue[c]) < QueueCap /\ writer[c] # "ended"
  <2>1. Len(queue[c]) \in Nat /\ Len(queue[c]) <= QueueCap
    BY LenProperties DEF SinkTyped
  <2>2. QED
    BY <2>1 DEF Dropped, SinkTyped
<1>3. ASSUME NEW c \in Clients
      PROVE  /\ queue'[c] = IF c \in takes THEN Append(queue[c], frame) ELSE queue[c]
             /\ keyed'[c] = (keyed[c] \/ (c \in takes /\ frame.key))
  BY <1>2 DEF Offer
<1>4. ASSUME NEW c \in Clients
      PROVE  queue'[c] \in Seq(Frames) /\ Len(queue'[c]) <= QueueCap
  <2>1. frame \in Frames /\ queue[c] \in Seq(Frames) /\ Len(queue[c]) <= QueueCap
    BY DEF SinkTyped
  <2>2. CASE c \in takes
    <3>1. queue'[c] = Append(queue[c], frame)
      BY <1>3, <2>2
    <3>2. Append(queue[c], frame) \in Seq(Frames) /\ Len(Append(queue[c], frame)) = Len(queue[c]) + 1
      BY <2>1, Behind
    <3>3. QED
      BY <1>2, <2>2, <3>1, <3>2 DEF SinkTyped
  <2>3. CASE c \notin takes
    BY <1>3, <2>1, <2>3
  <2>4. QED
    BY <2>2, <2>3
<1>5. SinkTyped'
  <2>1. queue' \in [Clients -> Seq(Frames)]
    BY <1>4 DEF Offer
  <2>2. keyed' \in [Clients -> BOOLEAN] /\ stopped' \in [Clients -> BOOLEAN]
    BY DEF SinkTyped, Frames, Offer
  <2>3. QED
    BY <1>1, <1>4, <2>1, <2>2 DEF SinkTyped
<1>6. ASSUME NEW c \in Clients, c \notin takes PROVE OnTheWay(c)'
  BY <1>1, <1>3, <1>6, Stays DEF InRun
<1>7. ASSUME NEW c \in Clients, c \in takes PROVE OnTheWay(c)'
  <2>1. /\ writer[c] \notin {"none", "ended"} /\ writer'[c] = writer[c]
        /\ Reached(c)' = Reached(c) /\ frame.n \in Nat \ {0}
        /\ Offered = frame.n - 1 /\ Offered' = frame.n
        /\ Reached(c) \in Nat
    BY <1>1, <1>2, <1>7 DEF InRun, OnTheWay, Reached, Offered, SinkTyped, Frames, None
  <2>2. queue[c] \in Seq(Frames) /\ frame \in Frames /\ Follow(queue[c])
    BY DEF SinkTyped, InRun, OnTheWay
  <2>3. queue[c] # <<>> => frame.n = queue[c][Len(queue[c])].n + 1
    BY <1>7, <2>1 DEF InRun, OnTheWay
  <2>4. /\ queue'[c] = Append(queue[c], frame) /\ queue'[c] # <<>>
        /\ Follow(queue'[c]) /\ queue'[c][Len(queue'[c])] = frame
        /\ queue[c] # <<>> => Head(queue'[c]) = Head(queue[c])
        /\ queue[c] = <<>> => Head(queue'[c]) = frame
    <3>1. queue'[c] = Append(queue[c], frame)
      BY <1>3, <1>7
    <3>2. Append(queue[c], frame) # <<>>
      BY <2>2, Behind
    <3>3. QED
      BY <2>2, <2>3, <3>1, <3>2, BehindFollows
  <2>5. /\ Head(queue'[c]).n # None
        /\ Reached(c) # None => Head(queue'[c]).n = Reached(c) + 1
    BY <1>7, <2>1, <2>4 DEF InRun, OnTheWay, None
  <2>6. writer[c] = "writing" => /\ hand[c].n # None
                                 /\ last[c] # None => hand[c].n = last[c] + 1
    BY DEF InRun, OnTheWay
  <2>7. QED
    <3>1. /\ listed' = takes /\ hand'[c] = hand[c] /\ last'[c] = last[c]
          /\ queue'[c][Len(queue'[c])].n = Offered'
      BY <1>1, <2>1, <2>4
    <3>2. Follow(queue[c])'
      BY <2>4 DEF Follow
    <3>3. /\ queue'[c] # <<>> /\ writer'[c] # "none"
          /\ Head(queue'[c]).n # None
          /\ Reached(c)' # None => Head(queue'[c]).n = Reached(c)' + 1
      BY <2>1, <2>4, <2>5
    <3>4. writer'[c] = "writing" => /\ hand'[c].n # None
                                    /\ last'[c] # None => hand'[c].n = last'[c] + 1
      BY <2>1, <2>6, <3>1
    <3>5. QED
      BY <3>1, <3>2, <3>3, <3>4 DEF OnTheWay
<1>8. InRun'
  BY <1>1, <1>6, <1>7 DEF InRun
<1>9. KeyIsOwed'
  <2>1. SUFFICES ASSUME NEW c \in takes
                 PROVE  keyed'[c] \/ writer'[c] = "ended" \/ connected' \/ ticking' \/ forceIdr'
    BY <1>1 DEF KeyIsOwed
  <2>2. c \in Clients /\ c \notin accepting
    BY DEF SinkTyped, Offer
  <2>3. QED
    BY <1>1, <1>2, <1>3, <2>1, <2>2 DEF KeyIsOwed, SinkTyped
<1>10. QED
  BY <1>5, <1>8, <1>9

\* What a step of one client's writer has to show: the rest stays.
LEMMA OwnSinkInv ==
    ASSUME SinkInv, NEW c \in Clients,
           UNCHANGED <<listed, accepting, encoder, keyed>>,
           SinkTyped', OnTheWay(c)',
           writer[c] = "ended" => writer'[c] = "ended",
           \A d \in Clients \ {c} : /\ queue'[d] = queue[d] /\ writer'[d] = writer[d]
                                    /\ hand'[d] = hand[d] /\ last'[d] = last[d]
    PROVE  SinkInv'
<1> USE DEF SinkInv
<1>1. Offered' = Offered
  BY DEF Offered, encoder
<1>2. ASSUME NEW d \in Clients, d # c PROVE OnTheWay(d)'
  BY <1>1, <1>2, Stays DEF InRun, OnTheWay
<1>3. InRun'
  BY <1>2 DEF InRun, encoder
<1>4. ASSUME NEW d \in listed PROVE writer[d] = "ended" => writer'[d] = "ended"
  BY DEF SinkTyped
<1>5. KeyIsOwed'
  BY <1>4 DEF KeyIsOwed, encoder
<1>6. QED
  BY <1>3, <1>5

LEMMA DrainSinkInv ==
    ASSUME SinkInv, NEW c \in Clients, Drain(c)
    PROVE  SinkInv'
<1> USE DEF SinkInv
<1>1. First \in Frames
  BY DEF First, Frames, None
<1>2. CASE queue[c] = <<>>
  <2>1. /\ UNCHANGED <<queue, hand, last, stopped>> /\ writer'[c] = "ended"
        /\ writer' = [writer EXCEPT ![c] = "ended"]
    BY <1>2 DEF Drain, SinkTyped
  <2>2. SinkTyped'
    BY <2>1 DEF SinkTyped, Drain, encoder
  <2>3. OnTheWay(c)'
    BY <2>1 DEF InRun, OnTheWay, Follow
  <2>4. QED
    BY <2>1, <2>2, <2>3, OwnSinkInv DEF Drain, SinkTyped
<1>3. CASE queue[c] # <<>>
  <2> DEFINE q == queue[c]
  <2>1. /\ q \in Seq(Frames) /\ Follow(q) /\ Len(q) <= QueueCap
        /\ writer[c] = "waiting" /\ Reached(c) = last[c] /\ last[c] \in Nat
    BY DEF Drain, SinkTyped, InRun, OnTheWay, Reached
  <2>2. /\ Tail(q) \in Seq(Frames) /\ Len(Tail(q)) = Len(q) - 1 /\ Len(q) \in Nat
        /\ Head(q) \in Frames
    BY <1>3, <2>1, TakeHead
  <2>3. /\ Follow(Tail(q))
        /\ Tail(q) # <<>> => /\ Head(Tail(q)).n = Head(q).n + 1
                             /\ Tail(q)[Len(Tail(q))] = q[Len(q)]
        /\ Tail(q) = <<>> => q[Len(q)] = Head(q)
    BY <1>3, <2>1, TailFollows
  <2>4. /\ queue' = [queue EXCEPT ![c] = Tail(q)]
        /\ hand' = [hand EXCEPT ![c] = IF stopped[c] THEN First ELSE Head(q)]
        /\ writer' = [writer EXCEPT ![c] = IF stopped[c] THEN "ended" ELSE "writing"]
        /\ UNCHANGED <<last, stopped>>
    BY <1>3 DEF Drain
  <2>5. SinkTyped'
    <3>1. queue' \in [Clients -> Seq(Frames)]
      BY <2>2, <2>4 DEF SinkTyped
    <3>2. ASSUME NEW d \in Clients PROVE Len(queue'[d]) <= QueueCap
      BY <2>1, <2>2, <2>4 DEF SinkTyped
    <3>3. /\ hand' \in [Clients -> Frames]
          /\ writer' \in [Clients -> {"none", "waiting", "writing", "ended"}]
      BY <1>1, <2>2, <2>4 DEF SinkTyped
    <3>4. QED
      BY <2>4, <3>1, <3>2, <3>3 DEF SinkTyped, Drain, encoder
  <2>6. /\ queue'[c] = Tail(q)
        /\ hand'[c] = IF stopped[c] THEN First ELSE Head(q)
        /\ writer'[c] = IF stopped[c] THEN "ended" ELSE "writing"
        /\ last'[c] = last[c] /\ listed' = listed /\ Offered' = Offered
    BY <2>4 DEF SinkTyped, Drain, Offered, encoder
  <2>7. Head(q).n # None /\ (last[c] # None => Head(q).n = last[c] + 1)
    BY <1>3, <2>1 DEF InRun, OnTheWay
  <2>8. c \in listed => q[Len(q)].n = Offered
    BY <1>3, <2>1 DEF InRun, OnTheWay
  <2>9. OnTheWay(c)'
    <3>1. CASE stopped[c]
      BY <2>3, <2>6, <3>1 DEF OnTheWay, Follow
    <3>2. CASE ~stopped[c]
      <4>1. /\ Reached(c)' = Head(q).n /\ Head(q).n \in Nat
            /\ writer'[c] = "writing" /\ hand'[c] = Head(q)
        BY <2>2, <2>6, <3>2 DEF Reached, Frames
      <4>2. Tail(q) # <<>> => Head(Tail(q)).n # None
        BY <2>3, <4>1 DEF None
      <4>3. QED
        BY <2>3, <2>6, <2>7, <2>8, <4>1, <4>2 DEF OnTheWay, Follow
    <3>3. QED
      BY <3>1, <3>2 DEF SinkTyped
  <2>10. QED
    BY <2>1, <2>4, <2>5, <2>9, OwnSinkInv DEF Drain, SinkTyped
<1>4. QED
  BY <1>2, <1>3

\* A frame written, or cut off.
LEMMA SendSinkInv ==
    ASSUME SinkInv, NEW c \in Clients, Write(c) \/ Break(c)
    PROVE  SinkInv'
<1> USE DEF SinkInv
<1>1. First \in Frames /\ hand[c].n \in Nat
  BY DEF First, Frames, None, SinkTyped
<1>2. /\ UNCHANGED <<listed, accepting, encoder, queue, stopped, keyed>>
      /\ hand' = [hand EXCEPT ![c] = First] /\ writer[c] = "writing"
  BY DEF Write, Break
<1>3. \/ writer' = [writer EXCEPT ![c] = "waiting"] /\ last' = [last EXCEPT ![c] = hand[c].n]
      \/ writer' = [writer EXCEPT ![c] = "ended"] /\ last' = last
  BY DEF Write, Break
<1>4. SinkTyped'
  BY <1>1, <1>2, <1>3 DEF SinkTyped, encoder
<1>5. Offered' = Offered /\ queue'[c] = queue[c] /\ listed' = listed
  BY <1>2 DEF Offered, encoder
<1>6. \/ writer'[c] = "waiting" /\ last'[c] = hand[c].n
      \/ writer'[c] = "ended"
  BY <1>3 DEF SinkTyped
<1>7. OnTheWay(c)'
  <2>1. Reached(c) = hand[c].n /\ (writer'[c] = "waiting" => Reached(c)' = hand[c].n)
    BY <1>2, <1>6 DEF Reached
  <2>2. QED
    BY <1>2, <1>5, <1>6, <2>1 DEF InRun, OnTheWay, Follow
<1>8. QED
  BY <1>2, <1>3, <1>4, <1>7, OwnSinkInv DEF SinkTyped

LEMMA NextSinkInv ==
    ASSUME SinkInv, [Next]_vars
    PROVE  SinkInv'
<1>1. CASE Flag \/ TickTakes \/ TickAsks \/ Begin \/ Encoded
  BY <1>1, QuietSinkInv
<1>2. CASE Offer
  BY <1>2, OfferSinkInv
<1>3. ASSUME NEW c \in Clients, Accept(c) PROVE SinkInv'
  BY <1>3, AcceptSinkInv
<1>4. ASSUME NEW c \in Clients, Drain(c) PROVE SinkInv'
  BY <1>4, DrainSinkInv
<1>5. ASSUME NEW c \in Clients, Write(c) \/ Break(c) PROVE SinkInv'
  BY <1>5, SendSinkInv
<1>6. CASE UNCHANGED vars
  BY <1>6 DEF vars, SinkInv, SinkTyped, InRun, KeyIsOwed, OnTheWay, Reached, Follow, Offered
<1>7. QED
  BY <1>1, <1>2, <1>3, <1>4, <1>5, <1>6 DEF Next

-----------------------------------------------------------------------------
(* The virtual camera.                                                     *)

\* A worker that is not parked lacks nothing it left out itself: without this
\* the next frame it decodes could be shown with the gap.
Parking == needKeyframe \/ "skipped" \notin missing

CameraInv == Camera!SkippedIsNotShown /\ Parking

\* The decoding of a frame the worker does not park lacks nothing it left out.
LEMMA NotParkedLacks ==
    ASSUME Parking, NEW j \in Camera!Job, ~Camera!Parked(j)
    PROVE  "skipped" \notin Camera!Lacks(j)
<1>1. CASE j.key \/ j.codec \notin Camera!Video
  BY <1>1 DEF Camera!Lacks
<1>2. CASE ~j.key /\ j.codec \in Camera!Video
  <2>1. ~needKeyframe /\ j.codec = decoder
    BY <1>2 DEF Camera!Parked, Camera!Needs
  <2>2. "skipped" \notin missing
    BY <2>1 DEF Parking
  <2>3. Camera!Lacks(j) = missing \cup (IF j.gap THEN {"evicted"} ELSE {})
    BY <1>2, <2>1 DEF Camera!Lacks
  <2>4. QED
    BY <2>2, <2>3
<1>3. QED
  BY <1>1, <1>2

LEMMA InitCameraInv == Camera!Init => CameraInv
  BY DEF Camera!Init, CameraInv, Camera!SkippedIsNotShown, Parking

\* The steps of the worker that decode.
LEMMA DecodingCameraInv ==
    ASSUME CameraInv, Camera!Decode \/ Camera!DecodePending \/ Camera!Corrupt \/ Camera!Fatal
    PROVE  CameraInv'
<1> USE DEF CameraInv
<1>1. CASE Camera!Decode
  <2>1. PICK j \in Camera!Job : /\ ~Camera!Parked(j) /\ missing' = Camera!Lacks(j)
                           /\ shown' \in {shown, Camera!Lacks(j)}
    BY <1>1 DEF Camera!Decode
  <2>2. "skipped" \notin Camera!Lacks(j)
    BY <2>1, NotParkedLacks
  <2>3. QED
    BY <2>1, <2>2 DEF Camera!SkippedIsNotShown, Parking
<1>2. CASE Camera!DecodePending
  <2>1. PICK j \in Camera!Job : ~Camera!Parked(j) /\ missing' = Camera!Lacks(j)
    BY <1>2 DEF Camera!DecodePending
  <2>2. "skipped" \notin Camera!Lacks(j) /\ UNCHANGED shown
    BY <1>2, <2>1, NotParkedLacks DEF Camera!DecodePending
  <2>3. QED
    BY <2>1, <2>2 DEF Camera!SkippedIsNotShown, Parking
<1>3. CASE Camera!Corrupt
  <2>1. UNCHANGED shown
    BY <1>3 DEF Camera!Corrupt
  <2>2. PICK j \in Camera!Job :
           /\ needKeyframe' = Camera!Parks(j)
           /\ missing' = IF j.codec \in Camera!Video THEN Camera!Lacks(j) \cup {"skipped"} ELSE missing
    BY <1>3 DEF Camera!Corrupt
  <2>3. needKeyframe' \/ "skipped" \notin missing'
    BY <2>2 DEF Camera!Parks, Camera!Needs, Parking
  <2>4. QED
    BY <2>1, <2>3 DEF Camera!SkippedIsNotShown, Parking
<1>4. CASE Camera!Fatal
  BY <1>4 DEF Camera!Fatal, Camera!SkippedIsNotShown, Parking
<1>5. QED
  BY <1>1, <1>2, <1>3, <1>4

\* Every step: the others park, start afresh, or touch neither the references
\* nor what is shown.
LEMMA NextCameraInv ==
    ASSUME CameraInv, [Camera!Next]_(Camera!vars)
    PROVE  CameraInv'
<1> USE DEF CameraInv, Camera!SkippedIsNotShown, Parking
<1>1. CASE Camera!Start
  BY <1>1 DEF Camera!Start, Camera!Started
<1>2. CASE Camera!Stop \/ Camera!SwitchCodec \/ (\E key \in BOOLEAN : Camera!Push(key))
  BY <1>2 DEF Camera!Stop, Camera!SwitchCodec, Camera!Push, Camera!thread
<1>3. CASE Camera!Pop \/ Camera!PopClosed \/ Camera!PassThrough \/ Camera!NoDecoder
  BY <1>3 DEF Camera!Pop, Camera!PopClosed, Camera!PassThrough, Camera!NoDecoder
<1>4. CASE Camera!Skip
  BY <1>4 DEF Camera!Skip
<1>5. CASE Camera!Decode \/ Camera!DecodePending \/ Camera!Corrupt \/ Camera!Fatal
  BY <1>5, DecodingCameraInv
<1>6. CASE UNCHANGED Camera!vars
  BY <1>6 DEF Camera!vars
<1>7. QED
  BY <1>1, <1>2, <1>3, <1>4, <1>5, <1>6 DEF Camera!Next, Camera!Work

-----------------------------------------------------------------------------
(* The restarts.                                                           *)

LEMMA SameRestarts ==
    /\ Capture!Init = Restarts!Init /\ Capture!Next = Restarts!Next
    /\ Capture!vars = Restarts!vars /\ (UNCHANGED Capture!vars <=> UNCHANGED Restarts!vars)
<1>1. Capture!Init = Restarts!Init
  BY
     DEF Capture!Init, Restarts!Init, Capture!Captures, Restarts!Captures, Capture!Threads,
         Restarts!Threads, Capture!NoThread, Restarts!NoThread
<1>2. Capture!vars = Restarts!vars /\ (UNCHANGED Capture!vars <=> UNCHANGED Restarts!vars)
  BY
     DEF Capture!vars, Restarts!vars, Capture!calloop, Restarts!calloop, Capture!thread,
         Restarts!thread, Capture!pool, Restarts!pool, Capture!delivery, Restarts!delivery,
         Capture!lease, Restarts!lease, Capture!reaper, Restarts!reaper
<1>3. Capture!Next = Restarts!Next
  BY
     DEF Capture!Next, Restarts!Next, Capture!Running, Restarts!Running, Capture!Encoder,
         Restarts!Encoder, Capture!ZeroCopy, Restarts!ZeroCopy, Capture!Shares,
         Restarts!Shares, Capture!Unbound, Restarts!Unbound, Capture!Release,
         Restarts!Release, Capture!ReleaseAll, Restarts!ReleaseAll, Capture!Teardown,
         Restarts!Teardown, Capture!LeftToReaper, Restarts!LeftToReaper, Capture!Stop,
         Restarts!Stop, Capture!BeginRestart, Restarts!BeginRestart, Capture!Joins,
         Restarts!Joins, Capture!Launch, Restarts!Launch, Capture!Start, Restarts!Start,
         Capture!FinishRestart, Restarts!FinishRestart, Capture!Publish, Restarts!Publish,
         Capture!Lent, Restarts!Lent, Capture!Retain, Restarts!Retain, Capture!Tick,
         Restarts!Tick, Capture!Demote, Restarts!Demote, Capture!Barrier, Restarts!Barrier,
         Capture!Answer, Restarts!Answer, Capture!ThreadStep, Restarts!ThreadStep,
         Capture!EncodeStep, Restarts!EncodeStep, Capture!DeliverStep, Restarts!DeliverStep,
         Capture!To, Restarts!To, Capture!LetGo, Restarts!LetGo, Capture!Join,
         Restarts!Join, Capture!Take, Restarts!Take, Capture!Lock, Restarts!Lock,
         Capture!Read, Restarts!Read, Capture!Encode, Restarts!Encode, Capture!Send,
         Restarts!Send, Capture!JoinDelivery, Restarts!JoinDelivery, Capture!Discards,
         Restarts!Discards, Capture!Receive, Restarts!Receive, Capture!Call, Restarts!Call,
         Capture!Hangup, Restarts!Hangup, Capture!vars, Restarts!vars, Capture!calloop,
         Restarts!calloop, Capture!thread, Restarts!thread, Capture!pool, Restarts!pool,
         Capture!delivery, Restarts!delivery, Capture!lease, Restarts!lease, Capture!reaper,
         Restarts!reaper, Capture!Captures, Restarts!Captures, Capture!Threads,
         Restarts!Threads, Capture!NoThread, Restarts!NoThread
<1>4. QED
  BY <1>1, <1>2, <1>3

-----------------------------------------------------------------------------
(* The camera's ring: the invariant.                                       *)

Places == 0 .. RingSlots - 1

Stamp(i) == mem[<<"seq", i>>]
Meta(i) == mem[<<"meta", i>>]
Top(i) == mem[<<"top", i>>]
Bottom(i) == mem[<<"bottom", i>>]
Newest == mem[<<"latest", "slot">>]
Advertised == mem[<<"latest", "frame">>]

\* What the writer's fields and the memory are, and the reader's.
WriterTyped ==
    /\ nextSlot \in Places /\ slotSeq \in [Places -> Nat]
    /\ frameSeq \in Nat /\ frameSeq <= calls /\ calls \in 0 .. MaxPictures
    /\ mem \in [Ring!Words -> Nat]
    /\ \A i \in Places : slotSeq[i] % 2 = 0

ReaderTyped ==
    /\ aim \in Nat /\ found \in 0 .. RingSlots /\ copy \in Seq(Nat) /\ Len(copy) <= 5
    /\ accepted \in Ring!Copied

\* A slot no store is on its way to.
Settled(i) ==
    /\ Stamp(i) = slotSeq[i]
    /\ Meta(i) = Top(i) /\ Top(i) = Bottom(i) /\ Meta(i) <= frameSeq

\* The stores of a publish into slot s, in program order.
Order(s) ==
    <<Ring!Release("seq", s, slotSeq[s] - 1), Ring!Store("top", s, frameSeq),
      Ring!Store("bottom", s, frameSeq), Ring!Store("meta", s, frameSeq),
      Ring!Release("seq", s, slotSeq[s]), Ring!Release("latest", "slot", s),
      Ring!Release("latest", "frame", frameSeq)>>

\* And of one given up.
GivenUp(s) == <<Ring!Release("seq", s, slotSeq[s] - 1), Ring!Release("seq", s, slotSeq[s])>>

\* The last n of them are on their way, and those before have come.
Left(order, n) ==
    /\ stores \in Seq([at : Ring!Words, value : Nat, release : BOOLEAN])
    /\ Len(stores) = n
    /\ \A j \in 1 .. n : stores[j] = order[Len(order) - n + j]

Written(s, n) ==
    /\ slotSeq[s] >= 2
    /\ Left(Order(s), n)
    /\ Stamp(s) = IF n = 7 THEN slotSeq[s] - 2 ELSE IF n >= 3 THEN slotSeq[s] - 1 ELSE slotSeq[s]
    /\ n = 7 => Meta(s) = Top(s) /\ Top(s) = Bottom(s)
    /\ n <= 5 => Top(s) = frameSeq
    /\ n <= 4 => Bottom(s) = frameSeq
    /\ IF n <= 3 THEN Meta(s) = frameSeq ELSE Meta(s) <= frameSeq
    /\ n = 1 => Newest = s

Retracted(s, n) ==
    /\ slotSeq[s] >= 2
    /\ Left(GivenUp(s), n)
    /\ Stamp(s) = IF n = 2 THEN slotSeq[s] - 2 ELSE slotSeq[s] - 1
    /\ Meta(s) = Top(s) /\ Top(s) = Bottom(s) /\ Meta(s) <= frameSeq

WriterInv ==
    \/ stores = <<>> /\ \A i \in Places : Settled(i)
    \/ \E s \in Places :
           /\ \A i \in Places \ {s} : Settled(i)
           /\ (\E n \in 1 .. 7 : Written(s, n)) \/ (\E n \in 1 .. 2 : Retracted(s, n))

\* What the header names is there.
HeaderInv ==
    /\ Newest \in Places
    /\ Advertised <= frameSeq /\ Advertised <= Meta(Newest)

\* A slot between two publishes holds one frame.
Whole(i) == Stamp(i) % 2 = 0 => Meta(i) = Top(i) /\ Top(i) = Bottom(i)

\* What is copied of a slot whose seq has not moved is what the slot holds.
ReaderInv ==
    /\ aim <= Advertised
    /\ aim = 0 => found = RingSlots
    /\ found = RingSlots => Len(copy) = 0
    /\ found < RingSlots =>
           /\ aim <= Meta(found)
           /\ Len(copy) >= 1 =>
                  /\ copy[1] <= Stamp(found)
                  /\ copy[1] = Stamp(found) /\ copy[1] % 2 = 0 =>
                         /\ Len(copy) >= 2 => copy[2] = Meta(found)
                         /\ Len(copy) >= 3 => copy[3] = Top(found)
                         /\ Len(copy) >= 4 => copy[4] = Bottom(found)
           /\ Len(copy) >= 2 => aim <= copy[2]
           /\ Len(copy) = 5 /\ copy[1] = copy[5] /\ copy[1] % 2 = 0 =>
                  copy[2] = copy[3] /\ copy[3] = copy[4]

RingInv ==
    /\ WriterTyped /\ WriterInv /\ HeaderInv
    /\ ReaderTyped /\ ReaderInv /\ Ring!FrameIsWhole

-----------------------------------------------------------------------------
(* The camera's ring: what a store that arrives changes.                   *)

LEMMA RingAssumed == RingSlots \in Nat /\ RingSlots >= 2 /\ MaxPictures \in Nat
  BY ConsumersAssumption DEF Ring!RingAssumption

\* What is stored: a word, its value, and whether it is a release.
Issued == [at : Ring!Words, value : Nat, release : BOOLEAN]

LEMMA RingWords ==
    /\ \A i \in Places :
           /\ <<"seq", i>> \in Ring!Words /\ <<"meta", i>> \in Ring!Words
           /\ <<"top", i>> \in Ring!Words /\ <<"bottom", i>> \in Ring!Words
    /\ <<"latest", "slot">> \in Ring!Words /\ <<"latest", "frame">> \in Ring!Words
  BY DEF Places, Ring!Words, Ring!SlotWords

\* One word changes, and no other.
LEMMA OneWord ==
    ASSUME NEW m \in [Ring!Words -> Nat], NEW w \in Ring!Words, NEW v \in Nat,
           NEW n, n = [m EXCEPT ![w] = v]
    PROVE  /\ n \in [Ring!Words -> Nat] /\ n[w] = v
           /\ \A u \in Ring!Words : u # w => n[u] = m[u]
  OBVIOUS

\* The words of every slot but one, and of the header, are what they were.
Others(s) ==
    /\ \A i \in Places \ {s} :
           /\ Stamp(i)' = Stamp(i) /\ Meta(i)' = Meta(i)
           /\ Top(i)' = Top(i) /\ Bottom(i)' = Bottom(i)

Header == Newest' = Newest /\ Advertised' = Advertised

LEMMA SlotStored ==
    ASSUME NEW s \in Places, NEW v \in Nat, mem \in [Ring!Words -> Nat],
           NEW name \in {"seq", "meta", "top", "bottom"},
           mem' = [mem EXCEPT ![<<name, s>>] = v]
    PROVE  /\ mem' \in [Ring!Words -> Nat] /\ Others(s) /\ Header
           /\ Stamp(s)' = IF name = "seq" THEN v ELSE Stamp(s)
           /\ Meta(s)' = IF name = "meta" THEN v ELSE Meta(s)
           /\ Top(s)' = IF name = "top" THEN v ELSE Top(s)
           /\ Bottom(s)' = IF name = "bottom" THEN v ELSE Bottom(s)
<1>1. <<name, s>> \in Ring!Words
  BY RingWords
<1>2. /\ mem' \in [Ring!Words -> Nat] /\ mem'[<<name, s>>] = v
      /\ \A u \in Ring!Words : u # <<name, s>> => mem'[u] = mem[u]
  BY <1>1, OneWord
<1>3. Others(s)
  <2>1. SUFFICES ASSUME NEW i \in Places \ {s}
                 PROVE  /\ mem'[<<"seq", i>>] = mem[<<"seq", i>>]
                        /\ mem'[<<"meta", i>>] = mem[<<"meta", i>>]
                        /\ mem'[<<"top", i>>] = mem[<<"top", i>>]
                        /\ mem'[<<"bottom", i>>] = mem[<<"bottom", i>>]
    BY DEF Others, Stamp, Meta, Top, Bottom
  <2>2. QED
    BY <1>2, RingWords
<1>4. Header
  BY <1>2, RingWords DEF Header, Newest, Advertised
<1>5. /\ name # "seq" => mem'[<<"seq", s>>] = mem[<<"seq", s>>]
      /\ name # "meta" => mem'[<<"meta", s>>] = mem[<<"meta", s>>]
      /\ name # "top" => mem'[<<"top", s>>] = mem[<<"top", s>>]
      /\ name # "bottom" => mem'[<<"bottom", s>>] = mem[<<"bottom", s>>]
  BY <1>2, RingWords
<1>6. QED
  BY <1>2, <1>3, <1>4, <1>5 DEF Stamp, Meta, Top, Bottom

LEMMA HeaderStored ==
    ASSUME NEW v \in Nat, mem \in [Ring!Words -> Nat],
           NEW name \in {"slot", "frame"},
           mem' = [mem EXCEPT ![<<"latest", name>>] = v]
    PROVE  /\ mem' \in [Ring!Words -> Nat]
           /\ Newest' = IF name = "slot" THEN v ELSE Newest
           /\ Advertised' = IF name = "frame" THEN v ELSE Advertised
           /\ \A i \in Places :
                  /\ Stamp(i)' = Stamp(i) /\ Meta(i)' = Meta(i)
                  /\ Top(i)' = Top(i) /\ Bottom(i)' = Bottom(i)
<1>1. <<"latest", name>> \in Ring!Words
  BY RingWords
<1>2. /\ mem' \in [Ring!Words -> Nat] /\ mem'[<<"latest", name>>] = v
      /\ \A u \in Ring!Words : u # <<"latest", name>> => mem'[u] = mem[u]
  BY <1>1, OneWord
<1>3. /\ name # "slot" => mem'[<<"latest", "slot">>] = mem[<<"latest", "slot">>]
      /\ name # "frame" => mem'[<<"latest", "frame">>] = mem[<<"latest", "frame">>]
  BY <1>2, RingWords
<1>4. ASSUME NEW i \in Places
      PROVE  /\ mem'[<<"seq", i>>] = mem[<<"seq", i>>]
             /\ mem'[<<"meta", i>>] = mem[<<"meta", i>>]
             /\ mem'[<<"top", i>>] = mem[<<"top", i>>]
             /\ mem'[<<"bottom", i>>] = mem[<<"bottom", i>>]
  BY <1>2, RingWords
<1>5. QED
  BY <1>2, <1>3, <1>4 DEF Newest, Advertised, Stamp, Meta, Top, Bottom

\* The words are numbers.
LEMMA RingNumbers ==
    ASSUME mem \in [Ring!Words -> Nat]
    PROVE  /\ \A i \in Places : /\ Stamp(i) \in Nat /\ Meta(i) \in Nat
                                /\ Top(i) \in Nat /\ Bottom(i) \in Nat
           /\ Newest \in Nat /\ Advertised \in Nat
  BY RingWords DEF Stamp, Meta, Top, Bottom, Newest, Advertised

\* On x86_64 the first store of all arrives.
LEMMA FirstArrives ==
    ASSUME stores \in Seq(Issued), Ring!Commit
    PROVE  /\ stores # <<>> /\ Len(stores) \in Nat \ {0} /\ stores[1] \in Issued
           /\ mem' = [mem EXCEPT ![stores[1].at] = stores[1].value]
           /\ stores' \in Seq(Issued) /\ Len(stores') = Len(stores) - 1
           /\ \A j \in 1 .. Len(stores) - 1 : stores'[j] = stores[j + 1]
           /\ UNCHANGED <<nextSlot, slotSeq, frameSeq, calls>>
           /\ UNCHANGED <<aim, found, copy, accepted>>
<1>1. PICK i \in DOMAIN stores :
          /\ i = 1 \/ Ring!Overtakes(i)
          /\ mem' = [mem EXCEPT ![stores[i].at] = stores[i].value]
          /\ stores' = Ring!RemoveAt(stores, i)
  BY DEF Ring!Commit
<1>2. i = 1
  BY <1>1 DEF Ring!Overtakes
<1>3. Len(stores) \in Nat /\ DOMAIN stores = 1 .. Len(stores)
  BY LenProperties
<1>4. Len(stores) >= 1 /\ stores # <<>>
  BY <1>1, <1>2, <1>3, EmptySeq
<1>5. stores[1] \in Issued
  BY <1>3, <1>4, ElementOfSeq
<1>6. stores' = SubSeq(stores, 1, 0) \o SubSeq(stores, 2, Len(stores))
  BY <1>1, <1>2, <1>3 DEF Ring!RemoveAt
<1>7. SubSeq(stores, 1, 0) \in Seq(Issued) /\ Len(SubSeq(stores, 1, 0)) = 0
  BY <1>3, SubSeqProperties
<1>8. /\ SubSeq(stores, 2, Len(stores)) \in Seq(Issued)
      /\ Len(SubSeq(stores, 2, Len(stores))) = Len(stores) - 1
      /\ \A j \in 1 .. Len(stores) - 1 : SubSeq(stores, 2, Len(stores))[j] = stores[j + 1]
  <2>1. SubSeq(stores, 2, Len(stores)) = Tail(stores)
    OBVIOUS
  <2>2. QED
    BY <2>1, <1>3, <1>4, HeadTailProperties
<1>9. stores' = SubSeq(stores, 2, Len(stores))
  BY <1>6, <1>7, <1>8, ConcatEmptySeq, EmptySeq
<1>10. UNCHANGED <<nextSlot, slotSeq, frameSeq, calls>> /\ UNCHANGED <<aim, found, copy, accepted>>
  BY DEF Ring!Commit, Ring!writer, Ring!reader
<1>11. mem' = [mem EXCEPT ![stores[1].at] = stores[1].value]
  BY <1>1, <1>2
<1>12. /\ stores' \in Seq(Issued) /\ Len(stores') = Len(stores) - 1
       /\ \A j \in 1 .. Len(stores) - 1 : stores'[j] = stores[j + 1]
  BY <1>8, <1>9
<1>13. QED
  BY <1>3, <1>4, <1>5, <1>10, <1>11, <1>12

-----------------------------------------------------------------------------
(* The camera's ring: each store of a publish.                             *)

\* Nothing a reader has seen is taken back, and a slot changes under an odd seq.
Grown ==
    /\ Advertised <= Advertised'
    /\ \A i \in Places :
           /\ Stamp(i) <= Stamp(i)' /\ Meta(i) <= Meta(i)'
           /\ (Stamp(i)' = Stamp(i) /\ Stamp(i) % 2 = 0) =>
                  Meta(i)' = Meta(i) /\ Top(i)' = Top(i) /\ Bottom(i)' = Bottom(i)

LEMMA BeforeEven == ASSUME NEW a \in Nat, a % 2 = 0, a >= 1 PROVE (a - 1) % 2 = 1
  OBVIOUS

\* The writer's fields, which no arriving store changes.
Still == UNCHANGED <<nextSlot, slotSeq, frameSeq, calls>>

LEMMA OthersSettled ==
    ASSUME NEW s \in Places, Still, Others(s), \A i \in Places \ {s} : Settled(i)
    PROVE  \A i \in Places \ {s} : Settled(i)'
  BY DEF Still, Others, Settled

LEMMA OrderIs ==
    ASSUME NEW s
    PROVE  /\ Len(Order(s)) = 7
           /\ Order(s)[1].at = <<"seq", s>> /\ Order(s)[1].value = slotSeq[s] - 1
           /\ Order(s)[2].at = <<"top", s>> /\ Order(s)[2].value = frameSeq
           /\ Order(s)[3].at = <<"bottom", s>> /\ Order(s)[3].value = frameSeq
           /\ Order(s)[4].at = <<"meta", s>> /\ Order(s)[4].value = frameSeq
           /\ Order(s)[5].at = <<"seq", s>> /\ Order(s)[5].value = slotSeq[s]
           /\ Order(s)[6].at = <<"latest", "slot">> /\ Order(s)[6].value = s
           /\ Order(s)[7].at = <<"latest", "frame">> /\ Order(s)[7].value = frameSeq
           /\ Len(GivenUp(s)) = 2
           /\ GivenUp(s)[1].at = <<"seq", s>> /\ GivenUp(s)[1].value = slotSeq[s] - 1
           /\ GivenUp(s)[2].at = <<"seq", s>> /\ GivenUp(s)[2].value = slotSeq[s]
  BY DEF Order, GivenUp, Ring!Release, Ring!Store

\* Of n stores that are left the first arrives, and n - 1 are left.
LEMMA OrderArrives ==
    ASSUME NEW s, NEW n \in 1 .. 7, Left(Order(s), n), Ring!Commit,
           NEW k, k = 8 - n, NEW m, m = n - 1
    PROVE  /\ mem' = [mem EXCEPT ![Order(s)[k].at] = Order(s)[k].value]
           /\ Still /\ Left(Order(s), m)'
<1>1. /\ stores \in Seq(Issued) /\ Len(stores) = n
      /\ \A j \in 1 .. n : stores[j] = Order(s)[7 - n + j]
  <2>1. /\ stores \in Seq(Issued) /\ Len(stores) = n
        /\ \A j \in 1 .. n : stores[j] = Order(s)[Len(Order(s)) - n + j]
    BY DEF Left, Issued
  <2>2. Len(Order(s)) = 7
    BY OrderIs
  <2>3. QED
    BY <2>1, <2>2
<1>2. /\ mem' = [mem EXCEPT ![stores[1].at] = stores[1].value]
      /\ stores' \in Seq(Issued) /\ Len(stores') = m
      /\ \A j \in 1 .. m : stores'[j] = stores[j + 1]
      /\ Still
  BY <1>1, FirstArrives DEF Still
<1>3. stores[1] = Order(s)[k]
  <2>1. 1 \in 1 .. n /\ 7 - n + 1 = k
    OBVIOUS
  <2>2. QED
    BY <1>1, <2>1
<1>4. ASSUME NEW j \in 1 .. m PROVE stores'[j] = Order(s)[7 - m + j]
  <2>1. j + 1 \in 1 .. n /\ 7 - n + (j + 1) = 7 - m + j
    OBVIOUS
  <2>2. QED
    BY <1>1, <1>2, <2>1
<1>5. Order(s)' = Order(s) /\ Len(Order(s)) = 7
  BY <1>2, OrderIs DEF Order, Still
<1>6. QED
  BY <1>2, <1>3, <1>4, <1>5 DEF Left, Issued

LEMMA GivenUpArrives ==
    ASSUME NEW s, NEW n \in 1 .. 2, Left(GivenUp(s), n), Ring!Commit,
           NEW k, k = 3 - n, NEW m, m = n - 1
    PROVE  /\ mem' = [mem EXCEPT ![GivenUp(s)[k].at] = GivenUp(s)[k].value]
           /\ Still /\ Left(GivenUp(s), m)'
<1>1. /\ stores \in Seq(Issued) /\ Len(stores) = n
      /\ \A j \in 1 .. n : stores[j] = GivenUp(s)[2 - n + j]
  <2>1. /\ stores \in Seq(Issued) /\ Len(stores) = n
        /\ \A j \in 1 .. n : stores[j] = GivenUp(s)[Len(GivenUp(s)) - n + j]
    BY DEF Left, Issued
  <2>2. Len(GivenUp(s)) = 2
    BY OrderIs
  <2>3. QED
    BY <2>1, <2>2
<1>2. /\ mem' = [mem EXCEPT ![stores[1].at] = stores[1].value]
      /\ stores' \in Seq(Issued) /\ Len(stores') = m
      /\ \A j \in 1 .. m : stores'[j] = stores[j + 1]
      /\ Still
  BY <1>1, FirstArrives DEF Still
<1>3. stores[1] = GivenUp(s)[k]
  <2>1. 1 \in 1 .. n /\ 2 - n + 1 = k
    OBVIOUS
  <2>2. QED
    BY <1>1, <2>1
<1>4. ASSUME NEW j \in 1 .. m PROVE stores'[j] = GivenUp(s)[2 - m + j]
  <2>1. j + 1 \in 1 .. n /\ 2 - n + (j + 1) = 2 - m + j
    OBVIOUS
  <2>2. QED
    BY <1>1, <1>2, <2>1
<1>5. GivenUp(s)' = GivenUp(s) /\ Len(GivenUp(s)) = 2
  BY <1>2, OrderIs DEF GivenUp, Still
<1>6. QED
  BY <1>2, <1>3, <1>4, <1>5 DEF Left, Issued

\* The slot's seq is odd from here.
LEMMA SeqOpened ==
    ASSUME NEW s \in Places, WriterTyped, HeaderInv, Written(s, 7), Ring!Commit
    PROVE  /\ Still /\ mem' \in [Ring!Words -> Nat] /\ Others(s)
           /\ Written(s, 6)' /\ Grown /\ HeaderInv'
<1>1. Left(Order(s), 7) /\ slotSeq[s] >= 2 /\ Stamp(s) = slotSeq[s] - 2
  BY DEF Written
<1>2. /\ slotSeq[s] \in Nat /\ slotSeq[s] % 2 = 0 /\ frameSeq \in Nat
      /\ mem \in [Ring!Words -> Nat]
  BY DEF WriterTyped
<1>3. mem' = [mem EXCEPT ![<<"seq", s>>] = slotSeq[s] - 1] /\ Still /\ Left(Order(s), 6)'
  <2>1. /\ mem' = [mem EXCEPT ![Order(s)[1].at] = Order(s)[1].value]
        /\ Still /\ Left(Order(s), 6)'
    BY <1>1, OrderArrives
  <2>2. QED
    BY <2>1, OrderIs
<1>4. /\ mem' \in [Ring!Words -> Nat] /\ Others(s) /\ Header
      /\ Stamp(s)' = slotSeq[s] - 1
      /\ Meta(s)' = Meta(s)
      /\ Top(s)' = Top(s)
      /\ Bottom(s)' = Bottom(s)
  <2>1. slotSeq[s] - 1 \in Nat /\ "seq" \in {"seq", "meta", "top", "bottom"}
    BY <1>1, <1>2
  <2>2. QED
    BY <1>2, <1>3, <2>1, SlotStored
<1>5. Written(s, 6)'
  BY <1>1, <1>2, <1>3, <1>4 DEF Written, Still
<1>6. Grown
  BY <1>1, <1>2, <1>4, RingNumbers DEF Grown, Others, Header
<1>7. HeaderInv'
  BY <1>1, <1>2, <1>3, <1>4, RingNumbers DEF HeaderInv, Header, Others, Still, Written
<1>8. QED
  BY <1>3, <1>4, <1>5, <1>6, <1>7

\* The frame is written over what the slot held, its top,
LEMMA TopStored ==
    ASSUME NEW s \in Places, WriterTyped, HeaderInv, Written(s, 6), Ring!Commit
    PROVE  /\ Still /\ mem' \in [Ring!Words -> Nat] /\ Others(s)
           /\ Written(s, 5)' /\ Grown /\ HeaderInv'
<1>1. Left(Order(s), 6) /\ slotSeq[s] >= 2 /\ Stamp(s) = slotSeq[s] - 1
  BY DEF Written
<1>2. /\ slotSeq[s] \in Nat /\ slotSeq[s] % 2 = 0 /\ frameSeq \in Nat
      /\ mem \in [Ring!Words -> Nat]
  BY DEF WriterTyped
<1>3. mem' = [mem EXCEPT ![<<"top", s>>] = frameSeq] /\ Still /\ Left(Order(s), 5)'
  <2>1. /\ mem' = [mem EXCEPT ![Order(s)[2].at] = Order(s)[2].value]
        /\ Still /\ Left(Order(s), 5)'
    BY <1>1, OrderArrives
  <2>2. QED
    BY <2>1, OrderIs
<1>4. /\ mem' \in [Ring!Words -> Nat] /\ Others(s) /\ Header
      /\ Stamp(s)' = Stamp(s)
      /\ Meta(s)' = Meta(s)
      /\ Top(s)' = frameSeq
      /\ Bottom(s)' = Bottom(s)
  <2>1. frameSeq \in Nat /\ "top" \in {"seq", "meta", "top", "bottom"}
    BY <1>1, <1>2
  <2>2. QED
    BY <1>2, <1>3, <2>1, SlotStored
<1>5. Written(s, 5)'
  BY <1>1, <1>2, <1>3, <1>4 DEF Written, Still
<1>6. Grown
  <2>1. Stamp(s) % 2 = 1
    BY <1>1, <1>2, BeforeEven
  <2>2. Meta(s) <= Meta(s)'
    BY <1>2, <1>4, RingNumbers DEF Written
  <2>3. QED
    BY <1>4, <2>1, <2>2, RingNumbers, <1>2 DEF Grown, Others, Header
<1>7. HeaderInv'
  BY <1>1, <1>2, <1>3, <1>4, RingNumbers DEF HeaderInv, Header, Others, Still, Written
<1>8. QED
  BY <1>3, <1>4, <1>5, <1>6, <1>7

\* its bottom,
LEMMA BottomStored ==
    ASSUME NEW s \in Places, WriterTyped, HeaderInv, Written(s, 5), Ring!Commit
    PROVE  /\ Still /\ mem' \in [Ring!Words -> Nat] /\ Others(s)
           /\ Written(s, 4)' /\ Grown /\ HeaderInv'
<1>1. Left(Order(s), 5) /\ slotSeq[s] >= 2 /\ Stamp(s) = slotSeq[s] - 1
  BY DEF Written
<1>2. /\ slotSeq[s] \in Nat /\ slotSeq[s] % 2 = 0 /\ frameSeq \in Nat
      /\ mem \in [Ring!Words -> Nat]
  BY DEF WriterTyped
<1>3. mem' = [mem EXCEPT ![<<"bottom", s>>] = frameSeq] /\ Still /\ Left(Order(s), 4)'
  <2>1. /\ mem' = [mem EXCEPT ![Order(s)[3].at] = Order(s)[3].value]
        /\ Still /\ Left(Order(s), 4)'
    BY <1>1, OrderArrives
  <2>2. QED
    BY <2>1, OrderIs
<1>4. /\ mem' \in [Ring!Words -> Nat] /\ Others(s) /\ Header
      /\ Stamp(s)' = Stamp(s)
      /\ Meta(s)' = Meta(s)
      /\ Top(s)' = Top(s)
      /\ Bottom(s)' = frameSeq
  <2>1. frameSeq \in Nat /\ "bottom" \in {"seq", "meta", "top", "bottom"}
    BY <1>1, <1>2
  <2>2. QED
    BY <1>2, <1>3, <2>1, SlotStored
<1>5. Written(s, 4)'
  BY <1>1, <1>2, <1>3, <1>4 DEF Written, Still
<1>6. Grown
  <2>1. Stamp(s) % 2 = 1
    BY <1>1, <1>2, BeforeEven
  <2>2. Meta(s) <= Meta(s)'
    BY <1>2, <1>4, RingNumbers DEF Written
  <2>3. QED
    BY <1>4, <2>1, <2>2, RingNumbers, <1>2 DEF Grown, Others, Header
<1>7. HeaderInv'
  BY <1>1, <1>2, <1>3, <1>4, RingNumbers DEF HeaderInv, Header, Others, Still, Written
<1>8. QED
  BY <1>3, <1>4, <1>5, <1>6, <1>7

\* and its metadata.
LEMMA MetaStored ==
    ASSUME NEW s \in Places, WriterTyped, HeaderInv, Written(s, 4), Ring!Commit
    PROVE  /\ Still /\ mem' \in [Ring!Words -> Nat] /\ Others(s)
           /\ Written(s, 3)' /\ Grown /\ HeaderInv'
<1>1. Left(Order(s), 4) /\ slotSeq[s] >= 2 /\ Stamp(s) = slotSeq[s] - 1
  BY DEF Written
<1>2. /\ slotSeq[s] \in Nat /\ slotSeq[s] % 2 = 0 /\ frameSeq \in Nat
      /\ mem \in [Ring!Words -> Nat]
  BY DEF WriterTyped
<1>3. mem' = [mem EXCEPT ![<<"meta", s>>] = frameSeq] /\ Still /\ Left(Order(s), 3)'
  <2>1. /\ mem' = [mem EXCEPT ![Order(s)[4].at] = Order(s)[4].value]
        /\ Still /\ Left(Order(s), 3)'
    BY <1>1, OrderArrives
  <2>2. QED
    BY <2>1, OrderIs
<1>4. /\ mem' \in [Ring!Words -> Nat] /\ Others(s) /\ Header
      /\ Stamp(s)' = Stamp(s)
      /\ Meta(s)' = frameSeq
      /\ Top(s)' = Top(s)
      /\ Bottom(s)' = Bottom(s)
  <2>1. frameSeq \in Nat /\ "meta" \in {"seq", "meta", "top", "bottom"}
    BY <1>1, <1>2
  <2>2. QED
    BY <1>2, <1>3, <2>1, SlotStored
<1>5. Written(s, 3)'
  BY <1>1, <1>2, <1>3, <1>4 DEF Written, Still
<1>6. Grown
  <2>1. Stamp(s) % 2 = 1
    BY <1>1, <1>2, BeforeEven
  <2>2. Meta(s) <= Meta(s)'
    BY <1>2, <1>4, RingNumbers DEF Written
  <2>3. QED
    BY <1>4, <2>1, <2>2, RingNumbers, <1>2 DEF Grown, Others, Header
<1>7. HeaderInv'
  BY <1>1, <1>2, <1>3, <1>4, RingNumbers DEF HeaderInv, Header, Others, Still, Written
<1>8. QED
  BY <1>3, <1>4, <1>5, <1>6, <1>7

\* The slot is whole again.
LEMMA SeqClosed ==
    ASSUME NEW s \in Places, WriterTyped, HeaderInv, Written(s, 3), Ring!Commit
    PROVE  /\ Still /\ mem' \in [Ring!Words -> Nat] /\ Others(s)
           /\ Written(s, 2)' /\ Grown /\ HeaderInv'
<1>1. Left(Order(s), 3) /\ slotSeq[s] >= 2 /\ Stamp(s) = slotSeq[s] - 1
  BY DEF Written
<1>2. /\ slotSeq[s] \in Nat /\ slotSeq[s] % 2 = 0 /\ frameSeq \in Nat
      /\ mem \in [Ring!Words -> Nat]
  BY DEF WriterTyped
<1>3. mem' = [mem EXCEPT ![<<"seq", s>>] = slotSeq[s]] /\ Still /\ Left(Order(s), 2)'
  <2>1. /\ mem' = [mem EXCEPT ![Order(s)[5].at] = Order(s)[5].value]
        /\ Still /\ Left(Order(s), 2)'
    BY <1>1, OrderArrives
  <2>2. QED
    BY <2>1, OrderIs
<1>4. /\ mem' \in [Ring!Words -> Nat] /\ Others(s) /\ Header
      /\ Stamp(s)' = slotSeq[s]
      /\ Meta(s)' = Meta(s)
      /\ Top(s)' = Top(s)
      /\ Bottom(s)' = Bottom(s)
  <2>1. slotSeq[s] \in Nat /\ "seq" \in {"seq", "meta", "top", "bottom"}
    BY <1>1, <1>2
  <2>2. QED
    BY <1>2, <1>3, <2>1, SlotStored
<1>5. Written(s, 2)'
  BY <1>1, <1>2, <1>3, <1>4 DEF Written, Still
<1>6. Grown
  BY <1>1, <1>2, <1>4, RingNumbers DEF Grown, Others, Header
<1>7. HeaderInv'
  BY <1>1, <1>2, <1>3, <1>4, RingNumbers DEF HeaderInv, Header, Others, Still, Written
<1>8. QED
  BY <1>3, <1>4, <1>5, <1>6, <1>7

\* The header names the slot,
LEMMA SlotNamed ==
    ASSUME NEW s \in Places, WriterTyped, HeaderInv, Written(s, 2), Ring!Commit
    PROVE  /\ Still /\ mem' \in [Ring!Words -> Nat] /\ Others(s)
           /\ Written(s, 1)' /\ Grown /\ HeaderInv'
<1>1. /\ Left(Order(s), 2) /\ slotSeq[s] >= 2 /\ Stamp(s) = slotSeq[s]
      /\ Meta(s) = frameSeq /\ Top(s) = frameSeq /\ Bottom(s) = frameSeq
  BY DEF Written
<1>2. /\ slotSeq[s] \in Nat /\ frameSeq \in Nat /\ mem \in [Ring!Words -> Nat] /\ s \in Nat
  BY RingAssumed DEF WriterTyped, Places
<1>3. mem' = [mem EXCEPT ![<<"latest", "slot">>] = s] /\ Still /\ Left(Order(s), 1)'
  <2>1. /\ mem' = [mem EXCEPT ![Order(s)[6].at] = Order(s)[6].value]
        /\ Still /\ Left(Order(s), 1)'
    BY <1>1, OrderArrives
  <2>2. QED
    BY <2>1, OrderIs
<1>4. /\ mem' \in [Ring!Words -> Nat]
      /\ Newest' = s /\ Advertised' = Advertised
      /\ \A i \in Places :
             /\ Stamp(i)' = Stamp(i) /\ Meta(i)' = Meta(i)
             /\ Top(i)' = Top(i) /\ Bottom(i)' = Bottom(i)
  BY <1>2, <1>3, HeaderStored
<1>5. Written(s, 1)'
  BY <1>1, <1>3, <1>4 DEF Written, Still
<1>6. Grown /\ Others(s)
  BY <1>2, <1>4, RingNumbers DEF Grown, Others, HeaderInv
<1>7. HeaderInv'
  BY <1>1, <1>2, <1>3, <1>4, RingNumbers DEF HeaderInv, Still, Written
<1>8. QED
  BY <1>3, <1>4, <1>5, <1>6, <1>7

\* and the frame.
LEMMA FrameNamed ==
    ASSUME NEW s \in Places, WriterTyped, HeaderInv, Written(s, 1), Ring!Commit
    PROVE  /\ Still /\ mem' \in [Ring!Words -> Nat] /\ Others(s)
           /\ stores' = <<>> /\ Settled(s)' /\ Grown /\ HeaderInv'
<1>1. /\ Left(Order(s), 1) /\ slotSeq[s] >= 2 /\ Stamp(s) = slotSeq[s]
      /\ Meta(s) = frameSeq /\ Top(s) = frameSeq /\ Bottom(s) = frameSeq
  BY DEF Written
<1>2. /\ slotSeq[s] \in Nat /\ frameSeq \in Nat /\ mem \in [Ring!Words -> Nat] /\ s \in Nat
  BY RingAssumed DEF WriterTyped, Places
<1>3. mem' = [mem EXCEPT ![<<"latest", "frame">>] = frameSeq] /\ Still /\ Left(Order(s), 0)'
  <2>1. /\ mem' = [mem EXCEPT ![Order(s)[7].at] = Order(s)[7].value]
        /\ Still /\ Left(Order(s), 0)'
    BY <1>1, OrderArrives
  <2>2. QED
    BY <2>1, OrderIs
<1>4. /\ mem' \in [Ring!Words -> Nat]
      /\ Newest' = Newest /\ Advertised' = frameSeq
      /\ \A i \in Places :
             /\ Stamp(i)' = Stamp(i) /\ Meta(i)' = Meta(i)
             /\ Top(i)' = Top(i) /\ Bottom(i)' = Bottom(i)
  BY <1>2, <1>3, HeaderStored
<1>5. stores' = <<>> /\ Settled(s)'
  BY <1>1, <1>2, <1>3, <1>4, EmptySeq DEF Settled, Still, Left
<1>6. Grown /\ Others(s)
  BY <1>2, <1>4, RingNumbers DEF Grown, Others, HeaderInv
<1>7. HeaderInv'
  BY <1>1, <1>2, <1>3, <1>4, RingNumbers DEF HeaderInv, Still, Written
<1>8. QED
  BY <1>3, <1>4, <1>5, <1>6, <1>7

\* A publish given up leaves the slot as it was, but for its seq,
LEMMA GivenUpOpened ==
    ASSUME NEW s \in Places, WriterTyped, HeaderInv, Retracted(s, 2), Ring!Commit
    PROVE  /\ Still /\ mem' \in [Ring!Words -> Nat] /\ Others(s)
           /\ Retracted(s, 1)' /\ Grown /\ HeaderInv'
<1>1. /\ Left(GivenUp(s), 2) /\ slotSeq[s] >= 2 /\ Stamp(s) = slotSeq[s] - 2
      /\ Meta(s) = Top(s) /\ Top(s) = Bottom(s) /\ Meta(s) <= frameSeq
  BY DEF Retracted
<1>2. /\ slotSeq[s] \in Nat /\ slotSeq[s] % 2 = 0 /\ frameSeq \in Nat
      /\ mem \in [Ring!Words -> Nat]
  BY DEF WriterTyped
<1>3. mem' = [mem EXCEPT ![<<"seq", s>>] = slotSeq[s] - 1] /\ Still /\ Left(GivenUp(s), 1)'
  <2>1. /\ mem' = [mem EXCEPT ![GivenUp(s)[1].at] = GivenUp(s)[1].value]
        /\ Still /\ Left(GivenUp(s), 1)'
    BY <1>1, GivenUpArrives
  <2>2. QED
    BY <2>1, OrderIs
<1>4. /\ mem' \in [Ring!Words -> Nat] /\ Others(s) /\ Header
      /\ Stamp(s)' = slotSeq[s] - 1 /\ Meta(s)' = Meta(s) /\ Top(s)' = Top(s) /\ Bottom(s)' = Bottom(s)
  <2>1. slotSeq[s] - 1 \in Nat /\ "seq" \in {"seq", "meta", "top", "bottom"}
    BY <1>1, <1>2
  <2>2. QED
    BY <1>2, <1>3, <2>1, SlotStored
<1>5. Retracted(s, 1)'
  BY <1>1, <1>2, <1>3, <1>4 DEF Retracted, Still
<1>6. Grown
  BY <1>1, <1>2, <1>4, RingNumbers DEF Grown, Others, Header
<1>7. HeaderInv'
  BY <1>1, <1>2, <1>3, <1>4, RingNumbers DEF HeaderInv, Header, Others, Still
<1>8. QED
  BY <1>3, <1>4, <1>5, <1>6, <1>7

\* which counts it.
LEMMA GivenUpClosed ==
    ASSUME NEW s \in Places, WriterTyped, HeaderInv, Retracted(s, 1), Ring!Commit
    PROVE  /\ Still /\ mem' \in [Ring!Words -> Nat] /\ Others(s)
           /\ stores' = <<>> /\ Settled(s)' /\ Grown /\ HeaderInv'
<1>1. /\ Left(GivenUp(s), 1) /\ slotSeq[s] >= 2 /\ Stamp(s) = slotSeq[s] - 1
      /\ Meta(s) = Top(s) /\ Top(s) = Bottom(s) /\ Meta(s) <= frameSeq
  BY DEF Retracted
<1>2. /\ slotSeq[s] \in Nat /\ slotSeq[s] % 2 = 0 /\ frameSeq \in Nat
      /\ mem \in [Ring!Words -> Nat]
  BY DEF WriterTyped
<1>3. mem' = [mem EXCEPT ![<<"seq", s>>] = slotSeq[s]] /\ Still /\ Left(GivenUp(s), 0)'
  <2>1. /\ mem' = [mem EXCEPT ![GivenUp(s)[2].at] = GivenUp(s)[2].value]
        /\ Still /\ Left(GivenUp(s), 0)'
    BY <1>1, GivenUpArrives
  <2>2. QED
    BY <2>1, OrderIs
<1>4. /\ mem' \in [Ring!Words -> Nat] /\ Others(s) /\ Header
      /\ Stamp(s)' = slotSeq[s] /\ Meta(s)' = Meta(s) /\ Top(s)' = Top(s) /\ Bottom(s)' = Bottom(s)
  <2>1. slotSeq[s] \in Nat /\ "seq" \in {"seq", "meta", "top", "bottom"}
    BY <1>1, <1>2
  <2>2. QED
    BY <1>2, <1>3, <2>1, SlotStored
<1>5. stores' = <<>> /\ Settled(s)'
  BY <1>1, <1>2, <1>3, <1>4, EmptySeq DEF Settled, Still, Left
<1>6. Grown
  BY <1>1, <1>2, <1>4, RingNumbers DEF Grown, Others, Header
<1>7. HeaderInv'
  BY <1>1, <1>2, <1>3, <1>4, RingNumbers DEF HeaderInv, Header, Others, Still
<1>8. QED
  BY <1>3, <1>4, <1>5, <1>6, <1>7

-----------------------------------------------------------------------------
(* The camera's ring: the invariant is inductive.                          *)

LEMMA CommitWriter ==
    ASSUME WriterTyped, WriterInv, HeaderInv, Ring!Commit
    PROVE  Still /\ WriterTyped' /\ WriterInv' /\ HeaderInv' /\ Grown
<1>1. stores # <<>>
  BY FirstArrives, EmptySeq DEF Ring!Commit
<1>2. PICK s \in Places :
          /\ \A i \in Places \ {s} : Settled(i)
          /\ (\E n \in 1 .. 7 : Written(s, n)) \/ (\E n \in 1 .. 2 : Retracted(s, n))
  BY <1>1 DEF WriterInv
<1>3. ASSUME Still, mem' \in [Ring!Words -> Nat], Others(s),
             \/ \E n \in 1 .. 7 : Written(s, n)'
             \/ \E n \in 1 .. 2 : Retracted(s, n)'
             \/ stores' = <<>> /\ Settled(s)'
      PROVE  WriterTyped' /\ WriterInv'
  <2>1. WriterTyped'
    BY <1>3 DEF WriterTyped, Still
  <2>2. \A i \in Places \ {s} : Settled(i)'
    BY <1>2, <1>3, OthersSettled
  <2>3. WriterInv'
    BY <1>3, <2>2 DEF WriterInv
  <2>4. QED
    BY <2>1, <2>3
<1>4. ASSUME NEW n \in 1 .. 7, Written(s, n)
      PROVE  Still /\ WriterTyped' /\ WriterInv' /\ HeaderInv' /\ Grown
  <2>1. CASE n = 7
    <3>1. /\ Still /\ mem' \in [Ring!Words -> Nat] /\ Others(s)
          /\ Written(s, 6)' /\ Grown /\ HeaderInv'
      BY <1>4, <2>1, SeqOpened
    <3>2. QED
      BY <1>3, <3>1
  <2>2. CASE n = 6
    <3>1. /\ Still /\ mem' \in [Ring!Words -> Nat] /\ Others(s)
          /\ Written(s, 5)' /\ Grown /\ HeaderInv'
      BY <1>4, <2>2, TopStored
    <3>2. QED
      BY <1>3, <3>1
  <2>3. CASE n = 5
    <3>1. /\ Still /\ mem' \in [Ring!Words -> Nat] /\ Others(s)
          /\ Written(s, 4)' /\ Grown /\ HeaderInv'
      BY <1>4, <2>3, BottomStored
    <3>2. QED
      BY <1>3, <3>1
  <2>4. CASE n = 4
    <3>1. /\ Still /\ mem' \in [Ring!Words -> Nat] /\ Others(s)
          /\ Written(s, 3)' /\ Grown /\ HeaderInv'
      BY <1>4, <2>4, MetaStored
    <3>2. QED
      BY <1>3, <3>1
  <2>5. CASE n = 3
    <3>1. /\ Still /\ mem' \in [Ring!Words -> Nat] /\ Others(s)
          /\ Written(s, 2)' /\ Grown /\ HeaderInv'
      BY <1>4, <2>5, SeqClosed
    <3>2. QED
      BY <1>3, <3>1
  <2>6. CASE n = 2
    <3>1. /\ Still /\ mem' \in [Ring!Words -> Nat] /\ Others(s)
          /\ Written(s, 1)' /\ Grown /\ HeaderInv'
      BY <1>4, <2>6, SlotNamed
    <3>2. QED
      BY <1>3, <3>1
  <2>7. CASE n = 1
    <3>1. /\ Still /\ mem' \in [Ring!Words -> Nat] /\ Others(s)
          /\ stores' = <<>> /\ Settled(s)' /\ Grown /\ HeaderInv'
      BY <1>4, <2>7, FrameNamed
    <3>2. QED
      BY <1>3, <3>1
  <2>8. QED
    BY <1>4, <2>1, <2>2, <2>3, <2>4, <2>5, <2>6, <2>7
<1>5. ASSUME NEW n \in 1 .. 2, Retracted(s, n)
      PROVE  Still /\ WriterTyped' /\ WriterInv' /\ HeaderInv' /\ Grown
  <2>1. CASE n = 2
    <3>1. /\ Still /\ mem' \in [Ring!Words -> Nat] /\ Others(s)
          /\ Retracted(s, 1)' /\ Grown /\ HeaderInv'
      BY <1>5, <2>1, GivenUpOpened
    <3>2. QED
      BY <1>3, <3>1
  <2>2. CASE n = 1
    <3>1. /\ Still /\ mem' \in [Ring!Words -> Nat] /\ Others(s)
          /\ stores' = <<>> /\ Settled(s)' /\ Grown /\ HeaderInv'
      BY <1>5, <2>2, GivenUpClosed
    <3>2. QED
      BY <1>3, <3>1
  <2>3. QED
    BY <1>5, <2>1, <2>2
<1>6. QED
  BY <1>2, <1>4, <1>5

\* What a reader holds stays true of a memory that has grown.
LEMMA ReaderKept ==
    ASSUME WriterTyped, HeaderInv, ReaderTyped, ReaderInv, Ring!FrameIsWhole,
           mem' \in [Ring!Words -> Nat], Grown, UNCHANGED <<aim, found, copy, accepted>>
    PROVE  ReaderTyped' /\ ReaderInv' /\ Ring!FrameIsWhole'
<1>1. ReaderTyped' /\ Ring!FrameIsWhole'
  BY DEF ReaderTyped, Ring!FrameIsWhole
<1>2. /\ aim \in Nat /\ found \in 0 .. RingSlots
      /\ Advertised \in Nat /\ Advertised' \in Nat
      /\ \A i \in Places : /\ Stamp(i) \in Nat /\ Meta(i) \in Nat
                           /\ Stamp(i)' \in Nat /\ Meta(i)' \in Nat
  BY RingNumbers, RingWords DEF WriterTyped, ReaderTyped, Stamp, Meta, Advertised
<1>3. aim' <= Advertised' /\ (aim' = 0 => found' = RingSlots)
      /\ (found' = RingSlots => Len(copy') = 0)
  BY <1>2 DEF ReaderInv, Grown
<1>4. ASSUME found < RingSlots
      PROVE  /\ aim <= Meta(found)'
             /\ Len(copy) >= 1 =>
                    /\ copy[1] <= Stamp(found)'
                    /\ copy[1] = Stamp(found)' /\ copy[1] % 2 = 0 =>
                           /\ Len(copy) >= 2 => copy[2] = Meta(found)'
                           /\ Len(copy) >= 3 => copy[3] = Top(found)'
                           /\ Len(copy) >= 4 => copy[4] = Bottom(found)'
             /\ Len(copy) >= 2 => aim <= copy[2]
             /\ Len(copy) = 5 /\ copy[1] = copy[5] /\ copy[1] % 2 = 0 =>
                    copy[2] = copy[3] /\ copy[3] = copy[4]
  <2>1. found \in Places /\ aim <= Meta(found)
    BY <1>2, <1>4, RingAssumed DEF Places, ReaderInv
  <2>2. /\ Stamp(found) <= Stamp(found)' /\ Meta(found) <= Meta(found)'
        /\ (Stamp(found)' = Stamp(found) /\ Stamp(found) % 2 = 0) =>
               /\ Meta(found)' = Meta(found) /\ Top(found)' = Top(found)
               /\ Bottom(found)' = Bottom(found)
    BY <2>1 DEF Grown
  <2>3. Len(copy) \in Nat /\ \A j \in 1 .. Len(copy) : copy[j] \in Nat
    BY LenProperties, ElementOfSeq DEF ReaderTyped
  <2>4. ASSUME Len(copy) >= 1
        PROVE  /\ copy[1] <= Stamp(found)'
               /\ copy[1] = Stamp(found)' => Stamp(found)' = Stamp(found) /\ copy[1] = Stamp(found)
    BY <1>2, <1>4, <2>1, <2>2, <2>3, <2>4 DEF ReaderInv
  <2>5. QED
    BY <1>2, <1>4, <2>1, <2>2, <2>4 DEF ReaderInv
<1>5. ReaderInv'
  BY <1>3, <1>4 DEF ReaderInv, Stamp, Meta, Top, Bottom
<1>6. QED
  BY <1>1, <1>5

\* A slot between two publishes holds one frame.
LEMMA SlotsWhole ==
    ASSUME WriterTyped, WriterInv, NEW i \in Places
    PROVE  Whole(i)
<1>1. CASE Settled(i)
  BY <1>1 DEF Settled, Whole
<1>2. slotSeq[i] \in Nat /\ slotSeq[i] % 2 = 0 /\ (slotSeq[i] >= 1 => (slotSeq[i] - 1) % 2 = 1)
  BY BeforeEven DEF WriterTyped
<1>3. ASSUME NEW n \in 1 .. 7, Written(i, n) PROVE Whole(i)
  BY <1>2, <1>3 DEF Written, Whole
<1>4. ASSUME NEW n \in 1 .. 2, Retracted(i, n) PROVE Whole(i)
  BY <1>4 DEF Retracted, Whole
<1>5. QED
  BY <1>1, <1>3, <1>4 DEF WriterInv

\* A publish begins, of a frame or of one that is given up.
LEMMA SlotTaken ==
    ASSUME WriterTyped, WriterInv, NEW issued, Ring!Issue(issued)
    PROVE  /\ nextSlot \in Places /\ \A i \in Places : Settled(i)
           /\ calls' \in 0 .. MaxPictures /\ calls' = calls + 1 /\ stores' = issued
           /\ slotSeq' \in [Places -> Nat] /\ slotSeq'[nextSlot] = slotSeq[nextSlot] + 2
           /\ \A i \in Places \ {nextSlot} : slotSeq'[i] = slotSeq[i]
           /\ \A i \in Places : slotSeq'[i] % 2 = 0
<1>1. /\ calls < MaxPictures /\ calls' = calls + 1 /\ stores = <<>> /\ stores' = issued
      /\ slotSeq' = [slotSeq EXCEPT ![nextSlot] = @ + 2]
  BY DEF Ring!Issue
<1>2. \A i \in Places : Settled(i)
  <2>1. Len(stores) = 0
    BY <1>1
  <2>2. \A s \in Places : ~(\E n \in 1 .. 7 : Written(s, n)) /\ ~(\E n \in 1 .. 2 : Retracted(s, n))
    BY <2>1 DEF Written, Retracted, Left
  <2>3. QED
    BY <2>2 DEF WriterInv
<1>3. /\ slotSeq' \in [Places -> Nat] /\ slotSeq'[nextSlot] = slotSeq[nextSlot] + 2
      /\ \A i \in Places \ {nextSlot} : slotSeq'[i] = slotSeq[i]
  BY <1>1 DEF WriterTyped
<1>4. (slotSeq[nextSlot] + 2) % 2 = 0
  <2>1. slotSeq[nextSlot] \in Nat /\ slotSeq[nextSlot] % 2 = 0
    BY DEF WriterTyped
  <2>2. QED
    BY <2>1
<1>5. \A i \in Places : slotSeq'[i] % 2 = 0
  BY <1>3, <1>4 DEF WriterTyped
<1>6. calls' \in 0 .. MaxPictures
  BY <1>1, RingAssumed DEF WriterTyped
<1>7. QED
  BY <1>1, <1>2, <1>3, <1>5, <1>6 DEF WriterTyped

LEMMA Issuing ==
    ASSUME NEW name \in {"seq", "meta", "top", "bottom"}, NEW s \in Places, NEW v \in Nat
    PROVE  /\ Ring!Store(name, s, v) \in Issued /\ Ring!Release(name, s, v) \in Issued
           /\ Ring!Release("latest", "slot", v) \in Issued
           /\ Ring!Release("latest", "frame", v) \in Issued
  BY RingWords DEF Issued, Ring!Store, Ring!Release, Ring!Words, Ring!SlotWords, Places

\* What a reader holds of a memory that is the same.
LEMMA SameMemory ==
    ASSUME RingInv, UNCHANGED mem, UNCHANGED <<aim, found, copy, accepted>>,
           WriterTyped', WriterInv', frameSeq <= frameSeq', frameSeq' \in Nat
    PROVE  RingInv'
<1>1. /\ Newest' = Newest /\ Advertised' = Advertised
      /\ \A i \in Places : /\ Stamp(i)' = Stamp(i) /\ Meta(i)' = Meta(i)
                           /\ Top(i)' = Top(i) /\ Bottom(i)' = Bottom(i)
  BY DEF Newest, Advertised, Stamp, Meta, Top, Bottom
<1>2. Advertised \in Nat /\ frameSeq \in Nat /\ \A i \in Places : Stamp(i) \in Nat /\ Meta(i) \in Nat
  BY RingNumbers DEF RingInv, WriterTyped
<1>3. HeaderInv'
  BY <1>1, <1>2 DEF RingInv, HeaderInv, Meta
<1>4. Grown /\ mem' \in [Ring!Words -> Nat]
  BY <1>1, <1>2 DEF Grown, RingInv, WriterTyped
<1>5. ReaderTyped' /\ ReaderInv' /\ Ring!FrameIsWhole'
  BY <1>4, ReaderKept DEF RingInv
<1>6. QED
  BY <1>3, <1>5 DEF RingInv

LEMMA PublishRing ==
    ASSUME RingInv, Ring!Publish
    PROVE  RingInv'
<1> USE DEF RingInv
<1>1. /\ Ring!Issue(Ring!Publishing(frameSeq + 1))
      /\ frameSeq' = frameSeq + 1 /\ nextSlot' = (nextSlot + 1) % RingSlots
      /\ UNCHANGED mem /\ UNCHANGED <<aim, found, copy, accepted>>
  BY DEF Ring!Publish, Ring!reader
<1> DEFINE s == nextSlot
<1>2. /\ s \in Places /\ \A i \in Places : Settled(i)
      /\ calls' \in 0 .. MaxPictures /\ calls' = calls + 1
      /\ stores' = Ring!Publishing(frameSeq + 1)
      /\ slotSeq' \in [Places -> Nat] /\ slotSeq'[s] = slotSeq[s] + 2
      /\ \A i \in Places \ {s} : slotSeq'[i] = slotSeq[i]
      /\ \A i \in Places : slotSeq'[i] % 2 = 0
  BY <1>1, SlotTaken
<1>3. /\ slotSeq[s] \in Nat /\ frameSeq \in Nat /\ frameSeq <= calls /\ calls \in Nat /\ s \in Nat
      /\ mem \in [Ring!Words -> Nat]
  BY RingAssumed DEF WriterTyped, Places
<1>4. WriterTyped'
  <2>1. nextSlot' \in Places
    BY <1>1, <1>2, <1>3, RingAssumed DEF Places
  <2>2. QED
    BY <1>1, <1>2, <1>3, <2>1 DEF WriterTyped
<1>5. PICK t : t = s
  OBVIOUS
<1>6. Settled(t) /\ t \in Places
  BY <1>2, <1>5
<1>7. Written(t, 7)'
  <2>1. /\ slotSeq'[t] - 1 = slotSeq[t] + 1 /\ slotSeq[t] + 2 = slotSeq'[t]
        /\ slotSeq'[t] >= 2 /\ slotSeq[t] = slotSeq'[t] - 2
    BY <1>2, <1>3, <1>5
  <2>2. stores' = Order(t)'
    BY <1>1, <1>2, <1>5, <2>1 DEF Order, Ring!Publishing, Ring!Bump, Ring!Store, Ring!Release
  <2>3. stores' \in Seq(Issued)
    <3>1. /\ Ring!Release("seq", t, slotSeq[t] + 1) \in Issued
          /\ Ring!Store("top", t, frameSeq + 1) \in Issued
          /\ Ring!Store("bottom", t, frameSeq + 1) \in Issued
          /\ Ring!Store("meta", t, frameSeq + 1) \in Issued
          /\ Ring!Release("seq", t, slotSeq[t] + 2) \in Issued
          /\ Ring!Release("latest", "slot", t) \in Issued
          /\ Ring!Release("latest", "frame", frameSeq + 1) \in Issued
      BY <1>2, <1>3, <1>5, Issuing
    <3>2. QED
      BY <1>2, <1>5, <3>1 DEF Ring!Publishing, Ring!Bump
  <2>4. Len(Order(t)') = 7
    BY DEF Order
  <2>5. Left(Order(t), 7)'
    BY <2>2, <2>3, <2>4 DEF Left, Issued
  <2>6. Stamp(t)' = slotSeq'[t] - 2 /\ Meta(t)' = Top(t)' /\ Top(t)' = Bottom(t)'
    BY <1>1, <1>6, <2>1 DEF Settled, Stamp, Meta, Top, Bottom
  <2>7. Meta(t)' <= frameSeq'
    BY <1>1, <1>3, <1>6, RingNumbers DEF Settled, Meta
  <2>8. QED
    BY <2>1, <2>5, <2>6, <2>7 DEF Written
<1>8. ASSUME NEW i \in Places \ {t} PROVE Settled(i)'
  <2>1. Settled(i) /\ slotSeq'[i] = slotSeq[i] /\ Meta(i) \in Nat
    BY <1>2, <1>3, <1>5, <1>8, RingNumbers
  <2>2. QED
    BY <1>1, <1>3, <2>1 DEF Settled, Stamp, Meta, Top, Bottom
<1>9. WriterInv'
  BY <1>6, <1>7, <1>8 DEF WriterInv
<1>10. QED
  BY <1>1, <1>3, <1>4, <1>9, SameMemory

\* And one that is given up, of a raw device, whose fill wrote nothing.
LEMMA AbandonRing ==
    ASSUME RingInv, NEW spoilt \in BOOLEAN, Ring!Abandon(spoilt)
    PROVE  RingInv'
<1> USE DEF RingInv
<1>1. /\ Ring!Issue(<<Ring!Bump(1), Ring!Bump(2)>>)
      /\ UNCHANGED <<frameSeq, nextSlot, mem>> /\ UNCHANGED <<aim, found, copy, accepted>>
  BY DEF Ring!Abandon, Ring!reader
<1> DEFINE s == nextSlot
<1>2. /\ s \in Places /\ \A i \in Places : Settled(i)
      /\ calls' \in 0 .. MaxPictures /\ calls' = calls + 1
      /\ stores' = <<Ring!Bump(1), Ring!Bump(2)>>
      /\ slotSeq' \in [Places -> Nat] /\ slotSeq'[s] = slotSeq[s] + 2
      /\ \A i \in Places \ {s} : slotSeq'[i] = slotSeq[i]
      /\ \A i \in Places : slotSeq'[i] % 2 = 0
  BY <1>1, SlotTaken
<1>3. /\ slotSeq[s] \in Nat /\ frameSeq \in Nat /\ frameSeq <= calls /\ calls \in Nat /\ s \in Nat
      /\ mem \in [Ring!Words -> Nat]
  BY RingAssumed DEF WriterTyped, Places
<1>4. WriterTyped'
  BY <1>1, <1>2, <1>3 DEF WriterTyped
<1>5. PICK t : t = s
  OBVIOUS
<1>6. Settled(t) /\ t \in Places
  BY <1>2, <1>5
<1>7. Retracted(t, 2)'
  <2>1. /\ slotSeq'[t] - 1 = slotSeq[t] + 1 /\ slotSeq[t] + 2 = slotSeq'[t]
        /\ slotSeq'[t] >= 2 /\ slotSeq[t] = slotSeq'[t] - 2
    BY <1>2, <1>3, <1>5
  <2>2. stores' = GivenUp(t)'
    BY <1>2, <1>5, <2>1 DEF GivenUp, Ring!Bump, Ring!Release
  <2>3. stores' \in Seq(Issued)
    <3>1. /\ Ring!Release("seq", t, slotSeq[t] + 1) \in Issued
          /\ Ring!Release("seq", t, slotSeq[t] + 2) \in Issued
      BY <1>2, <1>3, <1>5, Issuing
    <3>2. QED
      BY <1>2, <1>5, <3>1 DEF Ring!Bump
  <2>4. Len(GivenUp(t)') = 2
    BY DEF GivenUp
  <2>5. Left(GivenUp(t), 2)'
    BY <2>2, <2>3, <2>4 DEF Left, Issued
  <2>6. /\ Stamp(t)' = slotSeq'[t] - 2 /\ Meta(t)' = Top(t)' /\ Top(t)' = Bottom(t)'
        /\ Meta(t)' <= frameSeq'
    BY <1>1, <1>6, <2>1 DEF Settled, Stamp, Meta, Top, Bottom
  <2>7. QED
    BY <2>1, <2>5, <2>6 DEF Retracted
<1>8. ASSUME NEW i \in Places \ {t} PROVE Settled(i)'
  <2>1. Settled(i) /\ slotSeq'[i] = slotSeq[i]
    BY <1>2, <1>5, <1>8
  <2>2. QED
    BY <1>1, <2>1 DEF Settled, Stamp, Meta, Top, Bottom
<1>9. WriterInv'
  BY <1>6, <1>7, <1>8 DEF WriterInv
<1>10. QED
  BY <1>1, <1>3, <1>4, <1>9, SameMemory

LEMMA CommitRing ==
    ASSUME RingInv, Ring!Commit
    PROVE  RingInv'
<1>1. Still /\ WriterTyped' /\ WriterInv' /\ HeaderInv' /\ Grown
  BY CommitWriter DEF RingInv
<1>2. UNCHANGED <<aim, found, copy, accepted>>
  BY DEF Ring!Commit, Ring!reader
<1>3. mem' \in [Ring!Words -> Nat]
  BY <1>1 DEF WriterTyped
<1>4. ReaderTyped' /\ ReaderInv' /\ Ring!FrameIsWhole'
  BY <1>1, <1>2, <1>3, ReaderKept DEF RingInv
<1>5. QED
  BY <1>1, <1>4 DEF RingInv

-----------------------------------------------------------------------------
(* The camera's ring: a reader's step.                                     *)

\* The writer and what it stored, which no reader changes.
SameWriter == UNCHANGED <<nextSlot, slotSeq, frameSeq, calls, stores, mem>>

LEMMA WriterAlone ==
    ASSUME WriterTyped, WriterInv, HeaderInv, SameWriter
    PROVE  WriterTyped' /\ WriterInv' /\ HeaderInv'
<1>1. WriterTyped' /\ HeaderInv'
  BY DEF SameWriter, WriterTyped, HeaderInv, Newest, Advertised, Meta
<1>2. WriterInv'
  <2>1. /\ slotSeq' = slotSeq /\ frameSeq' = frameSeq /\ stores' = stores /\ Newest' = Newest
        /\ \A i : Stamp(i)' = Stamp(i) /\ Meta(i)' = Meta(i) /\ Top(i)' = Top(i)
                  /\ Bottom(i)' = Bottom(i)
    BY DEF SameWriter, Stamp, Meta, Top, Bottom, Newest
  <2>2. \A i \in Places : Settled(i) => Settled(i)'
    BY <2>1 DEF Settled
  <2>3. \A i \in Places : Order(i)' = Order(i) /\ GivenUp(i)' = GivenUp(i)
    BY <2>1 DEF Order, GivenUp
  <2>4. ASSUME NEW i \in Places, NEW n \in Nat
        PROVE  /\ Left(Order(i), n) => Left(Order(i), n)'
               /\ Left(GivenUp(i), n) => Left(GivenUp(i), n)'
    BY <2>1, <2>3 DEF Left
  <2>5. ASSUME NEW i \in Places, NEW n \in Nat
        PROVE  (Written(i, n) => Written(i, n)') /\ (Retracted(i, n) => Retracted(i, n)')
    BY <2>1, <2>4 DEF Written, Retracted
  <2>6. QED
    BY <2>1, <2>2, <2>5 DEF WriterInv
<1>3. QED
  BY <1>1, <1>2

LEMMA SetOutRing ==
    ASSUME RingInv, Ring!SetOut
    PROVE  RingInv'
<1>1. /\ aim = 0 /\ aim' = Advertised /\ Advertised > accepted.frame
      /\ UNCHANGED <<found, copy, accepted>> /\ SameWriter
  BY DEF Ring!SetOut, Ring!writer, SameWriter, Advertised
<1>2. WriterTyped' /\ WriterInv' /\ HeaderInv'
  BY <1>1, WriterAlone DEF RingInv
<1>3. Advertised \in Nat /\ Advertised' = Advertised /\ found = RingSlots /\ Len(copy) = 0
  BY <1>1, RingNumbers DEF RingInv, WriterTyped, ReaderInv, SameWriter, Advertised
<1>4. accepted.frame \in Nat
  BY DEF RingInv, ReaderTyped, Ring!Copied
<1>5. ReaderTyped' /\ Ring!FrameIsWhole'
  BY <1>1, <1>3 DEF RingInv, ReaderTyped, Ring!FrameIsWhole
<1>6. ReaderInv'
  BY <1>1, <1>3, RingAssumed DEF ReaderInv
<1>7. QED
  BY <1>2, <1>5, <1>6 DEF RingInv

LEMMA FindSlotRing ==
    ASSUME RingInv, Ring!FindSlot
    PROVE  RingInv'
<1>1. /\ aim > 0 /\ found = RingSlots /\ found' = Newest
      /\ UNCHANGED <<aim, copy, accepted>> /\ SameWriter
  BY DEF Ring!FindSlot, Ring!writer, SameWriter, Newest
<1>2. WriterTyped' /\ WriterInv' /\ HeaderInv'
  BY <1>1, WriterAlone DEF RingInv
<1>3. /\ aim \in Nat /\ Advertised \in Nat /\ Newest \in Places /\ Meta(Newest) \in Nat
      /\ Len(copy) = 0 /\ aim <= Advertised /\ Advertised <= Meta(Newest)
  BY <1>1, RingNumbers DEF RingInv, WriterTyped, ReaderTyped, ReaderInv, HeaderInv
<1>4. PICK t : t = Newest
  OBVIOUS
<1>5. aim <= Meta(t) /\ Meta(t)' = Meta(t) /\ found' = t /\ t \in Places /\ Advertised' = Advertised
  BY <1>1, <1>3, <1>4 DEF SameWriter, Meta, Advertised
<1>6. Newest \in 0 .. RingSlots /\ Newest # RingSlots
  BY <1>3, RingAssumed DEF Places
<1>7. ReaderTyped' /\ Ring!FrameIsWhole'
  BY <1>1, <1>6 DEF RingInv, ReaderTyped, Ring!FrameIsWhole
<1>8. Meta(found)' = Meta(t)'
  BY <1>5 DEF Meta
<1>9. ReaderInv'
  BY <1>1, <1>3, <1>5, <1>6, <1>8 DEF ReaderInv
<1>10. QED
  BY <1>2, <1>7, <1>9 DEF RingInv

LEMMA JudgeRing ==
    ASSUME RingInv, Ring!Judge
    PROVE  RingInv'
<1>1. /\ Len(copy) = 5 /\ found' = RingSlots /\ copy' = <<>> /\ SameWriter
      /\ IF copy[1] = copy[5] /\ copy[1] % 2 = 0
         THEN /\ aim' = 0
              /\ accepted' = [frame |-> copy[2], top |-> copy[3], bottom |-> copy[4], aim |-> aim]
         ELSE UNCHANGED <<aim, accepted>>
  BY DEF Ring!Judge, Ring!Accepted, Ring!Loads, Ring!writer, SameWriter
<1>2. WriterTyped' /\ WriterInv' /\ HeaderInv'
  BY <1>1, WriterAlone DEF RingInv
<1>3. /\ copy[2] \in Nat /\ copy[3] \in Nat /\ copy[4] \in Nat /\ aim \in Nat
      /\ found \in 0 .. RingSlots /\ found # RingSlots
  <2>1. \A j \in 1 .. 5 : copy[j] \in Nat
    BY <1>1, ElementOfSeq DEF RingInv, ReaderTyped
  <2>2. QED
    BY <1>1, <2>1 DEF RingInv, ReaderTyped, ReaderInv
<1>4. /\ aim <= copy[2]
      /\ copy[1] = copy[5] /\ copy[1] % 2 = 0 => copy[2] = copy[3] /\ copy[3] = copy[4]
  BY <1>1, <1>3, RingAssumed DEF RingInv, ReaderInv
<1>5. ReaderTyped'
  BY <1>1, <1>3, RingAssumed, EmptySeq DEF RingInv, ReaderTyped, Ring!Copied
<1>6. Ring!FrameIsWhole'
  BY <1>1, <1>3, <1>4 DEF RingInv, Ring!FrameIsWhole
<1>7. Advertised' = Advertised /\ Advertised \in Nat
  BY <1>1, RingNumbers DEF SameWriter, Advertised, RingInv, WriterTyped
<1>8. ReaderInv'
  BY <1>1, <1>3, <1>7, RingAssumed, EmptySeq DEF RingInv, ReaderInv
<1>9. QED
  BY <1>2, <1>5, <1>6, <1>8 DEF RingInv

\* What is loaded is compared with the memory it is loaded from.
LEMMA LoadRing ==
    ASSUME RingInv, Ring!Load
    PROVE  RingInv'
<1>1. /\ found < RingSlots /\ Len(copy) < 5
      /\ copy' = Append(copy, mem[<<Ring!Loads[Len(copy) + 1], found>>])
      /\ UNCHANGED <<aim, found, accepted>> /\ SameWriter
  BY DEF Ring!Load, Ring!Loads, Ring!writer, SameWriter
<1>2. WriterTyped' /\ WriterInv' /\ HeaderInv'
  BY <1>1, WriterAlone DEF RingInv
<1>3. /\ found \in Places /\ aim \in Nat /\ aim <= Meta(found) /\ aim <= Advertised
      /\ copy \in Seq(Nat) /\ Len(copy) \in 0 .. 4 /\ Whole(found)
      /\ Stamp(found) \in Nat /\ Meta(found) \in Nat /\ Top(found) \in Nat /\ Bottom(found) \in Nat
  <2>1. found \in Places /\ aim \in Nat /\ copy \in Seq(Nat) /\ Len(copy) \in 0 .. 4
    <3>1. found \in 0 .. RingSlots /\ aim \in Nat /\ copy \in Seq(Nat)
      BY DEF RingInv, ReaderTyped
    <3>2. Len(copy) \in Nat
      BY <3>1, LenProperties
    <3>3. found \in Places
      BY <1>1, <3>1, RingAssumed DEF Places
    <3>4. Len(copy) \in 0 .. 4
      <4>1. Len(copy) < 5
        BY <1>1
      <4>2. PICK k : k = Len(copy)
        OBVIOUS
      <4>3. k \in Nat /\ k < 5
        BY <3>2, <4>1, <4>2
      <4>4. QED
        BY <4>2, <4>3
    <3>5. QED
      BY <3>1, <3>3, <3>4
  <2>2. aim <= Meta(found) /\ aim <= Advertised
    BY <1>1 DEF RingInv, ReaderInv
  <2>3. QED
    BY <2>1, <2>2, SlotsWhole, RingNumbers DEF RingInv, WriterTyped
<1> DEFINE m == Len(copy)
           v == mem[<<Ring!Loads[m + 1], found>>]
<1>4. /\ m = 0 => v = Stamp(found)
      /\ m = 1 => v = Meta(found)
      /\ m = 2 => v = Top(found)
      /\ m = 3 => v = Bottom(found)
      /\ m = 4 => v = Stamp(found)
  <2>1. /\ Ring!Loads[1] = "seq" /\ Ring!Loads[2] = "meta" /\ Ring!Loads[3] = "top"
        /\ Ring!Loads[4] = "bottom" /\ Ring!Loads[5] = "seq"
    BY DEF Ring!Loads
  <2>2. \A k :
            /\ k = 0 => Ring!Loads[k + 1] = "seq"
            /\ k = 1 => Ring!Loads[k + 1] = "meta"
            /\ k = 2 => Ring!Loads[k + 1] = "top"
            /\ k = 3 => Ring!Loads[k + 1] = "bottom"
            /\ k = 4 => Ring!Loads[k + 1] = "seq"
    BY <2>1
  <2>3. /\ m = 0 => Ring!Loads[m + 1] = "seq"
        /\ m = 1 => Ring!Loads[m + 1] = "meta"
        /\ m = 2 => Ring!Loads[m + 1] = "top"
        /\ m = 3 => Ring!Loads[m + 1] = "bottom"
        /\ m = 4 => Ring!Loads[m + 1] = "seq"
    BY <2>2, Zenon
  <2>4. QED
    BY <2>3, Zenon DEF Stamp, Meta, Top, Bottom
<1>5. v \in Nat
  BY <1>3, <1>4
<1>6. /\ copy' \in Seq(Nat) /\ Len(copy') = m + 1 /\ copy'[m + 1] = v
      /\ \A j \in 1 .. m : copy'[j] = copy[j]
  BY <1>1, <1>3, <1>5, AppendProperties
<1>7. ReaderTyped' /\ Ring!FrameIsWhole'
  BY <1>1, <1>3, <1>6 DEF RingInv, ReaderTyped, Ring!FrameIsWhole
<1>8. \A j \in 1 .. m : copy[j] \in Nat
  BY <1>3, ElementOfSeq
<1>9. /\ found' = found /\ aim' = aim /\ Advertised' = Advertised
      /\ Stamp(found)' = Stamp(found) /\ Meta(found)' = Meta(found)
      /\ Top(found)' = Top(found) /\ Bottom(found)' = Bottom(found)
  BY <1>1 DEF SameWriter, Stamp, Meta, Top, Bottom, Advertised
<1> HIDE DEF m, v
<1>10. /\ m \in 0 .. 4 /\ m = Len(copy)
       /\ m >= 1 => /\ copy[1] <= Stamp(found)
                    /\ copy[1] = Stamp(found) /\ copy[1] % 2 = 0 =>
                           /\ m >= 2 => copy[2] = Meta(found)
                           /\ m >= 3 => copy[3] = Top(found)
                           /\ m >= 4 => copy[4] = Bottom(found)
       /\ m >= 2 => aim <= copy[2]
  BY <1>1, <1>3 DEF m, RingInv, ReaderInv
<1>11. /\ copy'[1] <= Stamp(found)
       /\ copy'[1] = Stamp(found) /\ copy'[1] % 2 = 0 =>
              /\ m + 1 >= 2 => copy'[2] = Meta(found)
              /\ m + 1 >= 3 => copy'[3] = Top(found)
              /\ m + 1 >= 4 => copy'[4] = Bottom(found)
       /\ m + 1 >= 2 => aim <= copy'[2]
  <2>1. CASE m = 0
    BY <1>3, <1>4, <1>6, <2>1
  <2>2. CASE m = 1
    <3>1. copy'[1] = copy[1] /\ copy'[2] = Meta(found)
      BY <1>4, <1>6, <2>2
    <3>2. QED
      BY <1>3, <1>10, <2>2, <3>1
  <2>3. CASE m = 2
    <3>1. copy'[1] = copy[1] /\ copy'[2] = copy[2] /\ copy'[3] = Top(found)
      BY <1>4, <1>6, <2>3
    <3>2. QED
      BY <1>10, <2>3, <3>1
  <2>4. CASE m = 3
    <3>1. /\ copy'[1] = copy[1] /\ copy'[2] = copy[2] /\ copy'[3] = copy[3]
          /\ copy'[4] = Bottom(found)
      BY <1>4, <1>6, <2>4
    <3>2. QED
      BY <1>10, <2>4, <3>1
  <2>5. CASE m = 4
    <3>1. /\ copy'[1] = copy[1] /\ copy'[2] = copy[2] /\ copy'[3] = copy[3]
          /\ copy'[4] = copy[4]
      BY <1>6, <2>5
    <3>2. QED
      BY <1>10, <2>5, <3>1
  <2>6. QED
    BY <1>10, <2>1, <2>2, <2>3, <2>4, <2>5
<1>12. m + 1 = 5 /\ copy'[1] = copy'[5] /\ copy'[1] % 2 = 0 =>
           copy'[2] = copy'[3] /\ copy'[3] = copy'[4]
  <2>1. SUFFICES ASSUME m = 4, copy'[1] = copy'[5], copy'[1] % 2 = 0
                 PROVE  copy'[2] = copy'[3] /\ copy'[3] = copy'[4]
    BY <1>10
  <2>2. copy'[1] = Stamp(found)
    BY <1>4, <1>6, <2>1
  <2>3. copy'[2] = Meta(found) /\ copy'[3] = Top(found) /\ copy'[4] = Bottom(found)
    BY <1>11, <2>1, <2>2
  <2>4. QED
    BY <1>3, <2>1, <2>2, <2>3 DEF Whole
<1>13. ReaderInv'
  <2>1. Len(copy') = m + 1 /\ m + 1 >= 1 /\ m + 1 # 0 /\ aim' <= Advertised' /\ aim' # 0 /\ found' < RingSlots
    BY <1>1, <1>3, <1>6, <1>9, <1>10, RingAssumed DEF RingInv, ReaderInv
  <2>2. QED
    BY <1>3, <1>9, <1>11, <1>12, <2>1, RingAssumed DEF ReaderInv, Stamp, Meta, Top, Bottom
<1>14. QED
  BY <1>2, <1>7, <1>13 DEF RingInv

LEMMA InitRingInv ==
    ASSUME Ring!Init
    PROVE  RingInv
<1>1. /\ nextSlot = 0 /\ slotSeq = [i \in Places |-> 0] /\ frameSeq = 0 /\ calls = 0
      /\ stores = <<>> /\ mem = [word \in Ring!Words |-> 0] /\ aim = 0 /\ found = RingSlots
      /\ copy = <<>> /\ accepted = [frame |-> 0, top |-> 0, bottom |-> 0, aim |-> 0]
  BY DEF Ring!Init, Places
<1>2. WriterTyped
  BY <1>1, RingAssumed DEF WriterTyped, Places
<1>3. /\ \A i \in Places : Stamp(i) = 0 /\ Meta(i) = 0 /\ Top(i) = 0 /\ Bottom(i) = 0
      /\ Newest = 0 /\ Advertised = 0
  BY <1>1, RingWords DEF Stamp, Meta, Top, Bottom, Newest, Advertised
<1>4. WriterInv
  BY <1>1, <1>3 DEF WriterInv, Settled
<1>5. HeaderInv
  BY <1>1, <1>3, RingAssumed DEF HeaderInv, Places
<1>6. ReaderTyped
  BY <1>1, RingAssumed, EmptySeq DEF ReaderTyped, Ring!Copied
<1>7. ReaderInv
  BY <1>1, <1>3, RingAssumed DEF ReaderInv
<1>8. Ring!FrameIsWhole
  BY <1>1 DEF Ring!FrameIsWhole
<1>9. QED
  BY <1>2, <1>4, <1>5, <1>6, <1>7, <1>8 DEF RingInv

LEMMA NextRingInv ==
    ASSUME RingInv, Ring!Next \/ UNCHANGED RingOnly
    PROVE  RingInv'
<1>1. CASE Ring!Next
  BY <1>1, PublishRing, AbandonRing, CommitRing, SetOutRing, FindSlotRing, LoadRing, JudgeRing
     DEF Ring!Next, Ring!Write, Ring!Read
<1>2. CASE UNCHANGED RingOnly
  <2>1. SameWriter /\ UNCHANGED mem /\ UNCHANGED <<aim, found, copy, accepted>>
    BY <1>2 DEF RingOnly, SameWriter
  <2>2. WriterTyped' /\ WriterInv'
    BY <2>1, WriterAlone DEF RingInv
  <2>3. frameSeq' \in Nat /\ frameSeq <= frameSeq'
    BY <2>1 DEF SameWriter, RingInv, WriterTyped
  <2>4. QED
    BY <2>1, <2>2, <2>3, SameMemory
<1>3. QED
  BY <1>1, <1>2

\* What the invariant says of the types.
LEMMA RingTypes ==
    ASSUME RingInv
    PROVE  Ring!TypeOK
<1>1. stores \in Seq(Issued)
  BY EmptySeq DEF RingInv, WriterInv, Written, Retracted, Left, Issued
<1>2. QED
  BY <1>1 DEF RingInv, WriterTyped, ReaderTyped, Ring!TypeOK, Issued, Places

-----------------------------------------------------------------------------
(* The camera's server: its list of clients.                               *)

\* No two of a list are of one connection, or one descriptor.
Distinct(list) ==
    \A i, j \in 1 .. Len(list) :
        (list[i].conn = list[j].conn \/ list[i].fd = list[j].fd) => i = j

ReadyIn(list) == {list[i].conn : i \in {j \in 1 .. Len(list) : list[j].ready}}

\* A list without the client at its i-th place.
LEMMA OneRemoved ==
    ASSUME NEW S, NEW list \in Seq(S), NEW i \in 1 .. Len(list),
           NEW r, r = Server!RemoveAt(list, i)
    PROVE  /\ r \in Seq(S) /\ Len(list) \in Nat /\ Len(r) = Len(list) - 1
           /\ \A j \in 1 .. Len(list) - 1 : r[j] = IF j < i THEN list[j] ELSE list[j + 1]
<1> DEFINE n == Len(list)
           a == SubSeq(list, 1, i - 1)
           b == SubSeq(list, i + 1, n)
<1>1. n \in Nat /\ i \in 1 .. n /\ \A j \in 1 .. n : list[j] \in S
  BY LenProperties, ElementOfSeq
<1>2. r = a \o b
  BY DEF Server!RemoveAt
<1> HIDE DEF n
<1>3. /\ a \in Seq(S) /\ Len(a) = i - 1
      /\ \A j \in 1 .. i - 1 : a[j] = list[j]
  <2>1. 1 \in Int /\ i - 1 \in Int /\ \A j \in 1 .. i - 1 : list[j] \in S
    BY <1>1
  <2>2. /\ a \in Seq(S) /\ Len(a) = IF 1 <= i - 1 THEN (i - 1) - 1 + 1 ELSE 0
        /\ \A j \in 1 .. (i - 1) - 1 + 1 : a[j] = list[1 + j - 1]
    BY <2>1, SubSeqProperties
  <2>3. (i - 1) - 1 + 1 = i - 1 /\ \A j \in 1 .. i - 1 : 1 + j - 1 = j
    BY <1>1
  <2>4. Len(a) = i - 1
    BY <1>1, <2>2
  <2>5. QED
    BY <2>2, <2>3, <2>4
<1>4. /\ b \in Seq(S) /\ Len(b) = n - i
      /\ \A j \in 1 .. n - i : b[j] = list[i + j]
  <2>1. i + 1 \in Int /\ n \in Int /\ \A j \in i + 1 .. n : list[j] \in S
    BY <1>1
  <2>2. /\ b \in Seq(S) /\ Len(b) = IF i + 1 <= n THEN n - (i + 1) + 1 ELSE 0
        /\ \A j \in 1 .. n - (i + 1) + 1 : b[j] = list[(i + 1) + j - 1]
    BY <2>1, SubSeqProperties
  <2>3. n - (i + 1) + 1 = n - i /\ \A j \in 1 .. n - i : (i + 1) + j - 1 = i + j
    BY <1>1
  <2>4. Len(b) = n - i
    BY <1>1, <2>2
  <2>5. QED
    BY <2>2, <2>3, <2>4
<1> HIDE DEF a, b
<1>5. /\ r \in Seq(S) /\ Len(r) = Len(a) + Len(b)
      /\ \A j \in 1 .. Len(a) + Len(b) : r[j] = IF j <= Len(a) THEN a[j] ELSE b[j - Len(a)]
  BY <1>2, <1>3, <1>4, ConcatProperties
<1>6. Len(a) + Len(b) = n - 1
  BY <1>1, <1>3, <1>4
<1>7. ASSUME NEW j \in 1 .. n - 1
      PROVE  r[j] = IF j < i THEN list[j] ELSE list[j + 1]
  <2>1. r[j] = IF j <= i - 1 THEN a[j] ELSE b[j - (i - 1)]
    BY <1>3, <1>5, <1>6, <1>7
  <2>2. CASE j < i
    BY <1>1, <1>3, <2>1, <2>2
  <2>3. CASE ~(j < i)
    <3>1. j - (i - 1) \in 1 .. n - i /\ i + (j - (i - 1)) = j + 1 /\ ~(j <= i - 1)
      BY <1>1, <1>7, <2>3
    <3>2. QED
      BY <1>4, <2>1, <2>3, <3>1
  <2>4. QED
    BY <2>2, <2>3
<1>8. QED
  BY <1>1, <1>5, <1>6, <1>7 DEF n

\* Who is left is where it was, or one place before.
AllBut(list, i, r) ==
    /\ \A j \in 1 .. Len(r) : \E k \in 1 .. Len(list) : k # i /\ r[j] = list[k]
    /\ \A k \in 1 .. Len(list) : k # i => \E j \in 1 .. Len(r) : r[j] = list[k]

LEMMA LeftBehind ==
    ASSUME NEW S, NEW list \in Seq(S), NEW i \in 1 .. Len(list),
           NEW r, r = Server!RemoveAt(list, i)
    PROVE  AllBut(list, i, r)
<1>1. /\ Len(list) \in Nat /\ Len(r) = Len(list) - 1
      /\ \A j \in 1 .. Len(list) - 1 : r[j] = IF j < i THEN list[j] ELSE list[j + 1]
  BY OneRemoved
<1>2. PICK n : n = Len(list)
  OBVIOUS
<1>3. /\ n \in Nat /\ Len(r) = n - 1 /\ i \in 1 .. n
      /\ \A j \in 1 .. n - 1 : r[j] = IF j < i THEN list[j] ELSE list[j + 1]
  BY <1>1, <1>2
<1>4. ASSUME NEW j \in 1 .. n - 1 PROVE \E k \in 1 .. n : k # i /\ r[j] = list[k]
  <2>1. CASE j < i
    BY <1>3, <2>1
  <2>2. CASE ~(j < i)
    <3>1. j + 1 \in 1 .. n /\ j + 1 # i /\ r[j] = list[j + 1]
      BY <1>3, <2>2
    <3>2. QED
      BY <3>1
  <2>3. QED
    BY <2>1, <2>2
<1>5. ASSUME NEW k \in 1 .. n, k # i PROVE \E j \in 1 .. n - 1 : r[j] = list[k]
  <2>1. CASE k < i
    <3>1. k \in 1 .. n - 1
      BY <1>3, <2>1
    <3>2. QED
      BY <1>3, <2>1, <3>1
  <2>2. CASE ~(k < i)
    <3>1. k - 1 \in 1 .. n - 1 /\ ~(k - 1 < i) /\ (k - 1) + 1 = k
      BY <1>3, <1>5, <2>2
    <3>2. r[k - 1] = list[k]
      BY <1>3, <3>1
    <3>3. QED
      BY <3>1, <3>2
  <2>3. QED
    BY <2>1, <2>2
<1>6. QED
  BY <1>2, <1>3, <1>4, <1>5 DEF AllBut

LEMMA RemovedDistinct ==
    ASSUME NEW S, NEW list \in Seq(S), NEW i \in 1 .. Len(list), Distinct(list),
           NEW r, r = Server!RemoveAt(list, i)
    PROVE  Distinct(r) /\ ReadyIn(r) = ReadyIn(list) \ {list[i].conn}
<1>1. PICK n : n = Len(list)
  OBVIOUS
<1>2. /\ n \in Nat /\ Len(r) = n - 1 /\ i \in 1 .. n
      /\ \A j \in 1 .. n - 1 : r[j] = IF j < i THEN list[j] ELSE list[j + 1]
  BY <1>1, OneRemoved
<1>3. \A j, k \in 1 .. n : (list[j].conn = list[k].conn \/ list[j].fd = list[k].fd) => j = k
  BY <1>1 DEF Distinct
<1>4. ASSUME NEW j \in 1 .. n - 1, NEW k \in 1 .. n - 1,
             r[j].conn = r[k].conn \/ r[j].fd = r[k].fd
      PROVE  j = k
  <2>1. PICK a \in 1 .. n : a = IF j < i THEN j ELSE j + 1
    BY <1>2
  <2>2. PICK b \in 1 .. n : b = IF k < i THEN k ELSE k + 1
    BY <1>2
  <2>3. r[j] = list[a] /\ r[k] = list[b]
    BY <1>2, <2>1, <2>2
  <2>4. a = b
    BY <1>3, <1>4, <2>3
  <2>5. QED
    BY <1>2, <2>1, <2>2, <2>4
<1>5. Distinct(r)
  BY <1>2, <1>4 DEF Distinct
<1>6. /\ \A j \in 1 .. n - 1 : \E k \in 1 .. n : k # i /\ r[j] = list[k]
      /\ \A k \in 1 .. n : k # i => \E j \in 1 .. n - 1 : r[j] = list[k]
  <2>1. /\ \A j \in 1 .. Len(r) : \E k \in 1 .. Len(list) : k # i /\ r[j] = list[k]
        /\ \A k \in 1 .. Len(list) : k # i => \E j \in 1 .. Len(r) : r[j] = list[k]
    <3>1. AllBut(list, i, r)
      BY LeftBehind
    <3>2. QED
      BY <3>1 DEF AllBut
  <2>2. QED
    BY <1>1, <1>2, <2>1
<1>7. ASSUME NEW c PROVE c \in ReadyIn(r) <=> c \in ReadyIn(list) /\ c # list[i].conn
  <2>1. c \in ReadyIn(r) <=> \E j \in 1 .. n - 1 : r[j].ready /\ r[j].conn = c
    BY <1>2 DEF ReadyIn
  <2>2. c \in ReadyIn(list) <=> \E k \in 1 .. n : list[k].ready /\ list[k].conn = c
    BY <1>1 DEF ReadyIn
  <2>3. ASSUME NEW j \in 1 .. n - 1, r[j].ready, r[j].conn = c
        PROVE  c \in ReadyIn(list) /\ c # list[i].conn
    <3>1. PICK k \in 1 .. n : k # i /\ r[j] = list[k]
      BY <1>6
    <3>2. QED
      BY <1>2, <1>3, <2>2, <2>3, <3>1
  <2>4. ASSUME NEW k \in 1 .. n, list[k].ready, list[k].conn = c, c # list[i].conn
        PROVE  c \in ReadyIn(r)
    <3>1. k # i
      BY <2>4
    <3>2. PICK j \in 1 .. n - 1 : r[j] = list[k]
      BY <1>6, <3>1
    <3>3. QED
      BY <2>1, <2>4, <3>2
  <2>5. QED
    BY <2>1, <2>2, <2>3, <2>4
<1>8. QED
  BY <1>5, <1>7

\* A list whose i-th client is ready from now on.
Marks(list, i, r) ==
    /\ r \in Seq(Server!Client) /\ Len(r) = Len(list) /\ Distinct(r)
    /\ \A j \in 1 .. Len(list) : r[j].conn = list[j].conn /\ r[j].fd = list[j].fd
    /\ ReadyIn(r) = ReadyIn(list) \cup {list[i].conn}
    /\ list[i].conn \in ReadyIn(list) <=> list[i].ready

LEMMA OneMarked ==
    ASSUME NEW list \in Seq(Server!Client), NEW i \in 1 .. Len(list), Distinct(list),
           NEW r, r = [list EXCEPT ![i].ready = TRUE]
    PROVE  Marks(list, i, r)
<1>1. \A j \in 1 .. Len(list) : list[j] \in Server!Client
  BY ElementOfSeq
<1>2. PICK e : e = [list[i] EXCEPT !.ready = TRUE]
  OBVIOUS
<1>3. e \in Server!Client /\ e.conn = list[i].conn /\ e.fd = list[i].fd /\ e.ready
  BY <1>1, <1>2 DEF Server!Client
<1>4. r = [list EXCEPT ![i] = e]
  BY <1>2
<1>5. /\ r \in Seq(Server!Client) /\ Len(r) = Len(list)
      /\ \A j \in 1 .. Len(list) : r[j] = IF j = i THEN e ELSE list[j]
  <2>1. /\ [list EXCEPT ![i] = e] \in Seq(Server!Client)
        /\ Len([list EXCEPT ![i] = e]) = Len(list)
        /\ \A j \in 1 .. Len(list) : [list EXCEPT ![i] = e][j] = IF j = i THEN e ELSE list[j]
    BY <1>3, ExceptSeq
  <2>2. QED
    BY <1>4, <2>1
<1>6. \A j \in 1 .. Len(list) : r[j].conn = list[j].conn /\ r[j].fd = list[j].fd
  BY <1>3, <1>5
<1>7. Distinct(r)
  BY <1>5, <1>6 DEF Distinct
<1>8. ASSUME NEW c PROVE c \in ReadyIn(r) <=> c \in ReadyIn(list) \/ c = list[i].conn
  BY <1>3, <1>5, <1>6 DEF ReadyIn
<1>9. list[i].conn \in ReadyIn(list) <=> list[i].ready
  BY DEF ReadyIn, Distinct
<1>10. ReadyIn(r) = ReadyIn(list) \cup {list[i].conn}
  BY <1>8
<1>11. QED
  BY <1>5, <1>6, <1>7, <1>9, <1>10 DEF Marks

\* And one that a client was added to.
Adds(list, e, r) ==
    /\ r \in Seq(Server!Client) /\ Distinct(r) /\ ReadyIn(r) = ReadyIn(list)
    /\ \A j \in 1 .. Len(r) : r[j] = e \/ \E k \in 1 .. Len(list) : r[j] = list[k]

LEMMA OneAdded ==
    ASSUME NEW list \in Seq(Server!Client), NEW e \in Server!Client, Distinct(list), ~e.ready,
           \A j \in 1 .. Len(list) : list[j].conn # e.conn /\ list[j].fd # e.fd,
           NEW r, r = Append(list, e)
    PROVE  Adds(list, e, r)
<1>1. PICK n : n = Len(list)
  OBVIOUS
<1>2. /\ n \in Nat /\ r \in Seq(Server!Client) /\ Len(r) = n + 1 /\ r[n + 1] = e
      /\ \A j \in 1 .. n : r[j] = list[j]
  BY <1>1, AppendProperties, LenProperties
<1>3. \A j, k \in 1 .. n : (list[j].conn = list[k].conn \/ list[j].fd = list[k].fd) => j = k
  BY <1>1 DEF Distinct
<1>4. \A j \in 1 .. n : list[j].conn # e.conn /\ list[j].fd # e.fd
  BY <1>1
<1>5. \A j \in 1 .. n + 1 : j \in 1 .. n \/ j = n + 1
  BY <1>2
<1>6. Distinct(r)
  <2>1. SUFFICES ASSUME NEW j \in 1 .. n + 1, NEW k \in 1 .. n + 1,
                        r[j].conn = r[k].conn \/ r[j].fd = r[k].fd
                 PROVE  j = k
    BY <1>2 DEF Distinct
  <2>2. QED
    BY <1>2, <1>3, <1>4, <1>5, <2>1
<1>7. ASSUME NEW c PROVE c \in ReadyIn(r) <=> c \in ReadyIn(list)
  <2>1. c \in ReadyIn(r) <=> \E j \in 1 .. n + 1 : r[j].ready /\ r[j].conn = c
    BY <1>2 DEF ReadyIn
  <2>2. c \in ReadyIn(list) <=> \E j \in 1 .. n : list[j].ready /\ list[j].conn = c
    BY <1>1 DEF ReadyIn
  <2>3. \A j \in 1 .. n : j \in 1 .. n + 1
    BY <1>2
  <2>4. QED
    BY <1>2, <1>5, <2>1, <2>2, <2>3
<1>8. ReadyIn(r) = ReadyIn(list)
  BY <1>7
<1>9. QED
  BY <1>1, <1>2, <1>5, <1>6, <1>8 DEF Adds

-----------------------------------------------------------------------------
(* The camera's server: the invariant.                                     *)

ServerTyped ==
    /\ {arriving, gone, hello, unopened, retired, renamed} \subseteq SUBSET Clients
    /\ attached \in Seq(Server!Client) /\ pollfds \in Seq(Server!Polled)
    /\ closing \in BOOLEAN
    /\ serving \in {"poll", "wait", "accept", "scan", "ended", "dropped"}
    /\ locked \in {"no", "thread", "doorbell"} /\ idx \in Nat
    /\ locked # "no" => idx # 0

\* Each connection is in one place.
OnePlace ==
    /\ Distinct(attached)
    /\ \A i \in 1 .. Len(attached) : attached[i].conn \notin arriving \cup unopened
    /\ arriving \cap unopened = {}

\* Who poll said had hung up is one who did, or who took over the number of one.
HupsKnown ==
    \A i \in 1 .. Len(pollfds), j \in 1 .. Len(attached) :
        (pollfds[i].hup /\ attached[j].fd = pollfds[i].fd) =>
            attached[j].conn \in gone \cup renamed

Counted ==
    /\ retired \subseteq gone \cup renamed
    /\ readyCount = Cardinality(ReadyIn(attached))

ServerInv == ServerTyped /\ OnePlace /\ HupsKnown /\ Counted

LEMMA ReadyFinite ==
    ASSUME NEW list \in Seq(Server!Client)
    PROVE  /\ IsFiniteSet(ReadyIn(list)) /\ Cardinality(ReadyIn(list)) \in Nat
           /\ Cardinality(ReadyIn(list)) <= Cardinality(Clients)
           /\ Cardinality(Clients) \in Nat
<1>1. IsFiniteSet(Clients)
  BY ConsumersAssumption DEF Server!ServerAssumption, Server!IsFiniteSet, IsFiniteSet
<1>2. ReadyIn(list) \in SUBSET Clients
  <2>1. \A j \in 1 .. Len(list) : list[j] \in Server!Client
    BY ElementOfSeq
  <2>2. QED
    BY <2>1 DEF ReadyIn, Server!Client
<1>3. QED
  BY <1>1, <1>2, FS_Subset, FS_CardinalityType

LEMMA ServesLiveIs ==
    ASSUME ServerTyped
    PROVE  Server!ServesLive <=> Counted
<1>1. Server!ReadyOnes = ReadyIn(attached)
  <2>1. DOMAIN attached = 1 .. Len(attached)
    BY LenProperties DEF ServerTyped
  <2>2. QED
    BY <2>1 DEF Server!ReadyOnes, ReadyIn
<1>2. \A S : Server!Cardinality(S) = Cardinality(S)
  BY DEF Server!Cardinality, Cardinality
<1>3. QED
  BY <1>1, <1>2 DEF Server!ServesLive, Counted

LEMMA ServerTypes ==
    ASSUME ServerInv
    PROVE  Server!TypeOK /\ Server!ServesLive
<1>1. readyCount \in 0 .. Cardinality(Clients)
  BY ReadyFinite DEF ServerInv, ServerTyped, Counted
<1>2. \A S : Server!Cardinality(S) = Cardinality(S)
  BY DEF Server!Cardinality, Cardinality
<1>3. readyCount \in 0 .. Server!Cardinality(Clients)
  BY <1>1, <1>2
<1>4. QED
  BY <1>3, ServesLiveIs DEF ServerInv, ServerTyped, Server!TypeOK

\* A step that adds no client and takes none away.
LEMMA SameList ==
    ASSUME ServerInv, ServerTyped', HupsKnown', gone \subseteq gone',
           arriving' \cup unopened' \subseteq arriving \cup unopened, arriving' \cap unopened' = {},
           UNCHANGED <<attached, readyCount, retired, renamed>>
    PROVE  ServerInv'
<1>1. OnePlace'
  BY DEF ServerInv, OnePlace
<1>2. Counted'
  BY DEF ServerInv, Counted
<1>3. QED
  BY <1>1, <1>2 DEF ServerInv

\* And that leaves poll's answers, too.
LEMMA SameAnswers ==
    ASSUME ServerInv, ServerTyped', gone \subseteq gone',
           arriving' \cup unopened' \subseteq arriving \cup unopened, arriving' \cap unopened' = {},
           UNCHANGED <<attached, readyCount, retired, renamed, pollfds>>
    PROVE  ServerInv'
<1>1. HupsKnown'
  BY DEF ServerInv, HupsKnown
<1>2. QED
  BY <1>1, SameList

LEMMA QuietServer ==
    ASSUME ServerInv,
           \/ Server!Finish \/ Server!Accepted \/ Server!Scan \/ Server!RingDoorbell
           \/ Server!Rung \/ Server!Stop
           \/ \E c \in Clients : Server!Open(c) \/ Server!Handshake(c) \/ Server!HangUp(c)
    PROVE  ServerInv'
<1> USE DEF ServerInv
<1>1. CASE Server!Finish
  <2>1. ServerTyped'
    BY <1>1 DEF Server!Finish, ServerTyped
  <2>2. QED
    BY <1>1, <2>1, SameAnswers DEF Server!Finish, OnePlace
<1>2. CASE Server!Accepted
  <2>1. ServerTyped'
    BY <1>2 DEF Server!Accepted, ServerTyped
  <2>2. QED
    BY <1>2, <2>1, SameAnswers DEF Server!Accepted, OnePlace
<1>3. CASE Server!Scan
  <2>1. ServerTyped'
    BY <1>3 DEF Server!Scan, ServerTyped
  <2>2. QED
    BY <1>3, <2>1, SameAnswers DEF Server!Scan, OnePlace
<1>4. CASE Server!RingDoorbell
  <2>1. ServerTyped'
    BY <1>4 DEF Server!RingDoorbell, ServerTyped
  <2>2. QED
    BY <1>4, <2>1, SameAnswers DEF Server!RingDoorbell, OnePlace
<1>5. CASE Server!Rung
  <2>1. ServerTyped'
    BY <1>5 DEF Server!Rung, ServerTyped
  <2>2. QED
    BY <1>5, <2>1, SameAnswers DEF Server!Rung, OnePlace
<1>6. CASE Server!Stop
  <2>1. ServerTyped'
    BY <1>6 DEF Server!Stop, ServerTyped
  <2>2. QED
    BY <1>6, <2>1, SameAnswers DEF Server!Stop, OnePlace
<1>7. ASSUME NEW c \in Clients, Server!Open(c) PROVE ServerInv'
  <2>1. ServerTyped'
    BY <1>7 DEF Server!Open, ServerTyped
  <2>2. QED
    BY <1>7, <2>1, SameAnswers DEF Server!Open, OnePlace
<1>8. ASSUME NEW c \in Clients, Server!Handshake(c) PROVE ServerInv'
  <2>1. ServerTyped'
    BY <1>8 DEF Server!Handshake, ServerTyped
  <2>2. QED
    BY <1>8, <2>1, SameAnswers DEF Server!Handshake, OnePlace
<1>9. ASSUME NEW c \in Clients, Server!HangUp(c) PROVE ServerInv'
  <2>1. ServerTyped'
    BY <1>9 DEF Server!HangUp, ServerTyped
  <2>2. QED
    BY <1>9, <2>1, SameAnswers DEF Server!HangUp, OnePlace
<1>10. QED
  BY <1>1, <1>2, <1>3, <1>4, <1>5, <1>6, <1>7, <1>8, <1>9

-----------------------------------------------------------------------------
(* The camera's server: what poll is asked, and answers.                   *)

\* An answer for each descriptor that is polled.
LEMMA AnswersTyped ==
    ASSUME NEW S, NEW list \in Seq(S), NEW answers,
           answers = [i \in DOMAIN list |-> answers[i]],
           \A i \in DOMAIN list : answers[i] \in Server!Polled
    PROVE  answers \in Seq(Server!Polled) /\ Len(answers) = Len(list)
<1>1. DOMAIN list = 1 .. Len(list) /\ Len(list) \in Nat
  BY LenProperties
<1>2. QED
  BY <1>1, SeqDef

LEMMA CollectServer ==
    ASSUME ServerInv, Server!Collect
    PROVE  ServerInv'
<1> USE DEF ServerInv
<1>1. /\ serving' = "wait"
      /\ pollfds' = [i \in DOMAIN attached |->
                        [fd |-> attached[i].fd, event |-> FALSE, hup |-> FALSE]]
      /\ UNCHANGED <<arriving, gone, hello, attached, readyCount, closing, locked, idx,
                     unopened, retired, renamed>>
  BY DEF Server!Collect, Server!Watched
<1>2. attached \in Seq(Server!Client) /\ \A i \in DOMAIN attached : attached[i] \in Server!Client
  BY ElementOfSeq, LenProperties DEF ServerTyped
<1>3. /\ pollfds' = [i \in DOMAIN attached |-> pollfds'[i]]
      /\ \A i \in DOMAIN attached : pollfds'[i] \in Server!Polled /\ ~pollfds'[i].hup
  BY <1>1, <1>2 DEF Server!Client, Server!Polled
<1>4. pollfds' \in Seq(Server!Polled) /\ Len(pollfds') = Len(attached)
  BY <1>2, <1>3, AnswersTyped
<1>5. ServerTyped'
  BY <1>1, <1>4 DEF ServerTyped
<1>6. DOMAIN attached = 1 .. Len(attached)
  BY <1>2, LenProperties
<1>7. HupsKnown'
  BY <1>3, <1>4, <1>6 DEF HupsKnown
<1>8. QED
  BY <1>1, <1>5, <1>7, SameList DEF OnePlace

\* What poll answers of a number that a client has is what became of that client.
LEMMA AnswerKnown ==
    ASSUME ServerTyped, Distinct(attached), NEW fd \in Numbers
    PROVE  /\ Server!Answer(fd) \in Server!Polled /\ Server!Answer(fd).fd = fd
           /\ \A j \in 1 .. Len(attached) :
                  (Server!Answer(fd).hup /\ attached[j].fd = fd) => attached[j].conn \in gone
<1>1. attached \in Seq(Server!Client) /\ DOMAIN attached = 1 .. Len(attached)
  BY LenProperties DEF ServerTyped
<1>2. CASE \E i \in DOMAIN attached : attached[i].fd = fd
  <2>1. PICK c : c = CHOOSE i \in DOMAIN attached : attached[i].fd = fd
    OBVIOUS
  <2>2. c \in DOMAIN attached /\ attached[c].fd = fd
    BY <1>2, <2>1
  <2>3. Server!Answer(fd) = [fd |-> fd, event |-> attached[c].conn \in gone \cup hello,
                             hup |-> attached[c].conn \in gone]
    BY <1>2, <2>1 DEF Server!Answer
  <2>4. \A j \in 1 .. Len(attached) : attached[j].fd = fd => j = c
    BY <1>1, <2>2 DEF Distinct
  <2>5. Server!Answer(fd) \in Server!Polled
    BY <2>3 DEF Server!Polled
  <2>6. Server!Answer(fd).fd = fd /\ Server!Answer(fd).hup = (attached[c].conn \in gone)
    <3>1. PICK b : b = (attached[c].conn \in gone)
      OBVIOUS
    <3>2. Server!Answer(fd) = [fd |-> fd, event |-> attached[c].conn \in gone \cup hello,
                               hup |-> b]
      BY <2>3, <3>1, Zenon
    <3>3. Server!Answer(fd).fd = fd /\ Server!Answer(fd).hup = b
      BY <3>2
    <3>4. QED
      BY <3>1, <3>3
  <2>7. ASSUME NEW j \in 1 .. Len(attached), Server!Answer(fd).hup, attached[j].fd = fd
        PROVE  attached[j].conn \in gone
    BY <2>4, <2>6, <2>7
  <2>8. QED
    BY <2>3, <2>5, <2>7
<1>3. CASE ~ \E i \in DOMAIN attached : attached[i].fd = fd
  <2>1. Server!Answer(fd) = [fd |-> fd, event |-> TRUE, hup |-> FALSE]
    BY <1>3 DEF Server!Answer
  <2>2. QED
    BY <2>1 DEF Server!Polled
<1>4. QED
  BY <1>2, <1>3

LEMMA ReturnServer ==
    ASSUME ServerInv, Server!Return
    PROVE  ServerInv'
<1> USE DEF ServerInv
<1>1. /\ pollfds' = [i \in DOMAIN pollfds |-> Server!Answer(pollfds[i].fd)]
      /\ serving' \in {"accept", "scan"}
      /\ UNCHANGED <<arriving, gone, hello, attached, readyCount, closing, locked, idx,
                     unopened, retired, renamed>>
  BY DEF Server!Return
<1>2. /\ pollfds \in Seq(Server!Polled)
      /\ \A i \in DOMAIN pollfds : pollfds[i] \in Server!Polled
      /\ DOMAIN pollfds = 1 .. Len(pollfds)
  BY ElementOfSeq, LenProperties DEF ServerTyped
<1>3. \A i \in DOMAIN pollfds :
          /\ pollfds[i].fd \in Numbers /\ pollfds'[i] = Server!Answer(pollfds[i].fd)
  BY <1>1, <1>2 DEF Server!Polled
<1>4. \A i \in DOMAIN pollfds :
          /\ pollfds'[i] \in Server!Polled
          /\ \A j \in 1 .. Len(attached) :
                 (pollfds'[i].hup /\ attached[j].fd = pollfds'[i].fd) => attached[j].conn \in gone
  BY <1>3, AnswerKnown DEF OnePlace
<1>5. pollfds' = [i \in DOMAIN pollfds |-> pollfds'[i]]
  BY <1>1
<1>6. pollfds' \in Seq(Server!Polled) /\ Len(pollfds') = Len(pollfds)
  BY <1>2, <1>4, <1>5, AnswersTyped
<1>7. ServerTyped'
  BY <1>1, <1>6 DEF ServerTyped
<1>8. HupsKnown'
  BY <1>1, <1>2, <1>4, <1>6 DEF HupsKnown
<1>9. QED
  BY <1>1, <1>7, <1>8, SameList DEF OnePlace

\* The answers that are left, and the one that is next.
LEMMA NextAnswer ==
    ASSUME pollfds \in Seq(Server!Polled), pollfds # <<>>
    PROVE  /\ Len(pollfds) \in Nat \ {0} /\ Head(pollfds) = pollfds[1]
           /\ Tail(pollfds) \in Seq(Server!Polled) /\ Len(Tail(pollfds)) = Len(pollfds) - 1
           /\ \A i \in 1 .. Len(Tail(pollfds)) :
                  i + 1 \in 1 .. Len(pollfds) /\ Tail(pollfds)[i] = pollfds[i + 1]
<1>1. /\ Len(pollfds) \in Nat \ {0} /\ Head(pollfds) = pollfds[1]
      /\ Tail(pollfds) \in Seq(Server!Polled) /\ Len(Tail(pollfds)) = Len(pollfds) - 1
      /\ \A i \in 1 .. Len(pollfds) - 1 : Tail(pollfds)[i] = pollfds[i + 1]
  BY TakeHead
<1>2. PICK n : n = Len(pollfds)
  OBVIOUS
<1>3. \A i \in 1 .. n - 1 : i + 1 \in 1 .. n
  BY <1>1, <1>2
<1>4. QED
  BY <1>1, <1>2, <1>3

LEMMA SkipServer ==
    ASSUME ServerInv, Server!Skip \/ Server!Scanned
    PROVE  ServerInv'
<1> USE DEF ServerInv
<1>1. CASE Server!Skip
  <2>1. /\ pollfds # <<>> /\ pollfds' = Tail(pollfds) /\ idx' = idx + 1
        /\ UNCHANGED <<arriving, gone, hello, attached, readyCount, closing, serving, locked,
                       unopened, retired, renamed>>
    BY <1>1 DEF Server!Skip, Server!AtClient
  <2>2. /\ pollfds' \in Seq(Server!Polled)
        /\ \A i \in 1 .. Len(pollfds') :
               i + 1 \in 1 .. Len(pollfds) /\ pollfds'[i] = pollfds[i + 1]
    BY <2>1, NextAnswer DEF ServerTyped
  <2>3. ServerTyped'
    BY <2>1, <2>2 DEF ServerTyped
  <2>4. HupsKnown'
    BY <2>1, <2>2 DEF HupsKnown
  <2>5. QED
    BY <2>1, <2>3, <2>4, SameList DEF OnePlace
<1>2. CASE Server!Scanned
  <2>1. /\ pollfds' = <<>> /\ idx' = 0 /\ locked' = "no" /\ serving' = "poll"
        /\ UNCHANGED <<arriving, gone, hello, attached, readyCount, closing,
                       unopened, retired, renamed>>
    BY <1>2 DEF Server!Scanned
  <2>2. ServerTyped'
    BY <2>1, EmptySeq DEF ServerTyped
  <2>3. HupsKnown'
    BY <2>1, EmptySeq DEF HupsKnown
  <2>4. QED
    BY <2>1, <2>2, <2>3, SameList DEF OnePlace
<1>3. QED
  BY <1>1, <1>2

-----------------------------------------------------------------------------
(* The camera's server: steps that change its list.                        *)

\* A client that is gone leaves the list.
LEMMA LeavesServer ==
    ASSUME ServerInv, ServerTyped', NEW i \in 1 .. Len(attached),
           attached' = Server!RemoveAt(attached, i),
           attached[i].conn \in gone \cup renamed,
           readyCount' = readyCount - Server!Discount(attached[i]),
           retired' = retired \cup {attached[i].conn},
           UNCHANGED <<arriving, gone, unopened, renamed>>,
           \A k \in 1 .. Len(pollfds') : \E l \in 1 .. Len(pollfds) : pollfds'[k] = pollfds[l]
    PROVE  ServerInv'
<1> USE DEF ServerInv
<1>1. attached \in Seq(Server!Client) /\ Distinct(attached) /\ attached[i] \in Server!Client
  BY ElementOfSeq DEF ServerTyped, OnePlace
<1>2. PICK r : r = attached'
  OBVIOUS
<1>3. PICK list : list = attached
  OBVIOUS
<1>4. /\ list \in Seq(Server!Client) /\ i \in 1 .. Len(list) /\ Distinct(list)
      /\ r = Server!RemoveAt(list, i)
  BY <1>1, <1>2, <1>3 DEF Server!RemoveAt
<1>5. Distinct(r) /\ ReadyIn(r) = ReadyIn(list) \ {list[i].conn}
  BY <1>4, RemovedDistinct
<1>6. \A j \in 1 .. Len(r) : \E k \in 1 .. Len(list) : r[j] = list[k]
  <2>1. AllBut(list, i, r)
    BY <1>4, LeftBehind
  <2>2. QED
    BY <2>1 DEF AllBut
<1>7. OnePlace'
  <2>1. ASSUME NEW j \in 1 .. Len(r) PROVE r[j].conn \notin arriving \cup unopened
    BY <1>3, <1>6 DEF OnePlace
  <2>2. QED
    BY <1>2, <1>5, <2>1 DEF OnePlace
<1>8. HupsKnown'
  <2>1. SUFFICES ASSUME NEW k \in 1 .. Len(pollfds'), NEW j \in 1 .. Len(r),
                        pollfds'[k].hup, r[j].fd = pollfds'[k].fd
                 PROVE  r[j].conn \in gone \cup renamed
    BY <1>2 DEF HupsKnown
  <2>2. PICK l \in 1 .. Len(pollfds) : pollfds'[k] = pollfds[l]
    OBVIOUS
  <2>3. PICK m \in 1 .. Len(list) : r[j] = list[m]
    BY <1>6
  <2>4. QED
    BY <1>3, <2>1, <2>2, <2>3 DEF HupsKnown
<1>9. readyCount' = Cardinality(ReadyIn(r))
  <2>1. IsFiniteSet(ReadyIn(list)) /\ Cardinality(ReadyIn(list)) \in Nat
    BY <1>4, ReadyFinite
  <2>2. list[i].conn \in ReadyIn(list) <=> list[i].ready
    BY <1>4 DEF ReadyIn, Distinct
  <2>3. Cardinality(ReadyIn(r)) = IF list[i].ready THEN Cardinality(ReadyIn(list)) - 1
                                  ELSE Cardinality(ReadyIn(list))
    <3>1. Cardinality(ReadyIn(list) \ {list[i].conn}) =
              IF list[i].conn \in ReadyIn(list) THEN Cardinality(ReadyIn(list)) - 1
              ELSE Cardinality(ReadyIn(list))
      BY <2>1, FS_RemoveElement
    <3>2. QED
      BY <1>5, <2>2, <3>1
  <2>4. readyCount = Cardinality(ReadyIn(list))
    BY <1>3 DEF Counted
  <2>5. readyCount' = readyCount - IF list[i].ready THEN 1 ELSE 0
    BY <1>3 DEF Server!Discount
  <2>6. QED
    BY <2>1, <2>3, <2>4, <2>5
<1>10. Counted'
  <2>1. retired' \subseteq gone' \cup renamed'
    BY DEF Counted
  <2>2. QED
    BY <1>2, <1>9, <2>1 DEF Counted
<1>11. QED
  BY <1>7, <1>8, <1>10

LEMMA ThisPlace ==
    ASSUME ServerTyped, locked # "no", idx <= Len(attached)
    PROVE  idx \in 1 .. Len(attached) /\ attached[idx] \in Server!Client
<1>1. Len(attached) \in Nat /\ idx \in Nat /\ idx # 0 /\ attached \in Seq(Server!Client)
  BY LenProperties DEF ServerTyped
<1>2. idx \in 1 .. Len(attached)
  BY <1>1
<1>3. QED
  BY <1>1, <1>2, ElementOfSeq

LEMMA RetireServer ==
    ASSUME ServerInv, Server!Retire
    PROVE  ServerInv'
<1> USE DEF ServerInv
<1>1. /\ locked = "thread" /\ pollfds # <<>> /\ idx <= Len(attached)
      /\ attached[idx].fd = Head(pollfds).fd
      /\ attached[idx].conn \in gone \/ Head(pollfds).hup
      /\ attached' = Server!RemoveAt(attached, idx)
      /\ readyCount' = readyCount - Server!Discount(attached[idx])
      /\ retired' = retired \cup {attached[idx].conn}
      /\ pollfds' = Tail(pollfds)
      /\ UNCHANGED <<arriving, gone, hello, closing, serving, locked, idx, unopened, renamed>>
  BY DEF Server!Retire, Server!AtClient, Server!Answered, Server!Matches, Server!AtEnd,
         Server!ThisClient
<1>2. idx \in 1 .. Len(attached) /\ attached[idx] \in Server!Client
  BY <1>1, ThisPlace
<1>3. /\ Len(pollfds) \in Nat \ {0} /\ Head(pollfds) = pollfds[1]
      /\ pollfds' \in Seq(Server!Polled)
      /\ \A k \in 1 .. Len(pollfds') :
             k + 1 \in 1 .. Len(pollfds) /\ pollfds'[k] = pollfds[k + 1]
  BY <1>1, NextAnswer DEF ServerTyped
<1>4. attached[idx].conn \in gone \cup renamed
  <2>1. 1 \in 1 .. Len(pollfds)
    BY <1>3
  <2>2. QED
    BY <1>1, <1>2, <1>3, <2>1 DEF HupsKnown
<1>5. ServerTyped'
  <2>1. attached' \in Seq(Server!Client)
    BY <1>1, <1>2, OneRemoved DEF ServerTyped
  <2>2. retired' \in SUBSET Clients
    BY <1>1, <1>2 DEF ServerTyped, Server!Client
  <2>3. QED
    BY <1>1, <1>3, <2>1, <2>2 DEF ServerTyped
<1>6. PICK i : i = idx
  OBVIOUS
<1>7. QED
  BY <1>1, <1>2, <1>3, <1>4, <1>5, <1>6, LeavesServer

\* The doorbell takes away who is gone, and passes any other.
LEMMA WakeServer ==
    ASSUME ServerInv, Server!Wake
    PROVE  ServerInv'
<1> USE DEF ServerInv
<1>1. /\ locked = "doorbell" /\ idx <= Len(attached)
      /\ UNCHANGED <<arriving, gone, hello, closing, serving, pollfds, locked, unopened, renamed>>
  BY DEF Server!Wake
<1>2. idx \in 1 .. Len(attached) /\ attached[idx] \in Server!Client
  BY <1>1, ThisPlace
<1>3. CASE Server!Gone(attached[idx])
  <2>1. /\ attached' = Server!RemoveAt(attached, idx) /\ idx' = idx
        /\ readyCount' = readyCount - 1
        /\ retired' = retired \cup {attached[idx].conn}
    BY <1>3 DEF Server!Wake, Server!ThisClient
  <2>2. /\ attached[idx].conn \in gone \cup renamed
        /\ readyCount' = readyCount - Server!Discount(attached[idx])
    BY <1>3, <2>1 DEF Server!Gone, Server!Discount
  <2>3. ServerTyped'
    <3>1. attached' \in Seq(Server!Client)
      BY <2>1, <1>2, OneRemoved DEF ServerTyped
    <3>2. retired' \in SUBSET Clients
      BY <1>2, <2>1 DEF ServerTyped, Server!Client
    <3>3. QED
      BY <1>1, <2>1, <3>1, <3>2 DEF ServerTyped
  <2>4. PICK i : i = idx
    OBVIOUS
  <2>5. QED
    BY <1>1, <1>2, <2>1, <2>2, <2>3, <2>4, LeavesServer
<1>4. CASE ~Server!Gone(attached[idx])
  <2>1. idx' = idx + 1 /\ UNCHANGED <<attached, readyCount, retired>>
    BY <1>4 DEF Server!Wake, Server!ThisClient
  <2>2. ServerTyped'
    BY <1>1, <2>1 DEF ServerTyped
  <2>3. QED
    BY <1>1, <2>1, <2>2, SameAnswers DEF OnePlace
<1>5. QED
  BY <1>3, <1>4

LEMMA ReadServer ==
    ASSUME ServerInv, Server!Read
    PROVE  ServerInv'
<1> USE DEF ServerInv
<1>1. /\ locked = "thread" /\ pollfds # <<>> /\ idx <= Len(attached)
      /\ hello' = hello \ {attached[idx].conn}
      /\ attached' = [attached EXCEPT ![idx].ready = TRUE]
      /\ readyCount' = readyCount + 1 - Server!Discount(attached[idx])
      /\ pollfds' = Tail(pollfds) /\ idx' = idx + 1
      /\ UNCHANGED <<arriving, gone, closing, serving, locked, unopened, retired, renamed>>
  BY DEF Server!Read, Server!AtClient, Server!ThisClient
<1>2. idx \in 1 .. Len(attached) /\ attached[idx] \in Server!Client
  BY <1>1, ThisPlace
<1>3. /\ pollfds' \in Seq(Server!Polled)
      /\ \A k \in 1 .. Len(pollfds') :
             k + 1 \in 1 .. Len(pollfds) /\ pollfds'[k] = pollfds[k + 1]
  BY <1>1, NextAnswer DEF ServerTyped
<1>4. PICK i, list, r : i = idx /\ list = attached /\ r = attached'
  OBVIOUS
<1>5. /\ list \in Seq(Server!Client) /\ i \in 1 .. Len(list) /\ Distinct(list)
      /\ r = [list EXCEPT ![i].ready = TRUE]
  BY <1>1, <1>2, <1>4 DEF ServerTyped, OnePlace
<1>6. /\ r \in Seq(Server!Client) /\ Len(r) = Len(list) /\ Distinct(r)
      /\ \A j \in 1 .. Len(list) : r[j].conn = list[j].conn /\ r[j].fd = list[j].fd
      /\ ReadyIn(r) = ReadyIn(list) \cup {list[i].conn}
      /\ list[i].conn \in ReadyIn(list) <=> list[i].ready
  <2>1. Marks(list, i, r)
    BY <1>5, OneMarked
  <2>2. QED
    BY <2>1 DEF Marks
<1>7. ServerTyped'
  BY <1>1, <1>3, <1>4, <1>6 DEF ServerTyped
<1>8. OnePlace'
  <2>1. \A j \in 1 .. Len(r) : r[j].conn \notin arriving \cup unopened
    BY <1>4, <1>6 DEF OnePlace
  <2>2. QED
    BY <1>1, <1>4, <1>6, <2>1 DEF OnePlace
<1>9. HupsKnown'
  <2>1. SUFFICES ASSUME NEW k \in 1 .. Len(pollfds'), NEW j \in 1 .. Len(r),
                        pollfds'[k].hup, r[j].fd = pollfds'[k].fd
                 PROVE  r[j].conn \in gone \cup renamed
    BY <1>1, <1>4 DEF HupsKnown
  <2>2. k + 1 \in 1 .. Len(pollfds) /\ pollfds'[k] = pollfds[k + 1]
    BY <1>3
  <2>3. j \in 1 .. Len(list) /\ r[j].conn = list[j].conn /\ r[j].fd = list[j].fd
    BY <1>6
  <2>4. QED
    BY <1>4, <2>1, <2>2, <2>3 DEF HupsKnown
<1>10. Counted'
  <2>1. IsFiniteSet(ReadyIn(list)) /\ Cardinality(ReadyIn(list)) \in Nat
    BY <1>5, ReadyFinite
  <2>2. Cardinality(ReadyIn(r)) = IF list[i].ready THEN Cardinality(ReadyIn(list))
                                  ELSE Cardinality(ReadyIn(list)) + 1
    BY <1>6, <2>1, FS_AddElement
  <2>3. readyCount = Cardinality(ReadyIn(list))
    BY <1>4 DEF Counted
  <2>4. readyCount' = readyCount + 1 - IF list[i].ready THEN 1 ELSE 0
    BY <1>1, <1>4 DEF Server!Discount
  <2>5. readyCount' = Cardinality(ReadyIn(r))
    BY <2>1, <2>2, <2>3, <2>4
  <2>6. QED
    BY <1>1, <1>4, <2>5 DEF Counted
<1>11. QED
  BY <1>7, <1>8, <1>9, <1>10

\* A connection accepted is of no client yet, and neither is its number.
LEMMA AcceptServer ==
    ASSUME ServerInv, NEW c \in Clients, Server!Accept(c)
    PROVE  ServerInv'
<1> USE DEF ServerInv
<1>1. /\ c \in arriving /\ arriving' = arriving \ {c}
      /\ UNCHANGED <<gone, hello, readyCount, closing, serving, pollfds, locked, idx, unopened,
                     retired>>
  BY DEF Server!Accept
<1>2. CASE c \in gone
  <2>1. UNCHANGED <<attached, renamed>>
    BY <1>2 DEF Server!Accept
  <2>2. ServerTyped'
    BY <1>1, <2>1 DEF ServerTyped
  <2>3. QED
    BY <1>1, <2>1, <2>2, SameAnswers DEF OnePlace
<1>3. CASE c \notin gone
  <2>1. PICK fd \in Numbers \ {attached[i].fd : i \in DOMAIN attached} :
            /\ attached' = Append(attached, [conn |-> c, fd |-> fd, ready |-> FALSE])
            /\ renamed' = IF \E i \in DOMAIN pollfds : pollfds[i].fd = fd
                          THEN renamed \cup {c} ELSE renamed
    BY <1>3 DEF Server!Accept
  <2>2. /\ DOMAIN attached = 1 .. Len(attached) /\ DOMAIN pollfds = 1 .. Len(pollfds)
        /\ attached \in Seq(Server!Client)
    BY LenProperties DEF ServerTyped
  <2>3. PICK e, list, r : /\ e = [conn |-> c, fd |-> fd, ready |-> FALSE]
                          /\ list = attached /\ r = attached'
    OBVIOUS
  <2>4. e \in Server!Client /\ e.conn = c /\ e.fd = fd /\ ~e.ready
    BY <2>1, <2>3 DEF Server!Client
  <2>5. \A j \in 1 .. Len(list) : list[j].conn # e.conn /\ list[j].fd # e.fd
    BY <1>1, <2>1, <2>2, <2>3, <2>4 DEF OnePlace
  <2>6. list \in Seq(Server!Client) /\ Distinct(list) /\ r = Append(list, e)
    BY <2>1, <2>2, <2>3 DEF OnePlace
  <2>7. /\ r \in Seq(Server!Client) /\ Distinct(r) /\ ReadyIn(r) = ReadyIn(list)
        /\ \A j \in 1 .. Len(r) : r[j] = e \/ \E k \in 1 .. Len(list) : r[j] = list[k]
    <3>1. Adds(list, e, r)
      BY <2>4, <2>5, <2>6, OneAdded
    <3>2. QED
      BY <3>1 DEF Adds
  <2>8. renamed' \in SUBSET Clients /\ renamed \subseteq renamed'
    BY <2>1 DEF ServerTyped
  <2>9. ServerTyped'
    BY <1>1, <2>3, <2>7, <2>8 DEF ServerTyped
  <2>10. OnePlace'
    <3>1. \A j \in 1 .. Len(r) : r[j].conn \notin arriving' \cup unopened'
      BY <1>1, <2>3, <2>4, <2>7 DEF OnePlace
    <3>2. QED
      BY <1>1, <2>3, <2>7, <3>1 DEF OnePlace
  <2>11. HupsKnown'
    <3>1. SUFFICES ASSUME NEW k \in 1 .. Len(pollfds), NEW j \in 1 .. Len(r),
                          pollfds[k].hup, r[j].fd = pollfds[k].fd
                   PROVE  r[j].conn \in gone \cup renamed'
      BY <1>1, <2>3 DEF HupsKnown
    <3>2. CASE r[j] = e
      BY <2>1, <2>2, <2>4, <3>1, <3>2
    <3>3. CASE \E m \in 1 .. Len(list) : r[j] = list[m]
      BY <2>3, <2>8, <3>1, <3>3 DEF HupsKnown
    <3>4. QED
      BY <2>7, <3>2, <3>3
  <2>12. Counted'
    BY <1>1, <2>3, <2>7, <2>8 DEF Counted
  <2>13. QED
    BY <2>9, <2>10, <2>11, <2>12
<1>4. QED
  BY <1>2, <1>3

LEMMA NoneReady == ReadyIn(<<>>) = {} /\ Distinct(<<>>) /\ Cardinality({}) = 0
  BY EmptySeq, FS_EmptySet DEF ReadyIn, Distinct

LEMMA DropServer ==
    ASSUME ServerInv, Server!Drop
    PROVE  ServerInv'
<1> USE DEF ServerInv
<1>1. /\ serving' = "dropped" /\ attached' = <<>> /\ readyCount' = 0 /\ arriving' = {}
      /\ UNCHANGED <<gone, hello, closing, pollfds, locked, idx, unopened, retired, renamed>>
  BY DEF Server!Drop
<1>2. ServerTyped'
  BY <1>1, EmptySeq DEF ServerTyped
<1>3. OnePlace'
  BY <1>1, NoneReady, EmptySeq DEF OnePlace
<1>4. HupsKnown'
  BY <1>1, EmptySeq DEF HupsKnown
<1>5. Counted'
  BY <1>1, NoneReady DEF Counted
<1>6. QED
  BY <1>2, <1>3, <1>4, <1>5

LEMMA InitServerInv ==
    ASSUME Server!Init
    PROVE  ServerInv
<1>1. /\ arriving = {} /\ gone = {} /\ hello = {} /\ unopened = Clients
      /\ attached = <<>> /\ readyCount = 0 /\ closing = FALSE
      /\ serving = "poll" /\ pollfds = <<>> /\ locked = "no" /\ idx = 0
      /\ retired = {} /\ renamed = {}
  BY DEF Server!Init
<1>2. ServerTyped
  BY <1>1, EmptySeq DEF ServerTyped
<1>3. OnePlace
  BY <1>1, NoneReady, EmptySeq DEF OnePlace
<1>4. HupsKnown
  BY <1>1, EmptySeq DEF HupsKnown
<1>5. Counted
  BY <1>1, NoneReady DEF Counted
<1>6. QED
  BY <1>2, <1>3, <1>4, <1>5 DEF ServerInv

LEMMA NextServerInv ==
    ASSUME ServerInv, Server!Next \/ UNCHANGED ServerOnly
    PROVE  ServerInv'
<1>1. CASE Server!Next
  BY <1>1, QuietServer, CollectServer, ReturnServer, SkipServer, RetireServer, WakeServer,
     ReadServer, AcceptServer, DropServer DEF Server!Next, Server!ThreadStep
<1>2. CASE UNCHANGED ServerOnly
  <2>1. ServerTyped'
    BY <1>2 DEF ServerOnly, ServerInv, ServerTyped
  <2>2. QED
    BY <1>2, <2>1, SameAnswers DEF ServerOnly, ServerInv, OnePlace
<1>3. QED
  BY <1>1, <1>2

-----------------------------------------------------------------------------
(* The types.                                                              *)

\* Of the sink, with the room there is for the frame being encoded.
SinkTypes == TypeOK /\ (encoding = "encoding" => frame.n < MaxFrames)

LEMMA InitSinkTypes == ASSUME Init, SinkAssumption PROVE SinkTypes
<1>1. First \in Frame
  BY DEF First, Frame, None, SinkAssumption
<1>2. \A c \in Clients : queue[c] = <<>>
  BY DEF Init
<1>3. <<>> \in Seq(Frame) /\ Len(<<>>) = 0 /\ 0 <= QueueCap
  BY DEF SinkAssumption
<1>4. \A c \in Clients : queue[c] \in Seq(Frame) /\ Len(queue[c]) <= QueueCap
  BY <1>2, <1>3
<1>5. /\ hand \in [Clients -> Frame] /\ frame \in Frame
      /\ last \in [Clients -> 0 .. MaxFrames]
  <2>1. 0 \in 0 .. MaxFrames
    BY DEF SinkAssumption
  <2>2. QED
    BY <1>1, <2>1 DEF Init, None
<1>6. /\ {connected, ticking, forceIdr, requested} \subseteq BOOLEAN
      /\ {stopped, keyed} \subseteq [Clients -> BOOLEAN]
      /\ writer \in [Clients -> {"none", "waiting", "writing", "ended"}]
      /\ listed \subseteq Clients /\ accepting \in SUBSET Clients
      /\ encoding \in {"idle", "encoding", "offering"}
  BY DEF Init
<1>7. QED
  BY <1>4, <1>5, <1>6 DEF Init, TypeOK, SinkTypes

LEMMA NextSinkTypes ==
    ASSUME SinkInv, SinkInv', SinkTypes, SinkAssumption, [Next]_vars PROVE SinkTypes'
<1> USE DEF TypeOK, SinkTypes
<1>1. \A c \in Clients : Len(queue'[c]) <= QueueCap
  BY DEF SinkInv, SinkTyped
<1>2. First \in Frame /\ frame \in Frame
  BY DEF First, Frame, None, SinkAssumption
<1>3. CASE Flag
  BY <1>1, <1>3 DEF Flag, written
<1>4. CASE Begin \/ TickTakes \/ TickAsks
  BY <1>1, <1>4 DEF Begin, TickTakes, TickAsks, written
<1>5. CASE Encoded
  <2>1. frame' \in Frame
    <3>1. CASE frame' = frame
      BY <1>2, <3>1
    <3>2. CASE frame' # frame
      <4>1. PICK key \in BOOLEAN : frame' = [n |-> frame.n + 1, key |-> key]
        BY <1>5, <3>2 DEF Encoded
      <4>2. frame'.n = frame.n + 1 /\ frame.n < MaxFrames /\ frame.n \in 0 .. MaxFrames
        BY <1>2, <1>5, <4>1 DEF Encoded, Frame
      <4>3. QED
        BY <4>1, <4>2 DEF Frame, SinkAssumption
    <3>3. QED
      BY <3>1, <3>2
  <2>2. forceIdr' \in BOOLEAN /\ encoding' \in {"offering", "idle"}
    BY <1>5 DEF Encoded, Rearmed
  <2>3. QED
    BY <1>1, <1>5, <2>1, <2>2 DEF Encoded, written
<1>6. CASE Offer
  <2>1. \A c \in Clients : queue'[c] \in Seq(Frame)
    <3>1. ASSUME NEW c \in Clients PROVE queue'[c] \in Seq(Frame)
      <4>1. queue'[c] \in {queue[c], Append(queue[c], frame)}
        BY <1>6 DEF Offer
      <4>2. Append(queue[c], frame) \in Seq(Frame)
        BY <1>2, AppendProperties
      <4>3. QED
        BY <4>1, <4>2
    <3>2. QED
      BY <3>1
  <2>2. stopped' \in [Clients -> BOOLEAN] /\ keyed' \in [Clients -> BOOLEAN]
    BY <1>6 DEF Offer
  <2>3. listed' \subseteq Clients /\ encoding' = "idle"
    BY <1>6 DEF Offer
  <2>4. QED
    BY <1>1, <1>6, <2>1, <2>2, <2>3 DEF Offer
<1>7. ASSUME NEW c \in Clients, Accept(c) PROVE SinkTypes'
  BY <1>1, <1>7 DEF Accept, encoder
<1>8. ASSUME NEW c \in Clients, Drain(c) PROVE SinkTypes'
  <2>1. CASE queue[c] = <<>>
    BY <1>1, <1>8, <2>1 DEF Drain, encoder
  <2>2. CASE queue[c] # <<>>
    <3>1. Head(queue[c]) \in Frame /\ Tail(queue[c]) \in Seq(Frame)
      BY <2>2, HeadTailProperties
    <3>2. /\ queue' = [queue EXCEPT ![c] = Tail(@)]
          /\ hand' = [hand EXCEPT ![c] = IF stopped[c] THEN First ELSE Head(queue[c])]
          /\ writer' = [writer EXCEPT ![c] = IF stopped[c] THEN "ended" ELSE "writing"]
          /\ UNCHANGED <<listed, accepting, encoder, stopped, last, keyed>>
      BY <1>8, <2>2 DEF Drain
    <3>3. \A d \in Clients : queue'[d] \in Seq(Frame)
      BY <3>1, <3>2 DEF SinkInv, SinkTyped
    <3>4. hand' \in [Clients -> Frame]
      BY <1>2, <3>1, <3>2
    <3>5. QED
      BY <1>1, <3>2, <3>3, <3>4 DEF encoder
  <2>3. QED
    BY <2>1, <2>2
<1>9. ASSUME NEW c \in Clients, Write(c) \/ Break(c) PROVE SinkTypes'
  <2>1. hand[c].n \in 0 .. MaxFrames
    BY DEF Frame
  <2>2. last' \in [Clients -> 0 .. MaxFrames] /\ hand' \in [Clients -> Frame]
    BY <1>2, <1>9, <2>1 DEF Write, Break
  <2>3. writer' \in [Clients -> {"none", "waiting", "writing", "ended"}]
    BY <1>9 DEF Write, Break
  <2>4. QED
    BY <1>1, <1>9, <2>2, <2>3 DEF Write, Break, encoder
<1>10. CASE UNCHANGED vars
  BY <1>10 DEF vars
<1>11. QED
  BY <1>3, <1>4, <1>5, <1>6, <1>7, <1>8, <1>9, <1>10 DEF Next

LEMMA InitCameraTypes == ASSUME Camera!Init, Camera!CameraAssumption PROVE Camera!TypeOK
<1>1. jobs \in Seq(Camera!Job) /\ Len(jobs) <= Depth /\ job \in Seq(Camera!Job) /\ Len(job) <= 1
  BY DEF Camera!Init, Camera!CameraAssumption
<1>2. /\ {alive, running, closed, needKeyframe, wanted, fresh, asked} \subseteq BOOLEAN
      /\ {missing, shown} \subseteq SUBSET {"skipped", "evicted"}
      /\ decoder \in Camera!Codecs \cup {"none"} /\ client \in Camera!Codecs
  BY DEF Camera!Init
<1>3. faults \in 0 .. MaxFaults /\ stops \in 0 .. MaxStops
  BY DEF Camera!Init, Camera!CameraAssumption
<1>4. QED
  BY <1>1, <1>2, <1>3 DEF Camera!TypeOK

\* A push keeps the queue to its depth, the mark on the job behind an evicted one included.
LEMMA PushedJobs ==
    ASSUME jobs \in Seq(Camera!Job), Len(jobs) <= Depth, Depth \in Nat \ {0},
           NEW new \in Camera!Job
    PROVE  Camera!Pushed(new) \in Seq(Camera!Job) /\ Len(Camera!Pushed(new)) <= Depth
<1>1. Len(jobs) \in Nat
  BY LenProperties
<1>2. CASE Len(jobs) < Depth
  <2>1. Append(jobs, new) \in Seq(Camera!Job) /\ Len(Append(jobs, new)) = Len(jobs) + 1
    BY AppendProperties
  <2>2. QED
    BY <1>1, <1>2, <2>1 DEF Camera!Pushed
<1>3. CASE ~(Len(jobs) < Depth)
  <2>1. jobs # <<>>
    <3>1. Len(<<>>) = 0
      OBVIOUS
    <3>2. QED
      BY <1>1, <1>3, <3>1
  <2>2. Tail(jobs) \in Seq(Camera!Job) /\ Len(Tail(jobs)) = Len(jobs) - 1
    BY <2>1, HeadTailProperties
  <2> DEFINE rest == Append(Tail(jobs), new)
  <2>3. rest \in Seq(Camera!Job) /\ Len(rest) = Len(jobs)
    BY <1>1, <2>2, AppendProperties
  <2>4. rest # <<>>
    <3>1. Len(<<>>) = 0 /\ Len(rest) # 0
      BY <1>1, <1>3, <2>3
    <3>2. QED
      BY <3>1
  <2>5. /\ Head(rest) \in Camera!Job /\ Tail(rest) \in Seq(Camera!Job)
        /\ Len(Tail(rest)) = Len(rest) - 1
    BY <2>3, <2>4, HeadTailProperties
  <2>6. PICK first : first = [Head(rest) EXCEPT !.gap = TRUE]
    OBVIOUS
  <2> DEFINE marked == <<first>> \o Tail(rest)
  <2>11. first \in Camera!Job
    BY <2>5, <2>6 DEF Camera!Job
  <2>7. <<first>> \in Seq(Camera!Job) /\ Len(<<first>>) = 1
    BY <2>11
  <2>8. marked \in Seq(Camera!Job) /\ Len(marked) = 1 + (Len(jobs) - 1)
    BY <2>3, <2>5, <2>7, ConcatProperties
  <2>9. Camera!Pushed(new) \in {rest, marked}
    BY <1>3, <2>6 DEF Camera!Pushed, Camera!Follows
  <2> HIDE DEF rest, marked
  <2>10. QED
    BY <1>1, <2>3, <2>8, <2>9
<1>4. QED
  BY <1>2, <1>3

LEMMA NextCameraTypes ==
    ASSUME Camera!TypeOK, Camera!CameraAssumption, [Camera!Next]_(Camera!vars)
    PROVE  Camera!TypeOK'
<1> USE DEF Camera!TypeOK
<1>1. <<>> \in Seq(Camera!Job) /\ Len(<<>>) = 0 /\ 0 <= Depth /\ Depth \in Nat \ {0}
  BY DEF Camera!CameraAssumption
<1>2. Camera!Fault => faults' \in 0 .. MaxFaults
  BY DEF Camera!Fault, Camera!CameraAssumption
<1>3. ASSUME NEW j \in Camera!Job
      PROVE  j.codec \in Camera!Codecs /\ j.key \in BOOLEAN /\ j.gap \in BOOLEAN
  BY DEF Camera!Job
<1>4. ASSUME NEW j \in Camera!Job
      PROVE  Camera!Lacks(j) \in SUBSET {"skipped", "evicted"}
  BY DEF Camera!Lacks
<1>5. CASE Camera!Start
  <2>1. /\ {running', closed', alive', needKeyframe', wanted', fresh', asked'} \subseteq BOOLEAN
        /\ {missing', shown'} \subseteq SUBSET {"skipped", "evicted"}
        /\ decoder' = "none" /\ jobs' = <<>> /\ job' = <<>>
        /\ UNCHANGED <<client, faults, stops>>
    BY <1>5 DEF Camera!Start, Camera!Started, Camera!sender
  <2>2. QED
    BY <1>1, <2>1
<1>6. CASE Camera!Stop
  <2>1. stops' \in 0 .. MaxStops
    BY <1>6 DEF Camera!Stop, Camera!CameraAssumption
  <2>2. /\ running' = FALSE /\ closed' = TRUE
        /\ UNCHANGED <<jobs, alive, job, decoder, needKeyframe, missing, shown, wanted, client,
                       fresh, asked, faults>>
    BY <1>6 DEF Camera!Stop, Camera!thread, Camera!sender
  <2>3. QED
    BY <2>1, <2>2
<1>7. ASSUME NEW key \in BOOLEAN, Camera!Push(key) PROVE Camera!TypeOK'
  <2>1. PICK new : new = [codec |-> client, key |-> key, gap |-> FALSE]
    OBVIOUS
  <2>2. new \in Camera!Job
    BY <2>1 DEF Camera!Job
  <2>3. jobs' = Camera!Pushed(new)
    BY <1>7, <2>1 DEF Camera!Push
  <2>4. jobs' \in Seq(Camera!Job) /\ Len(jobs') <= Depth
    BY <1>1, <2>2, <2>3, PushedJobs
  <2>5. faults' \in 0 .. MaxFaults /\ asked' \in BOOLEAN
    BY <1>2, <1>7 DEF Camera!Push
  <2>6. QED
    BY <1>7, <2>4, <2>5 DEF Camera!Push, Camera!thread
<1>8. CASE Camera!SwitchCodec
  BY <1>2, <1>8 DEF Camera!SwitchCodec, Camera!thread
<1>9. CASE Camera!Pop
  <2>1. /\ Head(jobs) \in Camera!Job /\ Tail(jobs) \in Seq(Camera!Job)
        /\ Len(Tail(jobs)) = Len(jobs) - 1 /\ Len(jobs) \in Nat
    BY <1>9, HeadTailProperties, LenProperties DEF Camera!Pop
  <2>2. job' \in Seq(Camera!Job) /\ Len(job') <= 1
    BY <1>9, <2>1 DEF Camera!Pop
  <2>3. jobs' \in Seq(Camera!Job) /\ Len(jobs') <= Depth
    BY <1>1, <1>9, <2>1 DEF Camera!Pop
  <2>4. QED
    BY <1>9, <2>2, <2>3 DEF Camera!Pop, Camera!sender
<1>10. CASE Camera!PopClosed
  BY <1>10 DEF Camera!PopClosed, Camera!sender
<1>11. CASE Camera!PassThrough \/ Camera!NoDecoder
  <2>1. /\ job' = <<>> /\ shown' \in {shown, {}} /\ faults' \in 0 .. MaxFaults
        /\ UNCHANGED <<running, jobs, closed, alive, client, fresh, asked, stops, decoder,
                       needKeyframe, missing, wanted>>
    BY <1>2, <1>11 DEF Camera!PassThrough, Camera!NoDecoder, Camera!Done, Camera!sender
  <2>2. QED
    BY <1>1, <2>1
<1>12. CASE Camera!Skip \/ Camera!Decode \/ Camera!DecodePending \/ Camera!Corrupt
  <2>1. job' = <<>> /\ UNCHANGED <<running, jobs, closed, alive, client, fresh, asked, stops>>
    BY <1>12 DEF Camera!Skip, Camera!Decode, Camera!DecodePending, Camera!Corrupt, Camera!Done,
                 Camera!sender
  <2>2. PICK j \in Camera!Job :
          /\ decoder' = j.codec
          /\ missing' \in {missing, Camera!Lacks(j), Camera!Lacks(j) \cup {"skipped"}}
          /\ shown' \in {shown, Camera!Lacks(j)}
    BY <1>12 DEF Camera!Skip, Camera!Decode, Camera!DecodePending, Camera!Corrupt
  <2>3. faults' \in 0 .. MaxFaults
    BY <1>2, <1>12 DEF Camera!Skip, Camera!Decode, Camera!DecodePending, Camera!Corrupt
  <2>4. needKeyframe' \in BOOLEAN /\ wanted' \in BOOLEAN
    BY <1>12 DEF Camera!Skip, Camera!Decode, Camera!DecodePending, Camera!Corrupt, Camera!Needs,
                 Camera!Parks, Camera!Wants
  <2>5. /\ missing' \in SUBSET {"skipped", "evicted"} /\ shown' \in SUBSET {"skipped", "evicted"}
        /\ decoder' \in Camera!Codecs
    BY <1>3, <1>4, <2>2
  <2>6. QED
    BY <1>1, <2>1, <2>3, <2>4, <2>5
<1>13. CASE Camera!Fatal
  BY <1>1, <1>2, <1>13 DEF Camera!Fatal, Camera!Done, Camera!sender
<1>14. CASE UNCHANGED Camera!vars
  BY <1>14 DEF Camera!vars
<1>15. QED
  BY <1>5, <1>6, <1>7, <1>8, <1>9, <1>10, <1>11, <1>12, <1>13, <1>14 DEF Camera!Next, Camera!Work

LEMMA RecorderAssumed == PacketCap \in Nat /\ MaxRecordings \in Nat /\ MaxOffered \in Nat
  BY ConsumersAssumption DEF Mp4!RecorderAssumption

LEMMA InitMp4Types == ASSUME Mp4!Init PROVE Mp4!TypeOK
<1>1. started = 0 /\ offered = 0 /\ active = 0 /\ tap = 0 /\ feeding = 0 /\ lock = <<>>
      /\ armed = FALSE
  BY DEF Mp4!Init, Mp4!None
<1>2. {active, tap, feeding} \subseteq 0 .. started /\ started \in 0 .. MaxRecordings /\ offered \in 0 .. MaxOffered
  BY <1>1, RecorderAssumed
<1>3. of \in [Callers -> 0 .. started]
  BY <1>1 DEF Mp4!Init, Mp4!None
<1>4. packets \in [Mp4!Recordings -> 0 .. PacketCap]
  BY RecorderAssumed DEF Mp4!Init
<1>5. /\ {capturing, audio} \subseteq [Mp4!Recordings -> BOOLEAN]
      /\ mode \in [Mp4!Recordings -> Mp4!Modes]
      /\ muxer \in [Mp4!Recordings -> {"none", "running", "ended"}]
      /\ pc \in [Callers -> {"idle", "fed", "taken", "disarmed", "joining"}]
  BY DEF Mp4!Init, Mp4!Modes
<1>6. QED
  BY <1>1, <1>2, <1>3, <1>4, <1>5 DEF Mp4!TypeOK

LEMMA OfferedPackets ==
    ASSUME packets \in [Mp4!Recordings -> 0 .. PacketCap], NEW r, Mp4!Offer(r)
    PROVE  packets' \in [Mp4!Recordings -> 0 .. PacketCap]
<1> DEFINE more == IF packets[r] < PacketCap /\ muxer[r] # "ended" THEN packets[r] + 1 ELSE packets[r]
<1>1. packets' = [packets EXCEPT ![r] = more]
  BY DEF Mp4!Offer
<1>2. r \in Mp4!Recordings => more \in 0 .. PacketCap
  BY RecorderAssumed
<1>3. QED
  BY <1>1, <1>2

LEMMA NextMp4Types ==
    ASSUME Mp4!TypeOK, Mp4!Next \/ UNCHANGED Mp4Only PROVE Mp4!TypeOK'
<1> USE DEF Mp4!TypeOK
<1>1. \A x : x \in 0 .. started /\ started' = started => x \in 0 .. started'
  OBVIOUS
<1>2. ASSUME NEW k \in Callers, Mp4!Feed(k) PROVE Mp4!TypeOK'
  <2>1. started + 1 \in Mp4!Recordings /\ started' = started + 1 /\ started + 1 <= MaxRecordings /\ started \in Nat
    BY <1>2, RecorderAssumed DEF Mp4!Feed, Mp4!Recordings
  <2>2. /\ 0 .. started \subseteq 0 .. started' /\ started + 1 \in 0 .. started'
        /\ started' \in 0 .. MaxRecordings
    BY <2>1, RecorderAssumed
  <2>3. PICK as \in Mp4!Modes :
          /\ mode' = [mode EXCEPT ![started + 1] = as]
          /\ capturing' = [capturing EXCEPT ![started + 1] = (as = "x11")]
          /\ IF as = "x11" THEN UNCHANGED <<armed, tap>>
             ELSE armed' = TRUE /\ tap' = started + 1
    BY <1>2 DEF Mp4!Feed
  <2>4. /\ mode' \in [Mp4!Recordings -> Mp4!Modes]
        /\ capturing' \in [Mp4!Recordings -> BOOLEAN]
        /\ armed' \in BOOLEAN /\ tap' \in 0 .. started'
    BY <2>2, <2>3
  <2>5. /\ lock' = <<k>> /\ of' = [of EXCEPT ![k] = started + 1]
        /\ pc' = [pc EXCEPT ![k] = "fed"]
        /\ UNCHANGED <<active, feeding, audio, packets, muxer, offered>>
    BY <1>2 DEF Mp4!Feed, Mp4!At
  <2>6. /\ pc' \in [Callers -> {"idle", "fed", "taken", "disarmed", "joining"}]
        /\ lock' \in {<<>>} \cup {<<c>> : c \in Callers}
    BY <2>5
  <2>7. of' \in [Callers -> 0 .. started']
    BY <2>2, <2>5
  <2>8. {active', tap', feeding'} \subseteq 0 .. started'
    BY <2>2, <2>4, <2>5
  <2>9. QED
    BY <2>2, <2>4, <2>5, <2>6, <2>7, <2>8
<1>3. ASSUME NEW k \in Callers,
             \/ Mp4!Fail(k) \/ Mp4!Activate(k) \/ Mp4!Take(k) \/ Mp4!Disarm(k) \/ Mp4!Quiet(k)
             \/ Mp4!Return(k)
      PROVE  Mp4!TypeOK'
  <2>1. /\ started' = started /\ UNCHANGED <<mode, feeding, packets, offered>>
        /\ 0 \in 0 .. started
    BY <1>3 DEF Mp4!Fail, Mp4!Activate, Mp4!Take, Mp4!Disarm, Mp4!Quiet, Mp4!Return, Mp4!statics,
                Mp4!threads
  <2>2. active' \in {0, active, of[k]} /\ tap' \in {0, tap} /\ armed' \in BOOLEAN
    BY <1>3 DEF Mp4!Fail, Mp4!Activate, Mp4!Take, Mp4!Disarm, Mp4!Quiet, Mp4!Return, Mp4!statics,
                Mp4!threads, Mp4!Disarmed, Mp4!None
  <2>3. lock' \in {<<>>} \cup {<<c>> : c \in Callers}
    BY <1>3 DEF Mp4!Fail, Mp4!Activate, Mp4!Take, Mp4!Disarm, Mp4!Quiet, Mp4!Return, Mp4!statics
  <2>4. pc' \in [Callers -> {"idle", "fed", "taken", "disarmed", "joining"}]
    BY <1>3 DEF Mp4!Fail, Mp4!Activate, Mp4!Take, Mp4!Disarm, Mp4!Quiet, Mp4!Return, Mp4!At
  <2>5. of' \in [Callers -> 0 .. started]
    BY <1>3, <2>1 DEF Mp4!Fail, Mp4!Activate, Mp4!Take, Mp4!Disarm, Mp4!Quiet, Mp4!Return, Mp4!None
  <2>6. /\ capturing' \in [Mp4!Recordings -> BOOLEAN] /\ audio' \in [Mp4!Recordings -> BOOLEAN]
    BY <1>3 DEF Mp4!Fail, Mp4!Activate, Mp4!Take, Mp4!Disarm, Mp4!Quiet, Mp4!Return, Mp4!threads
  <2>7. muxer' \in [Mp4!Recordings -> {"none", "running", "ended"}]
    BY <1>3 DEF Mp4!Fail, Mp4!Activate, Mp4!Take, Mp4!Disarm, Mp4!Quiet, Mp4!Return, Mp4!threads
  <2>8. {active', tap', feeding'} \subseteq 0 .. started'
    BY <2>1, <2>2
  <2>9. QED
    BY <2>1, <2>2, <2>3, <2>4, <2>5, <2>6, <2>7, <2>8
<1>4. CASE Mp4!CloneTap
  BY <1>4, RecorderAssumed DEF Mp4!CloneTap, Mp4!Frame, Mp4!statics
<1>5. CASE Mp4!OfferTap \/ \E r \in Mp4!Recordings : Mp4!OfferOwn(r)
  <2>1. packets' \in [Mp4!Recordings -> 0 .. PacketCap]
    BY <1>5, OfferedPackets DEF Mp4!OfferTap, Mp4!OfferOwn
  <2>2. /\ feeding' \in {0, feeding} /\ offered' \in 0 .. MaxOffered
        /\ UNCHANGED <<active, lock, armed, tap, pc, of, mode, capturing, audio, muxer, started>>
    BY <1>5, RecorderAssumed DEF Mp4!OfferTap, Mp4!OfferOwn, Mp4!Frame, Mp4!statics, Mp4!None
  <2>3. QED
    BY <2>1, <2>2
<1>6. ASSUME NEW r \in Mp4!Recordings, Mp4!Writing(r) \/ Mp4!Break(r) PROVE Mp4!TypeOK'
  <2>1. packets' \in [Mp4!Recordings -> 0 .. PacketCap]
    BY <1>6, RecorderAssumed DEF Mp4!Writing, Mp4!Write, Mp4!Finish, Mp4!Break
  <2>2. /\ muxer' \in [Mp4!Recordings -> {"none", "running", "ended"}]
        /\ UNCHANGED <<active, lock, armed, tap, pc, of, mode, feeding, capturing, audio, started,
                       offered>>
    BY <1>6 DEF Mp4!Writing, Mp4!Write, Mp4!Finish, Mp4!Break, Mp4!statics
  <2>3. QED
    BY <2>1, <2>2
<1>7. CASE UNCHANGED Mp4Only
  BY <1>7 DEF Mp4Only
<1>8. QED
  BY <1>2, <1>3, <1>4, <1>5, <1>6, <1>7 DEF Mp4!Next, Mp4!Going, Mp4!StopStep

LEMMA SameRestartTypes == Capture!TypeOK <=> Restarts!TypeOK
  BY DEF Capture!TypeOK, Restarts!TypeOK, Capture!Captures, Restarts!Captures, Capture!Threads,
         Restarts!Threads, Capture!NoThread, Restarts!NoThread, Capture!Frame, Restarts!Frame

-----------------------------------------------------------------------------
(* All of them.                                                            *)

MCVars == <<kind, vars, CaptureOnly, Mp4Only, CameraOnly, RingOnly, ServerOnly>>

Typed == SinkTypes /\ Camera!TypeOK /\ Mp4!TypeOK

MCInv == SinkInv /\ CameraInv /\ Restarts!Inv /\ RingInv /\ ServerInv /\ Typed

LEMMA InitMCInv == MCInit => MCInv
<1> SUFFICES ASSUME MCInit PROVE MCInv
  OBVIOUS
<1>1. SinkInv
  BY InitSinkInv, ConsumersAssumption DEF MCInit, SinkAssumption
<1>2. CameraInv
  BY InitCameraInv DEF MCInit
<1>3. Restarts!RestartAssumption
  BY ConsumersAssumption DEF Capture!RestartAssumption, Restarts!RestartAssumption
<1>4. Restarts!Inv
  BY <1>3, SameRestarts, Restarts!InitInv DEF MCInit
<1>5. RingInv /\ ServerInv
  BY InitRingInv, InitServerInv DEF MCInit
<1>6. Typed
  BY InitSinkTypes, InitCameraTypes, InitMp4Types, ConsumersAssumption DEF MCInit, Typed
<1>7. QED
  BY <1>1, <1>2, <1>4, <1>5, <1>6 DEF MCInv

\* Of the six, one at most takes a step.
LEMMA StepOfOne ==
    ASSUME [MCNext]_MCVars
    PROVE  /\ [Next]_vars /\ [Camera!Next]_(Camera!vars) /\ [Restarts!Next]_(Restarts!vars)
           /\ Mp4!Next \/ UNCHANGED Mp4Only
           /\ Ring!Next \/ UNCHANGED RingOnly
           /\ Server!Next \/ UNCHANGED ServerOnly
<1>1. UNCHANGED CameraOnly => UNCHANGED Camera!vars
  BY DEF CameraOnly, Camera!vars
<1>2. UNCHANGED CaptureOnly => UNCHANGED Capture!vars
  BY DEF CaptureOnly, Capture!vars, Capture!calloop, Capture!thread, Capture!pool, Capture!delivery,
         Capture!lease, Capture!reaper
<1>3. /\ \/ Next /\ UNCHANGED <<CaptureOnly, CameraOnly>>
         \/ Capture!Next /\ UNCHANGED <<vars, CameraOnly>>
         \/ Camera!Next /\ UNCHANGED <<vars, CaptureOnly>>
         \/ UNCHANGED <<vars, CaptureOnly, CameraOnly>>
      /\ Mp4!Next \/ UNCHANGED Mp4Only
      /\ Ring!Next \/ UNCHANGED RingOnly
      /\ Server!Next \/ UNCHANGED ServerOnly
  BY DEF MCNext, MCVars
<1>4. [Next]_vars /\ [Camera!Next]_(Camera!vars) /\ [Capture!Next]_(Capture!vars)
  BY <1>1, <1>2, <1>3
<1>5. QED
  BY <1>3, <1>4, SameRestarts

LEMMA NextMCInv == MCInv /\ [MCNext]_MCVars => MCInv'
<1> SUFFICES ASSUME MCInv, [MCNext]_MCVars PROVE MCInv'
  OBVIOUS
<1>1. [Next]_vars /\ [Camera!Next]_(Camera!vars) /\ [Restarts!Next]_(Restarts!vars)
  BY StepOfOne
<1>2. SinkInv'
  BY <1>1, NextSinkInv DEF MCInv
<1>3. CameraInv'
  BY <1>1, NextCameraInv DEF MCInv
<1>4. Restarts!Inv'
  <2>1. CASE Restarts!Next
    BY <2>1, Restarts!NextInv DEF MCInv
  <2>2. CASE UNCHANGED Restarts!vars
    BY <2>2, Restarts!StutterInv DEF MCInv
  <2>3. QED
    BY <1>1, <2>1, <2>2
<1>5. RingInv' /\ ServerInv'
  <2>1. /\ Ring!Next \/ UNCHANGED RingOnly
        /\ Server!Next \/ UNCHANGED ServerOnly
    BY StepOfOne
  <2>2. QED
    BY <2>1, NextRingInv, NextServerInv DEF MCInv
<1>6. Typed'
  <2>1. SinkTypes'
    BY <1>1, <1>2, NextSinkTypes, ConsumersAssumption DEF MCInv, Typed
  <2>2. Camera!TypeOK'
    BY <1>1, NextCameraTypes, ConsumersAssumption DEF MCInv, Typed
  <2>3. Mp4!TypeOK'
    BY StepOfOne, NextMp4Types DEF MCInv, Typed
  <2>4. QED
    BY <2>1, <2>2, <2>3 DEF Typed
<1>7. QED
  BY <1>2, <1>3, <1>4, <1>5, <1>6 DEF MCInv

LEMMA MCInvHolds == MCSpec => []MCInv
  BY InitMCInv, NextMCInv, PTL DEF MCSpec, MCVars

-----------------------------------------------------------------------------
(* The theorems.                                                           *)

\* Every field of the six has its type, and the queues and counters their bounds: no
\* client's channel holds more than its cap (write_frame), the camera's queue no more than
\* its depth (push), a recording's no more than its own (offer_frame), no more encodes are
\* counted than frames were published (stats.recycled), and no more readers are counted
\* ready than there are (client_count).
THEOREM ConsumersTypes == MCSpec => []Types
<1>1. MCInv => TypeOK /\ Camera!TypeOK /\ Mp4!TypeOK
  BY DEF MCInv, Typed, SinkTypes
<1>2. MCInv => Capture!TypeOK
  BY SameRestartTypes, Restarts!InvIsTyped DEF MCInv
<1>3. MCInv => Ring!TypeOK /\ Server!TypeOK
  BY RingTypes, ServerTypes DEF MCInv
<1>4. MCInv => Types
  BY <1>1, <1>2, <1>3 DEF Types
<1>5. QED
  BY <1>4, MCInvHolds, PTL

\* A client on the socket's list has a key frame coming, or was offered one, or
\* its writer has ended: none waits for a key frame nobody asked for
\* (recording_sink.rs: client_connected, force_idr).
THEOREM KeyFrameIsOwed == MCSpec => []KeyIsOwed
<1>1. MCInv => KeyIsOwed
  BY DEF MCInv, SinkInv
<1>2. QED
  BY <1>1, MCInvHolds, PTL

\* What a client is sent is an unbroken run of the stream, up to where it is
\* dropped (write_frame).
THEOREM SentWithoutGap == MCSpec => NoGap
<1> DEFINE Follows == \A c \in Clients :
                        last[c] # None => last'[c] \in {last[c], last[c] + 1}
<1>1. MCInv /\ [MCNext]_MCVars => [Follows]_vars
  <2>1. SUFFICES ASSUME MCInv, Next PROVE Follows
    BY StepOfOne
  <2>2. CASE UNCHANGED last
    BY <2>2
  <2>3. ASSUME NEW c \in Clients, Write(c) PROVE Follows
    BY <2>1, <2>3 DEF MCInv, SinkInv, SinkTyped, InRun, OnTheWay, Write
  <2>4. QED
    BY <2>1, <2>2, <2>3
       DEF Next, Flag, TickTakes, TickAsks, Begin, Encoded, Offer, Accept, Drain, Write, Break,
           written
<1>2. QED
  BY <1>1, MCInvHolds, PTL DEF MCSpec, MCVars, NoGap

\* Once the Barrier of the shutdown has answered, no encode or delivery thread of any
\* capture is left: each one still running is joined, through the chain of those that
\* wait for it, by one the Barrier joins (teardown_capture, ThreadCommand::Barrier).
THEOREM BarrierFences == MCSpec => []BarrierQuiet
<1>1. MCInv => BarrierQuiet
  BY Restarts!InvIsQuiet
     DEF MCInv, BarrierQuiet, Capture!BarrierQuiet, Restarts!BarrierQuiet, Capture!Captures,
         Restarts!Captures, Capture!Threads, Restarts!Threads
<1>2. QED
  BY <1>1, MCInvHolds, PTL

\* A frame that reaches Python was read while the host's buffer was lent, unless its
\* capture was demoted to readback (retain_host_frame, release_host_inflight,
\* deliver_discard).
THEOREM FramesStayLent == MCSpec => []LentUntilDemoted
<1>1. MCInv => LentUntilDemoted
  BY Restarts!InvIsLent
     DEF MCInv, LentUntilDemoted, Capture!LentUntilDemoted, Restarts!LentUntilDemoted,
         Capture!Captures, Restarts!Captures
<1>2. QED
  BY <1>1, MCInvHolds, PTL

\* Python is called with the frames of a capture, and of those that took its place, in
\* the order they were published, each once (start_capture_on_display: predecessor).
THEOREM CallsInOrder == MCSpec => PythonInOrder
<1> DEFINE Newer == \A c \in Capture!Captures :
              python[c] # <<>> => python'[c] = python[c] \/ python'[c][1].n > python[c][1].n
<1>1. MCInv /\ [MCNext]_MCVars => [Newer]_(Capture!vars)
  <2>1. SUFFICES ASSUME MCInv, [MCNext]_MCVars PROVE Newer
    OBVIOUS
  <2>2. [Restarts!Next]_(Restarts!vars)
    BY <2>1, StepOfOne
  <2>3. QED
    BY <2>1, <2>2, Restarts!InvKeepsOrder DEF MCInv, Capture!Captures, Restarts!Captures
<1>2. QED
  BY <1>1, MCInvHolds, PTL DEF MCSpec, MCVars, PythonInOrder, Capture!PythonInOrder

\* What the camera's worker itself left out is never predicted through on the way to
\* a reader (webcam/mod.rs: worker).
THEOREM NothingSkippedIsShown == MCSpec => []SkippedIsNotShown
<1>1. MCInv => SkippedIsNotShown
  BY DEF MCInv, CameraInv, SkippedIsNotShown
<1>2. QED
  BY <1>1, MCInvHolds, PTL

\* What a reader of the camera's ring accepts is one picture, whole and with its own
\* metadata, no older than the one it was told of (ring.rs: publish, and the sequence
\* lock of the slots); and the server closes no reader for the hang-up of another, and
\* counts its ready readers right, though its lock is let go between poll and what is
\* done with the answer (server.rs: serve, ring_doorbell).
THEOREM ReadersServed == MCSpec => []ReadersAreServed
<1>1. MCInv => ReadersAreServed
  BY ServerTypes DEF MCInv, RingInv, ReadersAreServed
<1>2. QED
  BY <1>1, MCInvHolds, PTL

=============================================================================
