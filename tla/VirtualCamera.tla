----------------------------- MODULE VirtualCamera -----------------------------
(***************************************************************************)
(* The virtual camera (webcam/mod.rs): Python pushes the client's encoded  *)
(* frames into a bounded queue that drops its oldest, a worker decodes     *)
(* them and publishes the pictures, and a flag asks the client for a key   *)
(* frame through what push returns.                                        *)
(*                                                                         *)
(* An inter-coded frame depends on the client's frame before it.  What a   *)
(* picture was predicted without is history: `gap` of a job says that the  *)
(* frames between it and the job ahead were evicted, `missing` what the    *)
(* decoder's references lack.  The client and the decoding libraries are   *)
(* the environment.                                                        *)
(***************************************************************************)
EXTENDS Naturals, Sequences

CONSTANTS
    Capacity,   \* queue_depth
    MaxFaults,  \* bound: undecodable frames, frames pushed over a full queue,
                \*   changes of codec
    MaxStops    \* bound: stops of the camera

Video == {"H264", "VP8"}        \* two codecs that are is_inter_coded
Codecs == Video \cup {"JPEG"}   \* and one that is not
Job == [codec : Codecs, key : BOOLEAN, gap : BOOLEAN]

CameraAssumption == Capacity \in Nat \ {0} /\ MaxFaults \in Nat /\ MaxStops \in Nat

VARIABLES
    running,       \* VirtualCamera::running holds a camera
    queue,         \* QueueState::jobs
    closed,        \* QueueState::closed
    alive,         \* its thread runs
    hand,          \* the job the thread works at, <<>> while it waits in pop
    decoder,       \* the decoder's codec, "none" without one
    needKeyframe,  \* need_keyframe
    wanted,        \* keyframe_wanted
    client,        \* the codec the client sends; its encoder starts with a key
    fresh,         \*   frame
    asked,         \* push has told it to send one
    missing,       \* history: why the references lack frames: "skipped" by the
                   \*   worker, "evicted" from the queue
    shown,         \* history: `missing` of the last picture published
    faults, stops  \* the bounded counters

vars == <<running, queue, closed, alive, hand, decoder, needKeyframe, wanted, client,
          fresh, asked, missing, shown, faults, stops>>
thread == <<alive, hand, decoder, needKeyframe, missing, shown>>
sender == <<client, fresh, asked>>

TypeOK ==
    /\ queue \in Seq(Job) /\ Len(queue) <= Capacity
    /\ hand \in Seq(Job) /\ Len(hand) <= 1
    /\ decoder \in Codecs \cup {"none"} /\ client \in Codecs
    /\ {alive, running, closed, needKeyframe, wanted, fresh, asked} \subseteq BOOLEAN
    /\ {missing, shown} \subseteq SUBSET {"skipped", "evicted"}
    /\ faults \in 0 .. MaxFaults /\ stops \in 0 .. MaxStops

\* A camera that starts: worker's own state and the flag of start.
Started ==
    /\ running' = TRUE /\ queue' = <<>> /\ closed' = FALSE
    /\ alive' = TRUE /\ hand' = <<>>
    /\ decoder' = "none" /\ needKeyframe' = TRUE /\ wanted' = TRUE
    /\ missing' = {"skipped"} /\ shown' = {}

Init ==
    /\ running = FALSE /\ queue = <<>> /\ closed = TRUE
    /\ alive = FALSE /\ hand = <<>>
    /\ decoder = "none" /\ needKeyframe = TRUE /\ wanted = TRUE
    /\ client \in Codecs /\ fresh = TRUE /\ asked = FALSE
    /\ missing = {"skipped"} /\ shown = {}
    /\ faults = 0 /\ stops = 0

-----------------------------------------------------------------------------
(* The caller's threads.                                                   *)

Fault == faults < MaxFaults /\ faults' = faults + 1

\* start, over a camera that was stopped (start begins with stop).  Another
\* thread's stop may still be joining the old worker: that one drains a queue,
\* a ring and a server of its own, and is followed no further.
Start ==
    /\ ~running
    /\ Started
    /\ UNCHANGED <<sender, faults, stops>>

\* stop, up to the join: no push finds the camera any more, and the worker
\* drains the closed queue.
Stop ==
    /\ running /\ stops < MaxStops /\ stops' = stops + 1
    /\ running' = FALSE /\ closed' = TRUE
    /\ UNCHANGED <<queue, thread, wanted, sender, faults>>

\* A job evicted takes what it carried from the one behind it.
Follows(jobs, evicted) ==
    IF evicted.codec \in Video /\ jobs # <<>> /\ ~Head(jobs).key
    THEN <<[Head(jobs) EXCEPT !.gap = TRUE]>> \o Tail(jobs)
    ELSE jobs

Pushed(job) ==
    IF Len(queue) < Capacity THEN Append(queue, job)
    ELSE Follows(Append(Tail(queue), job), Head(queue))

\* Mutant of AsksForKey: an evicted frame asks for nothing.
AsksForKeyNever == FALSE

AsksForKey == Len(queue) = Capacity /\ Head(queue).codec \in Video

\* push of the client's next frame; its answer clears the flag.
Push(key) ==
    /\ running
    /\ IF Len(queue) = Capacity THEN Fault ELSE UNCHANGED faults
    /\ IF client = "JPEG" THEN ~key ELSE (fresh => key)
    /\ queue' = Pushed([codec |-> client, key |-> key, gap |-> FALSE])
    /\ wanted' = FALSE
    /\ asked' = ((asked /\ ~key) \/ wanted \/ AsksForKey)
    /\ fresh' = FALSE
    /\ UNCHANGED <<running, closed, thread, client, stops>>

\* The client's encoder starts over with another codec.
SwitchCodec ==
    /\ Fault
    /\ client' \in Codecs \ {client} /\ fresh' = TRUE
    /\ UNCHANGED <<running, queue, closed, thread, wanted, asked, stops>>

-----------------------------------------------------------------------------
(* The worker.                                                             *)

Pop ==
    /\ alive /\ hand = <<>> /\ queue # <<>>
    /\ hand' = <<Head(queue)>> /\ queue' = Tail(queue)
    /\ UNCHANGED <<running, closed, alive, decoder, needKeyframe, missing, shown, wanted, sender,
                   faults, stops>>

\* pop of an empty closed queue: the thread ends and stop's join returns.
PopClosed ==
    /\ alive /\ hand = <<>> /\ queue = <<>> /\ closed
    /\ alive' = FALSE
    /\ UNCHANGED <<running, queue, closed, hand, decoder, needKeyframe, missing, shown, wanted,
                   sender, faults, stops>>

\* The job, and the thread back at the queue with it done.
Holds(job) == hand = <<job>>
Done ==
    /\ hand' = <<>>
    /\ UNCHANGED <<running, queue, closed, alive, sender, stops>>

\* An MJPEG device takes a JPEG frame as it came, past the decoder.
PassThrough ==
    /\ \E job \in Job : Holds(job) /\ job.codec = "JPEG"
    /\ shown' = {}
    /\ Done
    /\ UNCHANGED <<decoder, needKeyframe, missing, wanted, faults>>

\* No decoder opens for the frame's codec; the one there stays.
NoDecoder ==
    /\ \E job \in Job : Holds(job) /\ job.codec # decoder
    /\ Fault
    /\ Done
    /\ UNCHANGED <<decoder, needKeyframe, missing, shown, wanted>>

\* Whether a key frame is needed for the job, a new decoder's need included,
\* and what the job's decoding would lack.
Needs(job) == needKeyframe \/ job.codec # decoder
Lacks(job) ==
    IF job.key \/ job.codec \notin Video THEN {}
    ELSE (IF job.codec # decoder THEN {"skipped"} ELSE missing)
            \cup IF job.gap THEN {"evicted"} ELSE {}

Parked(job) == Needs(job) /\ job.codec \in Video /\ ~job.key

\* Mutant of Wants: a parked worker asks for no key frame.
WantsNever == wanted

\* keyframe_wanted stored by the worker.
Wants == TRUE

\* An inter-coded frame past a parked worker.
Skip ==
    /\ \E job \in Job :
        /\ Holds(job) /\ Parked(job)
        /\ decoder' = job.codec /\ needKeyframe' = TRUE
        /\ missing' = Lacks(job) \cup {"skipped"}
    /\ wanted' = Wants
    /\ Done
    /\ UNCHANGED <<shown, faults>>

\* The decoder yields a picture, and the ring takes it (publish, fan_out) or
\* has nothing to take.
Decode ==
    /\ \E job \in Job :
        /\ Holds(job) /\ ~Parked(job)
        /\ decoder' = job.codec /\ missing' = Lacks(job)
        /\ shown' \in {shown, Lacks(job)}
    /\ needKeyframe' = FALSE
    /\ Done
    /\ UNCHANGED <<wanted, faults>>

\* It takes the frame and yields none yet.
DecodePending ==
    /\ \E job \in Job :
        /\ Holds(job) /\ ~Parked(job)
        /\ decoder' = job.codec /\ needKeyframe' = Needs(job) /\ missing' = Lacks(job)
    /\ Fault
    /\ Done
    /\ UNCHANGED <<shown, wanted>>

\* Mutant of Parks: a corrupt frame leaves the predictions going.
ParksNever(job) == Needs(job)

\* DecodeError::Corrupt: an inter-coded stream parks.
Parks(job) == Needs(job) \/ job.codec \in Video

\* A decoder may find the frame corrupt for what its references lack; one that
\* lacks nothing is a fault.
Corrupt ==
    /\ \E job \in Job :
        /\ Holds(job) /\ ~Parked(job)
        /\ IF Lacks(job) = {} THEN Fault ELSE UNCHANGED faults
        /\ decoder' = job.codec /\ needKeyframe' = Parks(job)
        /\ missing' = IF job.codec \in Video THEN Lacks(job) \cup {"skipped"} ELSE missing
        /\ wanted' = (wanted \/ job.codec \in Video)
    /\ Done
    /\ UNCHANGED shown

\* DecodeError::Fatal: the decoder goes with its references.
Fatal ==
    /\ \E job \in Job : Holds(job) /\ ~Parked(job)
    /\ Fault
    /\ decoder' = "none" /\ needKeyframe' = TRUE /\ missing' = {"skipped"}
    /\ wanted' = TRUE
    /\ Done
    /\ UNCHANGED shown

-----------------------------------------------------------------------------
Work == Pop \/ PopClosed \/ PassThrough \/ NoDecoder \/ Skip \/ Decode
            \/ DecodePending \/ Corrupt \/ Fatal

Next == Start \/ Stop \/ (\E key \in BOOLEAN : Push(key)) \/ SwitchCodec \/ Work

(***************************************************************************)
(* The worker runs whenever it has a frame; the client goes on sending,    *)
(* and one asked for a key frame again and again sends it.                 *)
(***************************************************************************)
Spec ==
    /\ Init /\ [][Next]_vars
    /\ WF_vars(Work)
    /\ WF_vars(\E key \in BOOLEAN : Push(key))
    /\ SF_vars(asked /\ Push(TRUE))

-----------------------------------------------------------------------------
(* Properties.                                                             *)

\* What the worker itself left out, skipped, undecodable or with a decoder it
\* dropped, is never predicted through on the way to a consumer.
SkippedIsNotShown == "skipped" \notin shown

\* "A dropped or undecodable inter-coded frame parks the stream until the next
\* keyframe ..., so a consumer never sees the smear of predictions built on a
\* missing reference" (worker).  A frame dropped from the full queue asks for
\* a key frame and parks nothing.
NoSmear == shown = {}

\* A camera whose references lack something comes back to a whole stream, parked
\* or not: a key frame is asked for as often as it takes, through key frames
\* evicted, undecodable or of another codec.
Whole == ~needKeyframe /\ missing = {}

CameraResumes ==
    (running /\ ~Whole /\ client \in Video) ~> (~running \/ Whole \/ client \notin Video)

=============================================================================
