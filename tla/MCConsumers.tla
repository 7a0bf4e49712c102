------------------------------ MODULE MCConsumers ------------------------------
(***************************************************************************)
(* Where a capture's frames go, and the threads a stop or a restart leaves *)
(* behind, one of six at a time: the clients of the recording socket       *)
(* (RecordingSink), Python through the delivery threads (CaptureRestart),  *)
(* an MP4 (Recorder), and the other way round the client's camera          *)
(* (VirtualCamera), the ring it is read from (FrameRing, of a raw device   *)
(* on x86_64) and the socket that tells its readers (CameraServer).  The   *)
(* variables of the other five keep their values.                          *)
(***************************************************************************)
EXTENDS RecordingSink

CONSTANTS
    Callers, PacketCap,
    MaxRecordings, MaxOffered,            \* bounds of Recorder, whose queue has PacketCap
    MaxCaptures, MaxPublished, MaxHosts,  \* bounds of CaptureRestart
    Depth, MaxFaults, MaxStops,           \* of VirtualCamera, whose queue_depth is Depth
    RingSlots, MaxPictures,               \* of FrameRing, and its n_slots
    Numbers                               \* the descriptors of CameraServer

VARIABLES
    kind,  \* which of the six runs; never changes
    \* CaptureRestart
    capture, starts, stopping, prior, demoted, zero, since, pred, at, stop, slot,
    holding, taken, sink, dpred, dat, discard, channel, calling, encodeReaper,
    deliverReaper, bound, published, recycled, frames, hosts, retained, retainedUse,
    inflight, back, python, fenced,
    \* Recorder
    active, lock, armed, tap, pc, of, mode, feeding, capturing, audio, packets,
    muxer, started, offered,
    \* VirtualCamera
    running, jobs, closed, alive, job, decoder, needKeyframe, wanted, client,
    fresh, asked, missing, shown, faults, stops,
    \* FrameRing
    nextSlot, slotSeq, frameSeq, calls, stores, mem, aim, found, copy, accepted,
    \* CameraServer
    arriving, gone, hello, attached, readyCount, closing, serving, pollfds, locked, idx,
    unopened, retired, renamed

Capture == INSTANCE CaptureRestart WITH MaxFrames <- MaxPublished, hand <- holding

Mp4 == INSTANCE Recorder WITH
    QueueCap <- PacketCap, MaxFrames <- MaxOffered, queue <- packets, writer <- muxer

Camera == INSTANCE VirtualCamera WITH Capacity <- Depth, queue <- jobs, hand <- job

Ring == INSTANCE FrameRing WITH
    Slots <- RingSlots, Weak <- FALSE, Compressed <- FALSE, MaxFrames <- MaxPictures,
    slot <- found, taken <- accepted

Server == INSTANCE CameraServer WITH
    Conns <- Clients, Fds <- Numbers, queued <- arriving, hung <- gone, said <- hello,
    clients <- attached, stop <- closing, pc <- serving, fresh <- unopened

ASSUME ConsumersAssumption ==
    /\ SinkAssumption /\ Capture!RestartAssumption /\ Mp4!RecorderAssumption
    /\ Camera!CameraAssumption /\ Ring!RingAssumption /\ Server!ServerAssumption

-----------------------------------------------------------------------------
MCInit ==
    /\ kind \in {"sink", "capture", "mp4", "camera", "ring", "server"}
    /\ Init /\ Capture!Init /\ Mp4!Init /\ Camera!Init /\ Ring!Init /\ Server!Init
    /\ kind # "camera" => client = "JPEG"

CaptureOnly ==
    <<capture, starts, stopping, prior, demoted, zero, since, pred, at, stop, slot,
      holding, taken, sink, dpred, dat, discard, channel, calling, encodeReaper,
      deliverReaper, bound, published, recycled, frames, hosts, retained, retainedUse,
      inflight, back, python, fenced>>
Mp4Only ==
    <<active, lock, armed, tap, pc, of, mode, feeding, capturing, audio, packets,
      muxer, started, offered>>
CameraOnly ==
    <<running, jobs, closed, alive, job, decoder, needKeyframe, wanted, client,
      fresh, asked, missing, shown, faults, stops>>
RingOnly ==
    <<nextSlot, slotSeq, frameSeq, calls, stores, mem, aim, found, copy, accepted>>
ServerOnly ==
    <<arriving, gone, hello, attached, readyCount, closing, serving, pollfds, locked, idx,
      unopened, retired, renamed>>

MCNext ==
    /\ UNCHANGED kind
    /\ \/ kind = "sink" /\ Next
          /\ UNCHANGED <<CaptureOnly, Mp4Only, CameraOnly, RingOnly, ServerOnly>>
       \/ kind = "capture" /\ Capture!Next
          /\ UNCHANGED <<vars, Mp4Only, CameraOnly, RingOnly, ServerOnly>>
       \/ kind = "mp4" /\ Mp4!Next
          /\ UNCHANGED <<vars, CaptureOnly, CameraOnly, RingOnly, ServerOnly>>
       \/ kind = "camera" /\ Camera!Next
          /\ UNCHANGED <<vars, CaptureOnly, Mp4Only, RingOnly, ServerOnly>>
       \/ kind = "ring" /\ Ring!Next
          /\ UNCHANGED <<vars, CaptureOnly, Mp4Only, CameraOnly, ServerOnly>>
       \/ kind = "server" /\ Server!Next
          /\ UNCHANGED <<vars, CaptureOnly, Mp4Only, CameraOnly, RingOnly>>

\* The fairness of each module's own specification.  Captures and recordings
\* are bounded, so that none of their threads can starve another: the fairness
\* of each of them follows from that of all together.
MCSpec ==
    /\ MCInit /\ [][MCNext]_<<kind, vars, CaptureOnly, Mp4Only, CameraOnly, RingOnly, ServerOnly>>
    /\ WF_CaptureOnly(kind = "capture"
                         /\ (Capture!ThreadStep \/ Capture!FinishRestart \/ Capture!Answer))
    /\ WF_Mp4Only(kind = "mp4" /\ Mp4!Going)
    /\ WF_CameraOnly(kind = "camera" /\ Camera!Work)
    /\ WF_CameraOnly(kind = "camera" /\ \E key \in BOOLEAN : Camera!Push(key))
    /\ SF_CameraOnly(kind = "camera" /\ asked /\ Camera!Push(TRUE))
    /\ WF_ServerOnly(kind = "server" /\ Server!ThreadStep)

-----------------------------------------------------------------------------
\* The TypeOK of each.
Types ==
    /\ TypeOK /\ Capture!TypeOK /\ Mp4!TypeOK /\ Camera!TypeOK /\ Ring!TypeOK
    /\ Server!TypeOK

\* CaptureRestart: frames reach Python in the order they were captured.
PythonInOrder == Capture!PythonInOrder

\* CaptureRestart: the shutdown's fence leaves no thread behind.
BarrierQuiet == Capture!BarrierQuiet

\* CaptureRestart: a frame delivered was read before its buffer went back.
LentUntilDemoted == Capture!LentUntilDemoted

\* CaptureRestart, Recorder and CameraServer: a capture that was torn down comes to its
\* end, a stop of a recording returns, and a reader of the camera that hung up is
\* retired, whatever other callers do in the meantime.  The two that do not run hold
\* theirs from the start, so that the three can be asked of the same state.
AllEnds == []<>(Capture!TornDownEnded /\ Mp4!StopsReturned /\ Server!HungUpRetired)

\* VirtualCamera: what the worker left out is not predicted through.
SkippedIsNotShown == Camera!SkippedIsNotShown

\* VirtualCamera: a camera that lacks frames comes back to a whole stream.
CameraResumes == Camera!CameraResumes

\* FrameRing and CameraServer: what a reader of the camera accepts is one whole frame,
\* no older than advertised, and no reader is closed for another's hang-up.
ReadersAreServed == Ring!FrameIsWhole /\ Server!ServesLive

=============================================================================
