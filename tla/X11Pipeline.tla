------------------------------ MODULE X11Pipeline ------------------------------
(***************************************************************************)
(* The encoder of an X11 capture and its recovery (pipeline.rs,            *)
(* X11Pipeline, driven by x11/mod.rs encode_loop).  A full-frame session   *)
(* that fails Threshold encodes in a row is rebuilt once and then demoted  *)
(* to software; a requested key frame stays armed until a frame is         *)
(* delivered; surfaces of another size reshape the session or replace the  *)
(* whole pipeline.  `broken` is the environment: the kinds of session      *)
(* whose encodes fail now, which still open.                               *)
(***************************************************************************)
EXTENDS Naturals, EncoderLadder

CONSTANTS
    Requested,     \* the codec of the capture's settings
    Threshold,     \* HW_ERROR_RECOVERY_THRESHOLD
    Resends,       \* frames a still screen is sent of its own: its cleanup and burst
    Breakable,     \* the kinds of session the environment may break
    MaxTurns,      \* bound: times the environment breaks or mends a kind
    MaxRequests,   \* bound: key frames requested
    MaxReshapes    \* bound: surfaces recreated

\* What the constants are; the module of the run asserts it.
PipelineAssumption ==
    /\ Requested \in Codecs
    /\ Threshold \in Nat \ {0}
    /\ Breakable \subseteq {"engine", "library"}
    /\ {Resends, MaxTurns, MaxRequests, MaxReshapes} \subseteq Nat

VARIABLES
    late,         \* the engine is Tegra's, whose unit comes with the next frame's; never changes
    codec,        \* settings.codec: what every emitted stripe is labelled with
    useCpu,       \* settings.use_cpu
    session,      \* hw, and the striped path where it is None
    seen,         \* the content hash holds the screen's last picture
    resends,      \* what the cleanup of the region state (hw_state) has left to send
    fresh,        \* the session has coded no frame yet: its first is a key frame
    inside,       \* the unit a late engine still holds
    pending,      \* pending_force_idr
    streak,       \* hw_error_streak
    rebuilt,      \* hw_rebuilt
    broken,       \* environment: the kinds of session failing their encodes
    turns, requests, reshapes, \* the bounded counters
    owed,         \* history: a key frame was asked for and none delivered since
    rebuilds,     \* history: rebuilds with the engine allowed since the last success
    demotions     \* history: demotions in this pipeline's life, 2 standing for more

settings == <<late, codec, useCpu, session>>
coding == <<seen, resends, fresh, inside>>
recovery == <<streak, rebuilt, rebuilds, demotions>>
bounds == <<turns, requests, reshapes>>
vars == <<settings, coding, pending, recovery, broken, bounds, owed>>

TypeOK ==
    /\ codec \in Codecs
    /\ session \in Sessions
    /\ resends \in 0 .. Resends
    /\ inside \in {"none", "plain", "key"}
    /\ {late, useCpu, seen, fresh, pending, rebuilt, owed} \subseteq BOOLEAN
    /\ streak \in 0 .. Threshold - 1
    /\ broken \subseteq Breakable
    /\ turns \in 0 .. MaxTurns /\ requests \in 0 .. MaxRequests
    /\ reshapes \in 0 .. MaxReshapes
    /\ rebuilds \in 0 .. 2 /\ demotions \in 0 .. 2

Saturated(n) == IF n = 2 THEN 2 ELSE n + 1

--------------------------------------------------------------------------------

(***************************************************************************)
(* X11Pipeline::new: the ladder from the capture's own settings, with      *)
(* nothing of the pipeline it replaces.                                    *)
(***************************************************************************)
Opened(s) ==
    /\ s \in HostRungs(Requested, FALSE)
    /\ codec' = s.codec /\ useCpu' = FALSE /\ session' = s /\ UNCHANGED late
    /\ seen' = FALSE /\ resends' = Resends /\ fresh' = TRUE /\ inside' = "none"
    /\ pending' = FALSE
    /\ streak' = 0 /\ rebuilt' = FALSE /\ rebuilds' = 0 /\ demotions' = 0

Init ==
    /\ late \in BOOLEAN
    /\ session \in HostRungs(Requested, FALSE)
    /\ codec = session.codec /\ useCpu = FALSE
    /\ seen = FALSE /\ resends = Resends /\ fresh = TRUE /\ inside = "none"
    /\ pending = FALSE
    /\ streak = 0 /\ rebuilt = FALSE /\ rebuilds = 0 /\ demotions = 0
    /\ broken = {} /\ turns = 0 /\ requests = 0 /\ reshapes = 0
    /\ owed = FALSE

(***************************************************************************)
(* Mutants of RecoverTo: the rebuild is never remembered, so the engine is *)
(* opened again each time; the new session arms no key frame.              *)
(***************************************************************************)
RecoverToForgetful(s) ==
    /\ s \in HostRungs(codec, useCpu)
    /\ codec' = s.codec /\ session' = s
    /\ resends' = Resends /\ fresh' = TRUE /\ inside' = "none"
    /\ streak' = 0 /\ rebuilds' = Saturated(rebuilds)
    /\ pending' = TRUE /\ owed' = TRUE
    /\ UNCHANGED <<late, useCpu, rebuilt, demotions>>

RecoverToUnarmed(s) ==
    /\ s \in HostRungs(codec, useCpu \/ rebuilt)
    /\ useCpu' = (useCpu \/ rebuilt) /\ UNCHANGED late
    /\ codec' = s.codec /\ session' = s
    /\ resends' = Resends /\ fresh' = TRUE /\ inside' = "none"
    /\ streak' = 0 /\ rebuilt' = TRUE
    /\ rebuilds' = IF rebuilt THEN rebuilds ELSE Saturated(rebuilds)
    /\ demotions' = IF rebuilt THEN Saturated(demotions) ELSE demotions
    /\ pending' = FALSE /\ owed' = TRUE

(***************************************************************************)
(* recover_hw: one rebuild with the startup selection, then software for   *)
(* the pipeline's life.  Both arm a key frame.                             *)
(***************************************************************************)
RecoverTo(s) ==
    /\ s \in HostRungs(codec, useCpu \/ rebuilt)
    /\ useCpu' = (useCpu \/ rebuilt) /\ UNCHANGED late
    /\ codec' = s.codec /\ session' = s
    /\ resends' = Resends /\ fresh' = TRUE /\ inside' = "none"
    /\ streak' = 0 /\ rebuilt' = TRUE
    /\ rebuilds' = IF rebuilt THEN rebuilds ELSE Saturated(rebuilds)
    /\ demotions' = IF rebuilt THEN Saturated(demotions) ELSE demotions
    /\ pending' = TRUE /\ owed' = TRUE

Recover == \E s \in Sessions : RecoverTo(s)

(***************************************************************************)
(* request_idr, and take_report of a loss the encoder cannot leave out.    *)
(***************************************************************************)
Request ==
    /\ requests < MaxRequests
    /\ requests' = requests + 1
    /\ pending' = TRUE /\ owed' = TRUE
    /\ UNCHANGED <<settings, coding, recovery, broken, turns, reshapes>>

(***************************************************************************)
(* A frame is encoded when the screen changed since the last one hashed, a *)
(* key frame is armed, or a still screen's cleanup is due, which comes a   *)
(* bounded number of times after a change (decide_hw_fullframe and         *)
(* encode_cpu); a late engine is also pushed for the unit it holds         *)
(* (holds_frame, push_held).  Turbo, which sends every frame, is a screen  *)
(* that always changes.                                                    *)
(***************************************************************************)
Pictures == {"changed", "cleanup", "still"}

Changes(picture) == picture = "changed" \/ ~seen

Sends(picture) == Changes(picture) \/ pending \/ picture = "cleanup"

Decided(picture) ==
    /\ picture = "cleanup" => resends > 0
    /\ Sends(picture) \/ inside # "none"
    /\ seen' = TRUE

\* A mutant of LeftToSend: a cleanup sent is not counted off but on.
LeftToSendAlways(picture) ==
    IF Changes(picture) \/ pending THEN Resends
    ELSE IF picture = "cleanup" THEN resends + 1 ELSE resends

LeftToSend(picture) ==
    IF Changes(picture) \/ pending THEN Resends
    ELSE IF picture = "cleanup" THEN resends - 1 ELSE resends

IsLate == late /\ session.kind = "engine"

Coded(picture) ==
    IF ~Sends(picture) THEN "none" ELSE IF pending \/ fresh THEN "key" ELSE "plain"

(***************************************************************************)
(* What the call returns: the frame's own unit, or from a late engine the  *)
(* one before it.                                                          *)
(***************************************************************************)
Out(picture) == IF IsLate THEN inside ELSE Coded(picture)

(***************************************************************************)
(* The end of process: an unserved request stays armed.  Any unit disarms  *)
(* it, a late engine's earlier one too, whose key frame is then inside.    *)
(***************************************************************************)
Disarm(picture) == pending' = (pending /\ Out(picture) = "none")

(***************************************************************************)
(* process whose encode does not fail: a full-frame session's recovery     *)
(* state starts over, whether or not it returned a unit.                   *)
(***************************************************************************)
Encode(picture) ==
    /\ Decided(picture) /\ session.kind \notin broken
    /\ resends' = LeftToSend(picture)
    /\ fresh' = (fresh /\ ~Sends(picture))
    /\ inside' = IF IsLate THEN Coded(picture) ELSE "none"
    /\ Disarm(picture)
    /\ owed' = (owed /\ Out(picture) # "key")
    /\ IF session.kind = "striped" THEN UNCHANGED recovery
       ELSE /\ streak' = 0 /\ rebuilt' = FALSE /\ rebuilds' = 0
            /\ UNCHANGED demotions
    /\ UNCHANGED <<settings, broken, bounds>>

(***************************************************************************)
(* process whose encode fails: the request stays armed, and a full streak  *)
(* runs the recovery.  The hash has taken the picture in all the same.     *)
(***************************************************************************)
Fail(picture) ==
    /\ Decided(picture) /\ session.kind \in broken
    /\ IF streak + 1 < Threshold
       THEN /\ streak' = streak + 1 /\ resends' = LeftToSend(picture)
            /\ UNCHANGED <<settings, fresh, inside, pending, rebuilt, rebuilds, demotions, owed>>
       ELSE Recover
    /\ UNCHANGED <<broken, bounds>>

(***************************************************************************)
(* update_rate whose reconfigure fails: the recovery at once.              *)
(***************************************************************************)
RateFails ==
    /\ session.kind \in broken
    /\ Recover
    /\ UNCHANGED <<seen, broken, bounds>>

\* A mutant of AdoptSameSize: the demotion is forgotten with the rest.
AdoptUndemoted ==
    /\ codec' = Requested
    /\ useCpu' = FALSE
    /\ UNCHANGED <<late, session>>

(***************************************************************************)
(* reshape to surfaces of the same size: the settings are the capture's    *)
(* again, codec included, and only a demotion is carried over.             *)
(***************************************************************************)
AdoptSameSize ==
    /\ codec' = Requested
    /\ UNCHANGED <<late, useCpu, session>>

ReshapeSameSize ==
    /\ reshapes < MaxReshapes /\ reshapes' = reshapes + 1
    /\ AdoptSameSize
    /\ UNCHANGED <<coding, pending, recovery, broken, turns, requests, owed>>

(***************************************************************************)
(* reshape to another size in place: an NVENC session that can, or the     *)
(* striped path where no engine may take the new size.  The codec stays.   *)
(***************************************************************************)
Refits ==
    \/ session.kind = "engine" /\ ~late
    \/ /\ session.kind = "striped"
       /\ ~(codec = Requested /\ codec # "JPEG" /\ EngineMayServe(codec, useCpu))

ReshapeInPlace ==
    /\ reshapes < MaxReshapes /\ reshapes' = reshapes + 1
    /\ Refits
    /\ seen' = FALSE /\ resends' = Resends
    /\ UNCHANGED <<settings, fresh, inside, pending, recovery, broken, turns,
                   requests, owed>>

(***************************************************************************)
(* reshape returned false: encode_loop replaces the pipeline.  What the    *)
(* old one had armed goes with it.                                         *)
(***************************************************************************)
Replace ==
    /\ reshapes < MaxReshapes /\ reshapes' = reshapes + 1
    /\ session.kind = "striped" => ~Refits
    /\ \E s \in Sessions : Opened(s)
    /\ UNCHANGED <<broken, turns, requests, owed>>

(***************************************************************************)
(* The environment breaks or mends a kind of session.                      *)
(***************************************************************************)
Turn ==
    /\ turns < MaxTurns /\ turns' = turns + 1
    /\ \E k \in Breakable :
           broken' = IF k \in broken THEN broken \ {k} ELSE broken \cup {k}
    /\ UNCHANGED <<settings, coding, pending, recovery, requests, reshapes, owed>>

Next ==
    \/ Request
    \/ \E picture \in Pictures : Encode(picture) \/ Fail(picture)
    \/ RateFails
    \/ ReshapeSameSize \/ ReshapeInPlace \/ Replace
    \/ Turn

(***************************************************************************)
(* encode_loop processes every captured frame, and frames are captured at  *)
(* the target rate; the screen may stay still for ever, so only the frames *)
(* a still screen yields, its cleanup among them, are fair.  An engine     *)
(* that is not broken returns its units.                                   *)
(***************************************************************************)
Spec ==
    /\ Init /\ [][Next]_vars
    /\ \A picture \in {"cleanup", "still"} :
           WF_vars(Encode(picture)) /\ WF_vars(Fail(picture))

--------------------------------------------------------------------------------

(***************************************************************************)
(* recover_hw's streak only counts as recovery until an encode succeeds:   *)
(* between two successes the engine is rebuilt at most once, whatever the  *)
(* order of failing encodes and failing rate changes.                      *)
(***************************************************************************)
RebuildOnce == rebuilds <= 1

(***************************************************************************)
(* "A demotion (recover_hw) holds for the pipeline's life": a demoted      *)
(* pipeline drives no engine, across later failures and reshapes.          *)
(***************************************************************************)
DemotionHolds == demotions > 0 => session.kind # "engine"

(***************************************************************************)
(* A key frame that is owed is armed or inside the engine, and no path of  *)
(* process, update_rate or recover_hw lets go of it before it is out; only *)
(* replacing the whole pipeline does.                                      *)
(***************************************************************************)
Armed == pending \/ inside = "key"

KeyArmed == [][owed /\ Armed => ~owed' \/ Armed' \/ ~seen']_vars

(***************************************************************************)
(* "Streaming nothing forever is not an option": an armed key frame is     *)
(* delivered, or replaced with its pipeline, on a still screen too and     *)
(* with an engine that fails every encode for ever and still opens; only a *)
(* software library that goes on failing may leave it armed.               *)
(***************************************************************************)
ArmedIsServed == <>[]("library" \notin broken) => (Armed ~> ~Armed)

(***************************************************************************)
(* codec(): "The codec the pipeline actually emits, after any demotion".   *)
(* The code does not keep it: reshape to surfaces of the same size takes   *)
(* the requested codec back while a session the ladder fell through to     *)
(* still encodes.                                                          *)
(***************************************************************************)
CodecIsEmitted == codec = session.codec

=============================================================================
