----------------------------- MODULE EncoderLadder -----------------------------
(***************************************************************************)
(* The one ladder every capture picks its encoder from                     *)
(* (encoders/mod.rs, select_frame_encoder), as the set of sessions it may  *)
(* settle on.  Any backend may refuse at the moment it is opened, so each  *)
(* rung below the first is an outcome too.  A session is the encoder a     *)
(* pipeline drives: an engine of the encode node, a full-frame software    *)
(* library, or the striped software path (`None` in the code), each with   *)
(* the codec it emits.                                                     *)
(***************************************************************************)

CONSTANTS
    Engine,    \* the codecs the encode node's hardware encodes (probe_node)
    Library    \* the codecs the build encodes in software (software_encoder)

Video == {"H264", "H265", "AV1", "VP8", "VP9"}
Codecs == Video \cup {"JPEG"}

ASSUME LadderAssumption == Engine \subseteq Video /\ Library \subseteq Video

Sessions == [kind : {"engine", "library", "striped"}, codec : Codecs]

EngineOf(c) == [kind |-> "engine", codec |-> c]
LibraryOf(c) == [kind |-> "library", codec |-> c]
Striped(c) == [kind |-> "striped", codec |-> c]

(***************************************************************************)
(* select_for_codec on host frames: the node's engine unless software is   *)
(* forced, then the codec's full-frame library, which H.264 does not have: *)
(* its software path is the striped one.                                   *)
(***************************************************************************)
ForCodec(c, useCpu) ==
    {EngineOf(d) : d \in {c} \cap (IF useCpu THEN {} ELSE Engine)}
        \cup {LibraryOf(d) : d \in {c} \cap (Library \ {"H264"})}

(***************************************************************************)
(* fallback_codecs: the codecs tried for one that has no path at all.      *)
(***************************************************************************)
Fallbacks(c, useCpu) == ((IF useCpu THEN {} ELSE Engine) \cup Library) \ {c}

(***************************************************************************)
(* The last rung: H.264's striped path, and JPEG where not even that       *)
(* encodes.                                                                *)
(***************************************************************************)
LastRung == Striped(IF "H264" \in Library THEN "H264" ELSE "JPEG")

(***************************************************************************)
(* select_frame_encoder for host frames (X11 and Wayland readback): every  *)
(* session it may come back with, its codec written into settings.codec.   *)
(***************************************************************************)
HostRungs(c, useCpu) ==
    IF c = "JPEG" THEN {Striped("JPEG")}
    ELSE ForCodec(c, useCpu) \cup
         IF c = "H264" THEN {Striped("H264")}
         ELSE {LastRung} \cup UNION {ForCodec(d, useCpu) : d \in Fallbacks(c, useCpu)}

(***************************************************************************)
(* The same ladder for a dmabuf source stops after the engine, and returns *)
(* nothing where that refuses.                                             *)
(***************************************************************************)
DmabufRungs(c, useCpu) == {s \in ForCodec(c, useCpu) : s.kind = "engine"}

(***************************************************************************)
(* engine_may_serve: whether a session left in software is worth running   *)
(* through the ladder again at another size.                               *)
(***************************************************************************)
EngineMayServe(c, useCpu) == ~useCpu /\ c \in Engine

=============================================================================
