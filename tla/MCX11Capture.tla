----------------------------- MODULE MCX11Capture -----------------------------
(***************************************************************************)
(* What a capture's threads share, one of the two at a time: the controls  *)
(* its setters store and its encode thread loads (RateControls, on X11 and *)
(* on Wayland), and the surfaces its capture thread grabs into and its     *)
(* encode thread reads (X11Capture).  The variables of the other keep      *)
(* their values.                                                           *)
(***************************************************************************)
EXTENDS RateControls

CONSTANTS PoolSize, Sizes, Regions, GrabFailures, Attempts, Streak, Faults, MaxChanges

VARIABLES
    kind,  \* which of the two runs; never changes
    \* X11Capture
    root, server, up, region, changes, stop, regionDirty, free, slot, poolStop,
    generation, pc, held, asked, size, target, birth, conn, fresh, failures, attempts,
    reconnects, result, epc, encoding, pipe, pins

X11 == INSTANCE X11Capture

ASSUME CaptureAssumption == X11!X11Assumption

-----------------------------------------------------------------------------
MCInit ==
    /\ Init /\ X11!Init
    /\ \/ kind = "x11" /\ ~wayland
       \/ kind = "controls" /\ region = 0 /\ \A s \in Sizes : root <= s

X11Only ==
    <<root, server, up, region, changes, stop, regionDirty, free, slot, poolStop,
      generation, pc, held, asked, size, target, birth, conn, fresh, failures, attempts,
      reconnects, result, epc, encoding, pipe, pins>>

MCNext ==
    /\ UNCHANGED kind
    /\ \/ kind = "controls" /\ Next /\ UNCHANGED X11Only
       \/ kind = "x11" /\ X11!Next /\ UNCHANGED vars

\* The fairness of X11Capture's own specification; RateControls needs none.
MCSpec ==
    /\ MCInit /\ [][MCNext]_<<kind, vars, X11Only>>
    /\ WF_X11Only(kind = "x11" /\ X11!CaptureStep)
    /\ WF_X11Only(kind = "x11" /\ X11!EncodeStep)

-----------------------------------------------------------------------------
\* The TypeOK of each.
Types == TypeOK /\ X11!TypeOK

\* X11Capture: no surface is read or registered once it is destroyed.
ReadsLive == X11!ReadsLive

\* X11Capture: a surface is in one place, and none is lost.
SurfacesConserved == X11!SurfacesConserved

\* X11Capture: a root that shrinks under the region is followed in time.
ShrinkIsFollowed == X11!ShrinkIsFollowed

\* X11Capture: the capture streams or ends.
StreamsOrEnds == kind = "x11" => X11!StreamsOrEnds

=============================================================================
