------------------------------- MODULE Handoff -------------------------------
(***************************************************************************)
(* What the render -> encode handoff promises (the doc comment of struct   *)
(* WlFramePool, pixelflux/src/lib.rs): a single place between a sender and *)
(* a receiver, that drops nothing, reorders nothing, and is drained before *)
(* the receiver leaves a closed handoff.  Frames are their numbers in      *)
(* sending order, so a count says which were sent and which received.      *)
(***************************************************************************)
EXTENDS Naturals

VARIABLES
    sent,      \* how many frames were sent
    received,  \* how many were received, always the oldest ones
    open,      \* the sender may send more
    listening  \* the receiver has not left

vars == <<sent, received, open, listening>>

Init == sent = 0 /\ received = 0 /\ open = TRUE /\ listening = TRUE

\* A send finds the place empty: the one before was received.
Send ==
    /\ open /\ received = sent
    /\ sent' = sent + 1
    /\ UNCHANGED <<received, open, listening>>

Receive ==
    /\ listening /\ received < sent
    /\ received' = received + 1
    /\ UNCHANGED <<sent, open, listening>>

Close ==
    /\ open
    /\ open' = FALSE
    /\ UNCHANGED <<sent, received, listening>>

Leave ==
    /\ listening /\ ~open /\ received = sent
    /\ listening' = FALSE
    /\ UNCHANGED <<sent, received, open>>

Next == Send \/ Receive \/ Close \/ Leave

Spec == Init /\ [][Next]_vars

\* A receiver that keeps taking receives what was sent and leaves once closed.
FairSpec == Spec /\ WF_vars(Receive) /\ WF_vars(Leave)
=============================================================================
