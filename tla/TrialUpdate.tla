---------------------------- MODULE TrialUpdate -----------------------------
(***************************************************************************)
(* What the update client promises its owner, without slots, settings or   *)
(* power failures: the device has one version it relies on; a newer one    *)
(* may be staged, is started on trial once, and either proves itself and   *)
(* is promoted or is abandoned.                                            *)
(***************************************************************************)
EXTENDS Integers

CONSTANTS Versions, Factory

VARIABLES
    good,           \* the version the device relies on
    phase,          \* "idle", "staged" or "testing"
    candidate,      \* the version staged or on trial, 0 when idle
    proven          \* versions that have completed a TUF refresh while running

vars == <<good, phase, candidate, proven>>

Init ==
    /\ good = Factory
    /\ phase = "idle"
    /\ candidate = 0
    /\ proven = {Factory}

Stage ==
    /\ phase = "idle"
    /\ candidate' \in {v \in Versions : v > good}
    /\ phase' = "staged"
    /\ UNCHANGED <<good, proven>>

StartTrial ==
    /\ phase = "staged"
    /\ phase' = "testing"
    /\ UNCHANGED <<good, candidate, proven>>

\* The version that is running completes a TUF refresh.
Prove ==
    /\ phase # "staged"
    /\ proven' = proven \cup {IF phase = "testing" THEN candidate ELSE good}
    /\ UNCHANGED <<good, phase, candidate>>

Promote ==
    /\ phase = "testing"
    /\ candidate \in proven
    /\ good' = candidate
    /\ phase' = "idle"
    /\ candidate' = 0
    /\ UNCHANGED proven

Abandon ==
    /\ phase = "testing"
    /\ phase' = "idle"
    /\ candidate' = 0
    /\ UNCHANGED <<good, proven>>

Next == Stage \/ StartTrial \/ Prove \/ Promote \/ Abandon

Spec == Init /\ [][Next]_vars

\* A trial comes to an end, one way or the other.
LiveSpec == Spec /\ WF_vars(Promote \/ Abandon)
=============================================================================
