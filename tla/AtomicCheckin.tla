---------------------------- MODULE AtomicCheckin ----------------------------
(***************************************************************************)
(* A check-in as the update decision sees it, without requests, buffers    *)
(* and connections: the targets metadata and the tag it chooses by are     *)
(* read in one step.  DeviceUpdate takes it for that.                      *)
(***************************************************************************)
EXTENDS Integers

CONSTANTS Tags, AKNANO_DEFAULT_TAG, MaxTargets

VARIABLES
    published,      \* version of the targets metadata at the gateway
    tag,            \* the device's
    chosen          \* <<version of the metadata, tag>> of this check-in's
                    \* choice, <<>> as long as there is none

vars == <<published, tag, chosen>>

Init ==
    /\ published = 1
    /\ tag = AKNANO_DEFAULT_TAG
    /\ chosen = <<>>

Publish ==
    /\ published < MaxTargets
    /\ published' = published + 1
    /\ UNCHANGED <<tag, chosen>>

\* A new tag is only taken over before the choice.
Configure ==
    /\ chosen = <<>>
    /\ tag' \in Tags
    /\ UNCHANGED <<published, chosen>>

Choose ==
    /\ chosen = <<>>
    /\ chosen' = <<published, tag>>
    /\ UNCHANGED <<published, tag>>

NextCheckin ==
    /\ chosen' = <<>>
    /\ UNCHANGED <<published, tag>>

Reset ==
    /\ chosen' = <<>>
    /\ tag' = AKNANO_DEFAULT_TAG
    /\ UNCHANGED published

Next == Publish \/ Configure \/ Choose \/ NextCheckin \/ Reset

Spec == Init /\ [][Next]_vars
=============================================================================
