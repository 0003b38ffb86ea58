------------------------------ MODULE RootChain ------------------------------
(***************************************************************************)
(* What a TUF client promises about its root, without flash, files and     *)
(* interrupted writes: every root it trusts was reached from the           *)
(* provisioned one, version 1, or from one it had stored, by one version   *)
(* at a time; only what it trusts is stored; and a refresh is only         *)
(* completed with the newest root there is.                                *)
(***************************************************************************)
EXTENDS Integers

CONSTANT Roots

VARIABLES
    stored,         \* the root kept for the next refresh, 0 if there is none
    trusted,        \* the root trusted by the refresh under way, 0 before
    accepted,       \* the root of the last completed refresh, 0 before the first
    newest          \* the newest root published

vars == <<stored, trusted, accepted, newest>>

Init == stored = 0 /\ trusted = 0 /\ accepted = 0 /\ newest = 1

\* A refresh begins with what is stored, or with the provisioned root.
Begin ==
    /\ trusted = 0
    /\ trusted' \in {1, stored} \ {0}
    /\ UNCHANGED <<stored, accepted, newest>>

\* The next version is verified by the one that is trusted.
Extend ==
    /\ trusted # 0 /\ trusted < newest
    /\ trusted' = trusted + 1
    /\ UNCHANGED <<stored, accepted, newest>>

Complete ==
    /\ trusted = newest
    /\ accepted' = trusted
    /\ UNCHANGED <<stored, trusted, newest>>

End ==
    /\ trusted' = 0
    /\ UNCHANGED <<stored, accepted, newest>>

\* What was stored is dropped before anything else is stored.
Drop ==
    /\ stored' = 0
    /\ UNCHANGED <<trusted, accepted, newest>>

Store ==
    /\ stored = 0
    /\ stored' \in {1, trusted} \ {0}
    /\ UNCHANGED <<trusted, accepted, newest>>

Rotate ==
    /\ newest + 1 \in Roots
    /\ newest' = newest + 1
    /\ UNCHANGED <<stored, trusted, accepted>>

Next == Begin \/ Extend \/ Complete \/ End \/ Drop \/ Store \/ Rotate

Spec == Init /\ [][Next]_vars
=============================================================================
