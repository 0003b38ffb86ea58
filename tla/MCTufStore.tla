----------------------------- MODULE MCTufStore -----------------------------
(* Instances of TufStore for TLC.                                          *)
EXTENDS TufStore

\* Two sectors, one sector, two again, and more than a region.
Lengths == <<3, 1, 3, 5>>
=============================================================================
