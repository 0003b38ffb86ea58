----------------------------- MODULE MCCheckin ------------------------------
(* Instances of Checkin for TLC.  A negative interval and one longer than  *)
(* an hour; numbers below zero cannot be written in a .cfg file.           *)
EXTENDS Checkin

MCIntervals == {-1, 86400}
=============================================================================
