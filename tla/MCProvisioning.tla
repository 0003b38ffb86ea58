--------------------------- MODULE MCProvisioning ---------------------------
(* Instances of Provisioning for TLC; the .cfg files give the constants.   *)
EXTENDS Provisioning
=============================================================================
