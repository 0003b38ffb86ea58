--------------------------- MODULE MCDeviceUpdate ---------------------------
(* Instances of DeviceUpdate for TLC; the .cfg files give the constants.   *)
EXTENDS DeviceUpdate
=============================================================================
