-------------------------- MODULE MCImageDownload ---------------------------
(* Instances of ImageDownload for TLC; the .cfg files give the constants.  *)
EXTENDS ImageDownload
=============================================================================
