------------------------- MODULE MCBlobCheckpointSaver -------------------------
(* Instances of BlobCheckpointSaver for TLC. *)
EXTENDS BlobCheckpointSaver

CONSTANTS a, b
================================================================================
