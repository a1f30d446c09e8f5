------------------------- MODULE MCNotifyDriverShm -------------------------
(* NotifyDriverShm for TLC.  No symmetry: the run checks liveness too.     *)
EXTENDS NotifyDriverShm
=============================================================================
