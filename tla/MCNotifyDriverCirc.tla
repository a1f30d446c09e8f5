------------------------ MODULE MCNotifyDriverCirc ------------------------
(* NotifyDriverCirc for TLC; the symmetry is used for safety only.         *)
EXTENDS NotifyDriverCirc, TLC

Events == Permutations(Event)
=============================================================================
