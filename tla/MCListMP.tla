------------------------------ MODULE MCListMP ------------------------------
(* Two processors, one of them an ARM core; one element is not cached.     *)
EXTENDS ListMP

CONSTANTS dsp, arm, e1, e2, e3

MCProc == {dsp, arm}
MCElem == {e1, e2, e3}
MCCachedLine == {Head_, e1, e2}
=============================================================================
