---------------------------- MODULE MCNameServer ----------------------------
(* One thread of one processor and two of the other.                       *)
EXTENDS NameServerRemoteNotify, TLC

CONSTANTS a, b1, b2, dsp, arm

MCProc == {dsp, arm}
MCThread == {a, b1, b2}
MCprocOf == a :> dsp @@ b1 :> arm @@ b2 :> arm
MCMaxTimeouts == dsp :> 0 @@ arm :> 1
=============================================================================
