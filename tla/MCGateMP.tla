------------------------------ MODULE MCGateMP ------------------------------
(* GateMP for TLC: two threads of one processor and one of another, three  *)
(* gates with remote protection and one without, too few resource ids for  *)
(* all of them.                                                            *)
EXTENDS GateMP, TLC

CONSTANTS a1, a2, b, dsp, arm

MCThread == {a1, a2, b}
MCprocOf == a1 :> dsp @@ a2 :> dsp @@ b :> arm
Symmetry == Permutations({a1, a2}) \cup Permutations(Addr \ LocalAddr)
=============================================================================
