-------------------------- MODULE MCGatePeterson --------------------------
(* GatePeterson for TLC; GatePeterson.cfg gives the processors two threads *)
(* each and lets enters nest twice.  No symmetry: the run checks liveness. *)
EXTENDS GatePeterson
=============================================================================
