-------------------------- MODULE MCGatePetersonN --------------------------
(* GatePetersonN for TLC: three processors, the smallest cluster in which  *)
(* a processor can overtake another one between two stages; two threads    *)
(* compete for the local gate of the first.                                *)
EXTENDS GatePetersonN, TLC

CONSTANTS a1, a2, b, c

MCThread == {a1, a2, b, c}
MCselfId == a1 :> 0 @@ a2 :> 0 @@ b :> 1 @@ c :> 2
=============================================================================
