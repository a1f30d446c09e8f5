------------------------------- MODULE IGate -------------------------------
(***************************************************************************)
(* What every multiprocessor gate of the IPC package promises to the code  *)
(* that calls GateMP_enter and GateMP_leave: at any instant at most one    *)
(* thread, over all processors, is between an enter and the leave that     *)
(* matches it; that thread may enter again (gates nest); the gate is given *)
(* back only by the leave that matches its first enter.                    *)
(*                                                                         *)
(* GatePeterson and GatePetersonN are shown to implement this module, and  *)
(* the modules of the components that protect shared memory with a GateMP  *)
(* (ListMP, HeapBufMP, ...) may treat a critical section as one step       *)
(* because of it.                                                          *)
(***************************************************************************)
EXTENDS Naturals

CONSTANTS
  Thread,     \* the threads of all processors that use the gate
  NoThread    \* "nobody holds the gate", no member of Thread

VARIABLES
  holder,     \* the thread inside the gate, or NoThread
  depth       \* how many of its enters are still to be matched by a leave

gateVars == <<holder, depth>>

GateInit == holder = NoThread /\ depth = 0

Enter(t) ==
  /\ holder \in {NoThread, t}
  /\ holder' = t
  /\ depth' = depth + 1

Leave(t) ==
  /\ holder = t
  /\ depth' = depth - 1
  /\ holder' = IF depth = 1 THEN NoThread ELSE t

GateNext == \E t \in Thread : Enter(t) \/ Leave(t)

GateSpec == GateInit /\ [][GateNext]_gateVars
=============================================================================
