----------------------------- MODULE NotifyFifo -----------------------------
(***************************************************************************)
(* What a Notify driver with a queue promises (ti/ipc/Notify.h, the        *)
(* drivers "that use a FIFO to transmit events"): events leave in the      *)
(* order in which they were sent, each once, and one is accepted only when *)
(* the queue has room for it.                                              *)
(***************************************************************************)
EXTENDS Naturals, Sequences

CONSTANTS
  Entry,     \* what may be sent
  Capacity,  \* how many entries may wait
  None       \* no entry

VARIABLES
  queue,     \* entries sent and not yet taken
  given      \* the entry that was taken last

FifoInit == queue = <<>> /\ given = None

Put(e) ==
  /\ Len(queue) < Capacity
  /\ queue' = Append(queue, e)
  /\ UNCHANGED given

Get ==
  /\ queue # <<>>
  /\ given' = Head(queue)
  /\ queue' = Tail(queue)

FifoNext == Get \/ \E e \in Entry : Put(e)

FifoSpec == FifoInit /\ [][FifoNext]_<<queue, given>>
=============================================================================
