--------------------------- MODULE MCTransportShm ---------------------------
(* The DSP has a queue with a reader and a local writer; the writer also   *)
(* sends to a queue of the ARM core while a thread there sends to the DSP. *)
(* Nobody reads the second queue, so the heap runs dry.                    *)
EXTENDS TransportShm, TLC

CONSTANTS dsp, arm, queue1, queue2, reader, writer, remote, m1, m2

MCProc == {dsp, arm}
MCOther(p) == IF p = dsp THEN arm ELSE dsp
MCQueue == {queue1, queue2}
MChome == queue1 :> dsp @@ queue2 :> arm
MCThread == {reader, writer, remote}
MCprocOf == reader :> dsp @@ writer :> dsp @@ remote :> arm
MCreads == reader :> queue1 @@ writer :> None @@ remote :> None
MCputs == reader :> {} @@ writer :> {queue1, queue2} @@ remote :> {queue1}
MCMsg == {m1, m2}
MCPriority == {"normal", "urgent"}
MCSymmetry == Permutations(MCMsg)
=============================================================================
