---------------------------- MODULE MCRPMessage ----------------------------
(* A DSP with an endpoint, a thread that reads it and one that sends to it *)
(* and to the host.  Rings, mailbox and heap are small enough to run empty *)
(* and full.                                                               *)
EXTENDS RPMessage, TLC

CONSTANTS reader, sender, endpoint

MCEndpoint == {endpoint}
MCThread == {reader, sender}
MCowner == endpoint :> reader
MCsends == reader :> {} @@ sender :> {None, endpoint}
=============================================================================
