------------------------------- MODULE MCIpc --------------------------------
(* One task on each of three processors; the first owns region 0.          *)
EXTENDS Ipc, TLC

CONSTANTS t0, t1, t2

MCTask == {t0, t1, t2}
MCprocOf == t0 :> 0 @@ t1 :> 1 @@ t2 :> 2
MCMaxAttach == 0 :> 1 @@ 1 :> 2 @@ 2 :> 1
MCComponent == <<"Notify", "MessageQ">>
=============================================================================
