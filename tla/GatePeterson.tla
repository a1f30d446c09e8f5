--------------------------- MODULE GatePeterson ---------------------------
(***************************************************************************)
(* packages/ti/sdo/ipc/gates/GatePeterson.c: a gate shared by exactly two  *)
(* processors, the creator (selfId 0) and the opener (selfId 1).  Each     *)
(* processor has one GatePeterson object; the threads of a processor are   *)
(* first serialised by its local gate (a re-entrant gate of SYS/BIOS) and  *)
(* the two processors by Peterson's algorithm on three words of shared     *)
(* memory, flag[0], flag[1] and turn.                                      *)
(*                                                                         *)
(* One action is one access to shared memory.  With the cache enabled each *)
(* write is followed by Cache_wbInv of its line and each read preceded by  *)
(* Cache_inv, so a read returns the last value written: the cache calls    *)
(* leave no other trace here.                                              *)
(***************************************************************************)
EXTENDS Naturals

CONSTANTS
  Thread0,    \* threads of the processor that created the gate
  Thread1,    \* threads of the processor that opens it
  NoThread,   \* the owner of a free local gate
  MaxNested   \* bound: how deep a thread nests its enters

ASSUME ThreadAssumption ==
  /\ Thread0 \cap Thread1 = {}
  /\ NoThread \notin Thread0 \cup Thread1

ASSUME NestedAssumption == MaxNested \in Nat \ {0}

VARIABLES
  flag,        \* shared: flag[s] = "BUSY" iff side s wants or has the gate
  turn,        \* shared: which side may go first when both are busy
  openerProcId,\* shared attrs: "opener" while the opener has its object
  nested,      \* obj->nested of the object of each side
  localOwner,  \* external: the thread that holds the local gate of each side
  pc           \* where each thread is in enter and leave

vars == <<flag, turn, openerProcId, nested, localOwner, pc>>

Thread == Thread0 \cup Thread1
Side == {0, 1}

\* obj->selfId and obj->otherId of the object a thread uses
selfId(t) == IF t \in Thread0 THEN 0 ELSE 1
otherId(t) == 1 - selfId(t)

PC == {"out", "setFlag", "giveTurn", "readFlag", "readTurn", "in",
       "clearFlag", "leaveLocal"}

\* Instance_init of the creator and postInit: shared memory is set up before
\* the gate is published, so the opener never sees it half written.
Init ==
  /\ flag = [s \in Side |-> "FREE"]
  /\ turn = 0
  /\ openerProcId = "INVALIDID"
  /\ nested = [s \in Side |-> 0]
  /\ localOwner = [s \in Side |-> NoThread]
  /\ pc = [t \in Thread |-> "out"]

-----------------------------------------------------------------------------
\* Instance_init with openFlag on the other processor: it takes the free
\* opener slot of the shared attrs and starts with a fresh object.
Open ==
  /\ openerProcId = "INVALIDID"
  /\ openerProcId' = "opener"
  /\ nested' = [nested EXCEPT ![1] = 0]
  /\ UNCHANGED <<flag, turn, localOwner, pc>>

\* Instance_finalize of the opener's object, once none of its threads uses it.
Close ==
  /\ openerProcId = "opener"
  /\ \A t \in Thread1 : pc[t] = "out"
  /\ openerProcId' = "INVALIDID"
  /\ UNCHANGED <<flag, turn, nested, localOwner, pc>>

\* enter up to its first access to shared memory: the local gate is taken (a
\* thread that has it takes it again) and a nested enter returns at once.
Enter(t) ==
  LET s == selfId(t) IN
  /\ s = 1 => openerProcId = "opener"
  /\ pc[t] \in {"out", "in"}
  /\ localOwner[s] \in {NoThread, t}
  /\ nested[s] < MaxNested
  /\ localOwner' = [localOwner EXCEPT ![s] = t]
  /\ nested' = [nested EXCEPT ![s] = @ + 1]
  /\ pc' = [pc EXCEPT ![t] = IF nested'[s] > 1 THEN "in" ELSE "setFlag"]
  /\ UNCHANGED <<flag, turn, openerProcId>>

\* "Indicate that we need to use the resource."
SetFlag(t) ==
  /\ pc[t] = "setFlag"
  /\ flag' = [flag EXCEPT ![selfId(t)] = "BUSY"]
  /\ pc' = [pc EXCEPT ![t] = "giveTurn"]
  /\ UNCHANGED <<turn, openerProcId, nested, localOwner>>

\* Mutant of GiveTurn: the turn is kept instead of given away.
GiveTurnKept(t) ==
  /\ pc[t] = "giveTurn"
  /\ turn' = selfId(t)
  /\ pc' = [pc EXCEPT ![t] = "readFlag"]
  /\ UNCHANGED <<flag, openerProcId, nested, localOwner>>

\* "Give away the turn."
GiveTurn(t) ==
  /\ pc[t] = "giveTurn"
  /\ turn' = otherId(t)
  /\ pc' = [pc EXCEPT ![t] = "readFlag"]
  /\ UNCHANGED <<flag, openerProcId, nested, localOwner>>

\* First operand of the wait loop's condition: is the other side busy?
ReadFlag(t) ==
  /\ pc[t] = "readFlag"
  /\ pc' = [pc EXCEPT ![t] =
              IF flag[otherId(t)] = "BUSY" THEN "readTurn" ELSE "in"]
  /\ UNCHANGED <<flag, turn, openerProcId, nested, localOwner>>

\* Second operand, evaluated later: does the other side have the turn?
ReadTurn(t) ==
  /\ pc[t] = "readTurn"
  /\ pc' = [pc EXCEPT ![t] = IF turn = otherId(t) THEN "readFlag" ELSE "in"]
  /\ UNCHANGED <<flag, turn, openerProcId, nested, localOwner>>

\* Mutant of Leave: an inner leave already releases the gate.
LeaveInner(t) ==
  LET s == selfId(t) IN
  /\ pc[t] = "in"
  /\ nested' = [nested EXCEPT ![s] = @ - 1]
  /\ pc' = [pc EXCEPT ![t] = "clearFlag"]
  /\ UNCHANGED <<flag, turn, openerProcId, localOwner>>

\* leave up to its access to shared memory; an inner leave touches none.
Leave(t) ==
  LET s == selfId(t) IN
  /\ pc[t] = "in"
  /\ nested' = [nested EXCEPT ![s] = @ - 1]
  /\ pc' = [pc EXCEPT ![t] = IF nested'[s] = 0 THEN "clearFlag" ELSE "in"]
  /\ UNCHANGED <<flag, turn, openerProcId, localOwner>>

\* Mutant of ClearFlag: leave forgets to write FREE.
ClearFlagForgotten(t) ==
  /\ pc[t] = "clearFlag"
  /\ pc' = [pc EXCEPT ![t] = "leaveLocal"]
  /\ UNCHANGED <<flag, turn, openerProcId, nested, localOwner>>

\* "Release the resource"
ClearFlag(t) ==
  /\ pc[t] = "clearFlag"
  /\ flag' = [flag EXCEPT ![selfId(t)] = "FREE"]
  /\ pc' = [pc EXCEPT ![t] = "leaveLocal"]
  /\ UNCHANGED <<turn, openerProcId, nested, localOwner>>

\* "Leave local gate"
LeaveLocal(t) ==
  /\ pc[t] = "leaveLocal"
  /\ localOwner' = [localOwner EXCEPT ![selfId(t)] = NoThread]
  /\ pc' = [pc EXCEPT ![t] = "out"]
  /\ UNCHANGED <<flag, turn, openerProcId, nested>>

-----------------------------------------------------------------------------
\* The steps a thread takes by itself once it has called enter or leave.
Step(t) ==
  SetFlag(t) \/ GiveTurn(t) \/ ReadFlag(t) \/ ReadTurn(t)
    \/ ClearFlag(t) \/ LeaveLocal(t)

Next ==
  \/ Open
  \/ Close
  \/ \E t \in Thread : Enter(t) \/ Step(t) \/ Leave(t)

Spec == Init /\ [][Next]_vars

\* A thread that is running keeps running, and a critical section ends: it is
\* finite code between a GateMP_enter and its GateMP_leave that waits for no
\* other thread, so a thread inside does not nest and unnest for ever without
\* reaching its outermost leave.  Nothing obliges a thread to enter, nor the
\* opener to open.
Fairness ==
  \A t \in Thread :
    /\ WF_vars(Step(t))
    /\ WF_vars(Leave(t))
    /\ SF_vars(Leave(t) /\ nested[selfId(t)] = 1)

FairSpec == Spec /\ Fairness

-----------------------------------------------------------------------------
TypeOK ==
  /\ flag \in [Side -> {"FREE", "BUSY"}]
  /\ turn \in Side
  /\ openerProcId \in {"INVALIDID", "opener"}
  /\ nested \in [Side -> 0..MaxNested]
  /\ localOwner \in [Side -> Thread \cup {NoThread}]
  /\ pc \in [Thread -> PC]

\* Between a completed enter and its leave a thread is alone: no thread of
\* its own processor and no thread of the other one is inside
\* (GatePeterson_enter, GatePeterson_leave).
MutualExclusion ==
  \A t, u \in Thread : pc[t] = "in" /\ pc[u] = "in" => t = u

\* A thread that has raised its flag is let in, whatever the other processor
\* does: the busy-wait loop of GatePeterson_enter cannot starve it.
EntersEventually ==
  \A t \in Thread : pc[t] = "setFlag" ~> pc[t] = "in"

-----------------------------------------------------------------------------
(* What makes MutualExclusion inductive.                                   *)

\* The local gate of a processor is held by exactly the thread of it that is
\* somewhere inside enter, the critical section or leave.
LocalInv ==
  /\ \A s \in Side : localOwner[s] # NoThread =>
        localOwner[s] \in Thread /\ selfId(localOwner[s]) = s
  /\ \A t \in Thread : pc[t] # "out" <=> localOwner[selfId(t)] = t

\* obj->nested tells how far the holder of the local gate is.
NestedInv ==
  /\ \A s \in Side : localOwner[s] = NoThread => nested[s] = 0
  /\ \A t \in Thread :
       /\ pc[t] \in {"setFlag", "giveTurn", "readFlag", "readTurn"} =>
            nested[selfId(t)] = 1
       /\ pc[t] = "in" => nested[selfId(t)] >= 1
       /\ pc[t] \in {"clearFlag", "leaveLocal"} => nested[selfId(t)] = 0
  /\ openerProcId = "INVALIDID" => \A t \in Thread1 : pc[t] = "out"

\* From SetFlag to ClearFlag the flag of the thread's side is up, and only
\* then.
FlagInv ==
  /\ \A s \in Side : localOwner[s] = NoThread => flag[s] = "FREE"
  /\ \A t \in Thread :
       /\ pc[t] \in {"giveTurn", "readFlag", "readTurn", "in", "clearFlag"} =>
            flag[selfId(t)] = "BUSY"
       /\ pc[t] \in {"setFlag", "leaveLocal"} => flag[selfId(t)] = "FREE"

\* A side that has the gate has the turn whenever the other side is past
\* giving its turn away: that is what keeps the other side in its loop.
TurnInv ==
  \A t, u \in Thread :
    /\ selfId(t) # selfId(u)
    /\ pc[t] \in {"in", "clearFlag"}
    /\ pc[u] \in {"readFlag", "readTurn", "in", "clearFlag"}
    => turn = selfId(t)

IInv == TypeOK /\ LocalInv /\ NestedInv /\ FlagInv /\ TurnInv

-----------------------------------------------------------------------------
\* The gate that callers see: held by the thread that is inside, as deep as
\* the object's nesting count says.
holder == IF \E t \in Thread : pc[t] = "in"
          THEN CHOOSE t \in Thread : pc[t] = "in"
          ELSE NoThread

depth == IF holder = NoThread THEN 0 ELSE nested[selfId(holder)]

Gate == INSTANCE IGate

\* Every step of the algorithm is an enter, a leave or nothing at all to the
\* callers of the gate: GatePeterson implements IGate.
ImplementsGate == Gate!GateSpec
=============================================================================
