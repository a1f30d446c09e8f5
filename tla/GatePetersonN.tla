--------------------------- MODULE GatePetersonN ---------------------------
(***************************************************************************)
(* packages/ti/sdo/ipc/gates/GatePetersonN.c: a gate shared by the         *)
(* NumProcs processors of a cluster (Peterson's algorithm for n processes, *)
(* the filter lock).  A processor climbs NumProcs - 1 stages; at each      *)
(* stage the last one to arrive waits while any other processor is at that *)
(* stage or above.  As in GatePeterson the threads of a processor are      *)
(* first serialised by its local gate, and one action is one access to     *)
(* shared memory.                                                          *)
(***************************************************************************)
EXTENDS Integers, FiniteSets

CONSTANTS
  NumProcs,   \* MultiProc_getNumProcsInCluster()
  Thread,     \* the threads of all processors
  selfId,     \* selfId[t]: obj->selfId of the object that thread t uses
  NoThread,   \* the owner of a free local gate
  MaxNested   \* bound: how deep a thread nests its enters

Proc == 0..(NumProcs - 1)
Stage == 0..(NumProcs - 2)
NOT_INTERESTED == -1

ASSUME ProcAssumption ==
  /\ NumProcs \in Nat \ {0}
  /\ selfId \in [Thread -> Proc]
  /\ NoThread \notin Thread

ASSUME NestedAssumption == MaxNested \in Nat \ {0}

VARIABLES
  enteredStage,          \* shared: the stage each processor has reached
  lastProcEnteringStage, \* shared: the last arrival at each stage
  nested,                \* obj->nested of the object of each processor
  localOwner,            \* external: who holds the local gate of each processor
  pc,                    \* where each thread is in enter and leave
  curStage,              \* local variable of enter
  proc                   \* local variable of enter: who is being waited for

vars == <<enteredStage, lastProcEnteringStage, nested, localOwner, pc,
          curStage, proc>>
shared == <<enteredStage, lastProcEnteringStage>>
object == <<nested, localOwner>>
locals == <<curStage, proc>>

PC == {"out", "setStage", "setLast", "readStage", "readLast", "in",
       "clearStage", "leaveLocal"}

\* postInit of the creator; the other processors open the gate later and
\* write nothing.
Init ==
  /\ enteredStage = [p \in Proc |-> NOT_INTERESTED]
  /\ lastProcEnteringStage = [k \in Stage |-> 0]
  /\ nested = [p \in Proc |-> 0]
  /\ localOwner = [p \in Proc |-> NoThread]
  /\ pc = [t \in Thread |-> "out"]
  /\ curStage = [t \in Thread |-> 0]
  /\ proc = [t \in Thread |-> 0]

-----------------------------------------------------------------------------
\* The first processor to look at, from p on, that is not the thread's own.
Other(t, p) == IF p = selfId[t] THEN p + 1 ELSE p

\* Where enter goes when it has k stages behind it.
AtStage(k) == IF k < NumProcs - 1 THEN "setStage" ELSE "in"

\* enter up to its first access to shared memory.
Enter(t) ==
  LET p == selfId[t] IN
  /\ pc[t] \in {"out", "in"}
  /\ localOwner[p] \in {NoThread, t}
  /\ nested[p] < MaxNested
  /\ localOwner' = [localOwner EXCEPT ![p] = t]
  /\ nested' = [nested EXCEPT ![p] = @ + 1]
  /\ pc' = [pc EXCEPT ![t] = IF nested'[p] > 1 THEN "in" ELSE AtStage(0)]
  /\ UNCHANGED <<shared, locals>>

\* The processor announces that it has reached curStage ...
SetStage(t) ==
  /\ pc[t] = "setStage"
  /\ enteredStage' = [enteredStage EXCEPT ![selfId[t]] = curStage[t]]
  /\ pc' = [pc EXCEPT ![t] = "setLast"]
  /\ UNCHANGED <<lastProcEnteringStage, object, locals>>

\* ... and then that it is the last one to have done so.
SetLast(t) ==
  /\ pc[t] = "setLast"
  /\ lastProcEnteringStage' =
       [lastProcEnteringStage EXCEPT ![curStage[t]] = selfId[t]]
  /\ proc' = [proc EXCEPT ![t] = Other(t, 0)]
  /\ pc' = [pc EXCEPT ![t] = "readStage"]
  /\ UNCHANGED <<enteredStage, object, curStage>>

\* The wait for proc[t] is over: on to the next processor, to the next stage
\* or into the gate.
Advance(t) ==
  LET q == Other(t, proc[t] + 1)
      k == curStage[t] + 1
  IN \/ /\ q < NumProcs
        /\ proc' = [proc EXCEPT ![t] = q]
        /\ pc' = [pc EXCEPT ![t] = "readStage"]
        /\ UNCHANGED curStage
     \/ /\ q >= NumProcs
        /\ proc' = [proc EXCEPT ![t] = 0]
        /\ curStage' = [curStage EXCEPT ![t] = IF AtStage(k) = "in" THEN 0 ELSE k]
        /\ pc' = [pc EXCEPT ![t] = AtStage(k)]

\* Mutant of ReadStage: a processor at the same stage is overlooked.
ReadStageAbove(t) ==
  /\ pc[t] = "readStage"
  /\ \/ /\ enteredStage[proc[t]] > curStage[t]
        /\ pc' = [pc EXCEPT ![t] = "readLast"]
        /\ UNCHANGED locals
     \/ enteredStage[proc[t]] <= curStage[t] /\ Advance(t)
  /\ UNCHANGED <<shared, object>>

\* First operand of the wait loop's condition: has proc reached this stage?
ReadStage(t) ==
  /\ pc[t] = "readStage"
  /\ \/ /\ enteredStage[proc[t]] >= curStage[t]
        /\ pc' = [pc EXCEPT ![t] = "readLast"]
        /\ UNCHANGED locals
     \/ enteredStage[proc[t]] < curStage[t] /\ Advance(t)
  /\ UNCHANGED <<shared, object>>

\* Mutant of ReadLast: the processor waits whoever arrived last.
ReadLastIgnored(t) ==
  /\ pc[t] = "readLast"
  /\ pc' = [pc EXCEPT ![t] = "readStage"]
  /\ UNCHANGED <<shared, object, locals>>

\* Second operand, evaluated later: is this processor still the last arrival?
ReadLast(t) ==
  /\ pc[t] = "readLast"
  /\ \/ /\ lastProcEnteringStage[curStage[t]] = selfId[t]
        /\ pc' = [pc EXCEPT ![t] = "readStage"]
        /\ UNCHANGED locals
     \/ lastProcEnteringStage[curStage[t]] # selfId[t] /\ Advance(t)
  /\ UNCHANGED <<shared, object>>

\* Mutant of Leave: an inner leave already releases the gate.
LeaveInner(t) ==
  /\ pc[t] = "in"
  /\ nested' = [nested EXCEPT ![selfId[t]] = @ - 1]
  /\ pc' = [pc EXCEPT ![t] = "clearStage"]
  /\ UNCHANGED <<shared, localOwner, locals>>

\* leave up to its access to shared memory; an inner leave touches none.
Leave(t) ==
  LET p == selfId[t] IN
  /\ pc[t] = "in"
  /\ nested' = [nested EXCEPT ![p] = @ - 1]
  /\ pc' = [pc EXCEPT ![t] = IF nested'[p] = 0 THEN "clearStage" ELSE "in"]
  /\ UNCHANGED <<shared, localOwner, locals>>

ClearStage(t) ==
  /\ pc[t] = "clearStage"
  /\ enteredStage' = [enteredStage EXCEPT ![selfId[t]] = NOT_INTERESTED]
  /\ pc' = [pc EXCEPT ![t] = "leaveLocal"]
  /\ UNCHANGED <<lastProcEnteringStage, object, locals>>

LeaveLocal(t) ==
  /\ pc[t] = "leaveLocal"
  /\ localOwner' = [localOwner EXCEPT ![selfId[t]] = NoThread]
  /\ pc' = [pc EXCEPT ![t] = "out"]
  /\ UNCHANGED <<shared, nested, locals>>

-----------------------------------------------------------------------------
\* The steps a thread takes by itself once it has called enter or leave.
Step(t) ==
  SetStage(t) \/ SetLast(t) \/ ReadStage(t) \/ ReadLast(t)
    \/ ClearStage(t) \/ LeaveLocal(t)

Next == \E t \in Thread : Enter(t) \/ Step(t) \/ Leave(t)

Spec == Init /\ [][Next]_vars

\* As in GatePeterson: running threads run on, critical sections end.
Fairness ==
  \A t \in Thread :
    /\ WF_vars(Step(t))
    /\ WF_vars(Leave(t))
    /\ SF_vars(Leave(t) /\ nested[selfId[t]] = 1)

FairSpec == Spec /\ Fairness

-----------------------------------------------------------------------------
TypeOK ==
  /\ enteredStage \in [Proc -> Stage \cup {NOT_INTERESTED}]
  /\ lastProcEnteringStage \in [Stage -> Proc]
  /\ nested \in [Proc -> 0..MaxNested]
  /\ localOwner \in [Proc -> Thread \cup {NoThread}]
  /\ pc \in [Thread -> PC]
  /\ curStage \in [Thread -> Stage \cup {0}]
  /\ proc \in [Thread -> Proc]

\* Between a completed enter and its leave a thread is alone among the
\* threads of all processors (GatePetersonN_enter, GatePetersonN_leave).
MutualExclusion ==
  \A t, u \in Thread : pc[t] = "in" /\ pc[u] = "in" => t = u

\* The threads that have the stages 0..k behind them.
Passed(k) ==
  {t \in Thread : \/ pc[t] \in {"in", "clearStage"}
                  \/ pc[t] \in {"setStage", "setLast", "readStage", "readLast"}
                       /\ curStage[t] > k}

\* Every stage holds a processor back: at most NumProcs - 1 - k of them are
\* past stage k, so one at most is past the last stage.  This is what the
\* loop over the stages in GatePetersonN_enter is for.
StageFilters == \A k \in Stage : Cardinality(Passed(k)) <= NumProcs - 1 - k

-----------------------------------------------------------------------------
\* Why the filter works: the inductive invariant behind it.
Climbing == {"setStage", "setLast", "readStage", "readLast"}
Waiting == {"readStage", "readLast"}
Inside == {"in", "clearStage"}

\* A thread is between enter and leave exactly while it has its local gate.
LocalInv ==
  /\ \A t \in Thread : pc[t] # "out" <=> localOwner[selfId[t]] = t
  /\ \A p \in Proc : localOwner[p] # NoThread => selfId[localOwner[p]] = p

\* The nesting count of a processor follows its thread through the gate.
NestedInv ==
  /\ \A p \in Proc : localOwner[p] = NoThread => nested[p] = 0
  /\ \A t \in Thread :
       /\ pc[t] \in Climbing => nested[selfId[t]] = 1
       /\ pc[t] = "in" => nested[selfId[t]] >= 1
       /\ pc[t] \in {"clearStage", "leaveLocal"} => nested[selfId[t]] = 0

\* The loops' variables: a stage while climbing, and never the own processor.
LoopInv ==
  \A t \in Thread :
    /\ pc[t] \in Climbing => curStage[t] \in Stage
    /\ pc[t] \notin Climbing => curStage[t] = 0
    /\ pc[t] \in Waiting => proc[t] # selfId[t]

\* What a processor tells the others of the stage it has reached.
FlagInv ==
  /\ \A p \in Proc : localOwner[p] = NoThread => enteredStage[p] = NOT_INTERESTED
  /\ \A t \in Thread :
       /\ pc[t] = "setStage" => enteredStage[selfId[t]] = curStage[t] - 1
       /\ pc[t] \in {"setLast"} \cup Waiting =>
            enteredStage[selfId[t]] = curStage[t]
       /\ pc[t] \in Inside => enteredStage[selfId[t]] = NumProcs - 2
       /\ pc[t] = "leaveLocal" => enteredStage[selfId[t]] = NOT_INTERESTED

\* The threads that have arrived at stage k and said so.
Arrived(k) ==
  Passed(k) \cup {t \in Thread : pc[t] \in Waiting /\ curStage[t] = k}

\* Thread t no longer waits for processor q at stage k.
Cleared(t, q, k) ==
  t \in Passed(k) \/ (pc[t] \in Waiting /\ curStage[t] = k /\ q < proc[t])

\* Nobody overtakes the last arrival at a stage: a processor that it no longer
\* waits for had not arrived, and whoever arrives now is the last one.
LastIsAlone ==
  \A k \in Stage : \A t, u \in Thread :
    /\ Cleared(t, selfId[u], k)
    /\ lastProcEnteringStage[k] = selfId[t]
    /\ u \in Arrived(k)
    => t = u

\* While a thread is at a stage, so is the last arrival there.
LastArrived ==
  \A k \in Stage : Arrived(k) # {} =>
    \E t \in Arrived(k) : lastProcEnteringStage[k] = selfId[t]

IInv == /\ TypeOK /\ LocalInv /\ NestedInv /\ LoopInv /\ FlagInv
        /\ LastIsAlone /\ LastArrived /\ StageFilters

\* The safety of the gate in one formula: mutual exclusion after
\* GatePetersonN_enter, the bound that each stage of its loop keeps, and the
\* inductive invariant they rest on.
Inv == IInv /\ MutualExclusion

\* A thread that starts to climb is let in, whatever the others do: no wait
\* loop of GatePetersonN_enter is left only by luck.
EntersEventually ==
  \A t \in Thread : pc[t] = "setStage" ~> pc[t] = "in"

-----------------------------------------------------------------------------
\* The gate that callers see, as in GatePeterson.
holder == IF \E t \in Thread : pc[t] = "in"
          THEN CHOOSE t \in Thread : pc[t] = "in"
          ELSE NoThread

depth == IF holder = NoThread THEN 0 ELSE nested[selfId[holder]]

Gate == INSTANCE IGate

\* Every step of the algorithm is an enter, a leave or nothing at all to the
\* callers of the gate: GatePetersonN implements IGate.
ImplementsGate == Gate!GateSpec
=============================================================================
