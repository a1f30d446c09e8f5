------------------------ MODULE GatePetersonNProofs ------------------------
(***************************************************************************)
(* GatePetersonN gives mutual exclusion, each of its stages holds back one *)
(* processor, and it implements IGate: for any number of processors, any   *)
(* threads on them and any nesting depth.                                  *)
(***************************************************************************)
EXTENDS GatePetersonN, FiniteSetTheorems, TLAPS

USE DEF NOT_INTERESTED

-----------------------------------------------------------------------------
\* What the end of a wait does, in the three ways the loops can go on.

\* The inner loop goes on with the next processor that is not the own one.
AskNext(t) ==
  \E q \in Proc :
    /\ q # selfId[t] /\ q > proc[t]
    /\ \A r \in Proc : r < q /\ r # selfId[t] => r <= proc[t]
    /\ proc' = [proc EXCEPT ![t] = q]
    /\ pc' = [pc EXCEPT ![t] = "readStage"]
    /\ curStage' = curStage

\* The inner loop is over and the outer one goes on with the next stage.
ClimbNext(t) ==
  /\ \A r \in Proc : r # selfId[t] => r <= proc[t]
  /\ curStage[t] + 1 \in Stage
  /\ proc' = [proc EXCEPT ![t] = 0]
  /\ pc' = [pc EXCEPT ![t] = "setStage"]
  /\ curStage' = [curStage EXCEPT ![t] = curStage[t] + 1]

\* Both loops are over.
GetIn(t) ==
  /\ \A r \in Proc : r # selfId[t] => r <= proc[t]
  /\ curStage[t] = NumProcs - 2
  /\ proc' = [proc EXCEPT ![t] = 0]
  /\ pc' = [pc EXCEPT ![t] = "in"]
  /\ curStage' = [curStage EXCEPT ![t] = 0]

\* The wait is not over yet.
LookAgain(t) ==
  /\ \E x \in Waiting : pc' = [pc EXCEPT ![t] = x]
  /\ proc' = proc /\ curStage' = curStage

\* A wait that is over for processor proc[t] goes on in one of three ways.
LEMMA AdvanceCases ==
  ASSUME TypeOK, LoopInv, NEW t \in Thread, pc[t] \in Waiting, Advance(t)
  PROVE  AskNext(t) \/ ClimbNext(t) \/ GetIn(t)
<1> DEFINE q == Other(t, proc[t] + 1)
           k == curStage[t] + 1
<1>1. /\ selfId[t] \in Proc /\ proc[t] \in Proc /\ curStage[t] \in Stage
      /\ NumProcs \in Nat \ {0} /\ proc[t] # selfId[t]
  BY ProcAssumption DEF TypeOK, LoopInv, Waiting, Climbing
<1>2. /\ q \in Nat /\ q # selfId[t] /\ q > proc[t]
      /\ \A r \in Proc : r < q /\ r # selfId[t] => r <= proc[t]
  BY <1>1 DEF Other, Proc
<1>3. CASE q < NumProcs
  <2>1. /\ proc' = [proc EXCEPT ![t] = q]
        /\ pc' = [pc EXCEPT ![t] = "readStage"]
        /\ curStage' = curStage
    BY <1>1, <1>2, <1>3 DEF Advance
  <2>2. q \in Proc
    BY <1>1, <1>2, <1>3 DEF Proc
  <2>3. QED
    BY <1>2, <2>1, <2>2 DEF AskNext
<1>4. CASE q >= NumProcs
  <2>1. \A r \in Proc : r # selfId[t] => r <= proc[t]
    BY <1>1, <1>2, <1>4 DEF Proc
  <2>2. /\ proc' = [proc EXCEPT ![t] = 0]
        /\ curStage' = [curStage EXCEPT ![t] = IF AtStage(k) = "in" THEN 0 ELSE k]
        /\ pc' = [pc EXCEPT ![t] = AtStage(k)]
    BY <1>1, <1>2, <1>4 DEF Advance
  <2>3. CASE k < NumProcs - 1
    <3>1. AtStage(k) = "setStage" /\ k \in Stage
      BY <1>1, <2>3 DEF AtStage, Stage
    <3>2. QED
      BY <2>1, <2>2, <3>1 DEF ClimbNext
  <2>4. CASE ~(k < NumProcs - 1)
    <3>1. AtStage(k) = "in" /\ curStage[t] = NumProcs - 2
      BY <1>1, <2>4 DEF AtStage, Stage
    <3>2. QED
      BY <2>1, <2>2, <3>1 DEF GetIn
  <2>5. QED
    BY <2>3, <2>4
<1>5. QED
  BY <1>1, <1>2, <1>3, <1>4

\* Both reads of the wait loop's condition, by what they find.
LEMMA ReadCases ==
  ASSUME TypeOK, LoopInv, NEW t \in Thread, ReadStage(t) \/ ReadLast(t)
  PROVE  /\ pc[t] \in Waiting
         /\ UNCHANGED <<shared, object>>
         /\ \/ LookAgain(t)
            \/ /\ \/ enteredStage[proc[t]] < curStage[t]
                  \/ lastProcEnteringStage[curStage[t]] # selfId[t]
               /\ AskNext(t) \/ ClimbNext(t) \/ GetIn(t)
<1>1. pc[t] \in Waiting /\ UNCHANGED <<shared, object>>
  BY DEF ReadStage, ReadLast, Waiting
<1>2. CASE Advance(t)
  BY <1>1, <1>2, AdvanceCases DEF ReadStage, ReadLast, LookAgain, locals, Waiting
<1>3. CASE ~Advance(t)
  BY <1>1, <1>3 DEF ReadStage, ReadLast, LookAgain, locals, Waiting
<1>4. QED
  BY <1>1, <1>2, <1>3

-----------------------------------------------------------------------------
\* The parts of the invariant that concern one thread and its processor.
BaseInv == TypeOK /\ LocalInv /\ NestedInv /\ LoopInv /\ FlagInv

\* The creator sets up the shared memory in a state of the invariant.
LEMMA InitBase == Init => BaseInv
<1> USE ProcAssumption, NestedAssumption
<1> SUFFICES ASSUME Init PROVE BaseInv
  OBVIOUS
<1>1. TypeOK
  BY DEF Init, TypeOK, PC, Proc, Stage
<1>2. LocalInv /\ NestedInv /\ LoopInv /\ FlagInv
  BY DEF Init, LocalInv, NestedInv, LoopInv, FlagInv, Climbing, Waiting, Inside
<1>3. QED
  BY <1>1, <1>2 DEF BaseInv

\* A step that leaves the nesting counts and the local gates alone and moves
\* one thread, which holds its local gate before and after.
LEMMA LocalFrame ==
  ASSUME BaseInv, UNCHANGED object, NEW t \in Thread, pc[t] # "out",
         NEW x \in PC \ {"out"}, pc' = [pc EXCEPT ![t] = x]
  PROVE  LocalInv'
  BY DEF BaseInv, TypeOK, LocalInv, object

\* Threads of one processor take turns, and a free local gate has none.
LEMMA OneAtATime ==
  ASSUME LocalInv, NEW t \in Thread, pc[t] # "out"
  PROVE  /\ selfId[t] \in Proc /\ t # NoThread
         /\ localOwner[selfId[t]] # NoThread
         /\ \A u \in Thread : pc[u] # "out" /\ selfId[u] = selfId[t] => u = t
  BY ProcAssumption DEF LocalInv

\* The first enter of a thread takes the local gate and starts the climb; a
\* nested one only counts.
LEMMA EnterCases ==
  ASSUME BaseInv, NEW t \in Thread, Enter(t)
  PROVE  LET p == selfId[t] IN
         /\ p \in Proc /\ UNCHANGED <<shared, locals>>
         /\ nested[p] < MaxNested
         /\ nested' = [nested EXCEPT ![p] = nested[p] + 1]
         /\ \/ /\ pc[t] = "out" /\ localOwner[p] = NoThread /\ nested[p] = 0
               /\ pc' = [pc EXCEPT ![t] = AtStage(0)]
               /\ localOwner' = [localOwner EXCEPT ![p] = t]
            \/ /\ pc[t] = "in" /\ localOwner[p] = t /\ nested[p] >= 1
               /\ pc' = pc /\ localOwner' = localOwner
<1> DEFINE p == selfId[t]
<1>0. p \in Proc /\ nested[p] \in Nat /\ t # NoThread
  BY ProcAssumption, NestedAssumption DEF BaseInv, TypeOK
<1>1. /\ UNCHANGED <<shared, locals>> /\ nested[p] < MaxNested
      /\ nested' = [nested EXCEPT ![p] = nested[p] + 1]
      /\ localOwner' = [localOwner EXCEPT ![p] = t]
      /\ pc' = [pc EXCEPT ![t] = IF nested'[p] > 1 THEN "in" ELSE AtStage(0)]
  BY DEF Enter
<1>2. nested'[p] = nested[p] + 1
  BY <1>0, <1>1 DEF BaseInv, TypeOK
<1>3. CASE pc[t] = "out"
  <2>1. localOwner[p] = NoThread
    BY <1>3 DEF Enter, BaseInv, LocalInv
  <2>2. nested[p] = 0
    BY <1>0, <2>1 DEF BaseInv, NestedInv
  <2>3. ~(nested'[p] > 1)
    BY <1>2, <2>2
  <2>4. pc' = [pc EXCEPT ![t] = AtStage(0)]
    BY <1>1, <2>3
  <2>5. QED
    BY <1>0, <1>1, <1>3, <2>1, <2>2, <2>4
<1>4. CASE pc[t] = "in"
  <2>1. localOwner[p] = t /\ nested[p] >= 1
    BY <1>4 DEF BaseInv, LocalInv, NestedInv
  <2>2. localOwner' = localOwner /\ pc' = pc
    BY <1>0, <1>1, <1>2, <1>4, <2>1 DEF BaseInv, TypeOK
  <2>3. QED
    BY <1>0, <1>1, <1>4, <2>1, <2>2
<1>5. QED
  BY <1>3, <1>4 DEF Enter

\* Where a climb starts: at the first stage, or inside when there is none.
LEMMA StartFacts ==
  /\ \/ /\ 0 \in Stage
        /\ AtStage(0) = "setStage"
     \/ /\ Stage = {} /\ NumProcs = 1
        /\ AtStage(0) = "in"
  /\ AtStage(0) \in PC
<1>1. CASE NumProcs = 1
  BY <1>1 DEF AtStage, Stage, PC
<1>2. CASE NumProcs # 1
  <2>1. 0 <= NumProcs - 2 /\ 0 < NumProcs - 1 /\ NumProcs - 2 \in Int
    BY <1>2, ProcAssumption
  <2>2. 0 \in Stage
    BY <2>1 DEF Stage
  <2>3. AtStage(0) = "setStage"
    BY <2>1 DEF AtStage
  <2>4. QED
    BY <2>2, <2>3 DEF PC
<1>3. QED
  BY <1>1, <1>2

\* enter up to its first access keeps the thread's part of the invariant.
LEMMA EnterBase ==
  ASSUME BaseInv, NEW t \in Thread, Enter(t)
  PROVE  BaseInv'
<1> DEFINE p == selfId[t]
<1>1. NoThread \notin Thread /\ selfId \in [Thread -> Proc]
  BY ProcAssumption
<1>2. CASE /\ pc[t] = "out" /\ localOwner[p] = NoThread /\ nested[p] = 0
           /\ pc' = [pc EXCEPT ![t] = AtStage(0)]
           /\ localOwner' = [localOwner EXCEPT ![p] = t]
  <2>1. /\ nested' = [nested EXCEPT ![p] = 1] /\ MaxNested \in Nat \ {0}
        /\ UNCHANGED <<shared, locals>> /\ p \in Proc
    BY <1>2, EnterCases, NestedAssumption
  <2>2. TypeOK'
    BY <1>1, <1>2, <2>1, StartFacts DEF BaseInv, TypeOK, shared, locals
  <2>a. \A u \in Thread : u # t /\ selfId[u] = p => pc[u] = "out"
    BY <1>1, <1>2 DEF BaseInv, LocalInv
  <2>b. AtStage(0) \in {"setStage", "in"}
    BY StartFacts
  <2>3. LocalInv'
    BY <1>1, <1>2, <2>1, <2>a, <2>b DEF BaseInv, TypeOK, LocalInv
  <2>4. NestedInv'
    BY <1>1, <1>2, <2>1, <2>a, <2>b
       DEF BaseInv, TypeOK, NestedInv, Climbing
  <2>5. LoopInv'
    BY <1>1, <1>2, <2>1, StartFacts
       DEF BaseInv, TypeOK, LoopInv, locals, Climbing, Waiting
  <2>6. FlagInv'
    BY <1>1, <1>2, <2>1, StartFacts
       DEF BaseInv, TypeOK, LocalInv, LoopInv, FlagInv, shared, locals,
           Climbing, Waiting, Inside
  <2>7. QED
    BY <2>2, <2>3, <2>4, <2>5, <2>6 DEF BaseInv
<1>3. CASE /\ pc[t] = "in" /\ localOwner[p] = t /\ nested[p] >= 1
           /\ pc' = pc /\ localOwner' = localOwner
  <2>1. /\ nested' = [nested EXCEPT ![p] = nested[p] + 1]
        /\ nested[p] < MaxNested /\ MaxNested \in Nat
        /\ UNCHANGED <<shared, locals>> /\ p \in Proc
    BY EnterCases, NestedAssumption
  <2>2. TypeOK'
    BY <1>3, <2>1 DEF BaseInv, TypeOK, shared, locals
  <2>3. LocalInv' /\ LoopInv' /\ FlagInv'
    BY <1>3, <2>1 DEF BaseInv, LocalInv, LoopInv, FlagInv, shared, locals
  <2>4. NestedInv'
    BY <1>1, <1>3, <2>1 DEF BaseInv, TypeOK, LocalInv, NestedInv, Climbing
  <2>5. QED
    BY <2>2, <2>3, <2>4 DEF BaseInv
<1>4. QED
  BY <1>2, <1>3, EnterCases

\* The two stores that announce a stage keep it.
LEMMA AnnounceBase ==
  ASSUME BaseInv, NEW t \in Thread, SetStage(t) \/ SetLast(t)
  PROVE  BaseInv'
<1>0. selfId \in [Thread -> Proc] /\ NumProcs \in Nat \ {0}
  BY ProcAssumption
<1>1. CASE SetStage(t)
  <2>1. /\ pc[t] = "setStage" /\ pc' = [pc EXCEPT ![t] = "setLast"]
        /\ enteredStage' = [enteredStage EXCEPT ![selfId[t]] = curStage[t]]
        /\ UNCHANGED <<lastProcEnteringStage, object, locals>>
    BY <1>1 DEF SetStage
  <2>2. TypeOK'
    BY <1>0, <2>1 DEF BaseInv, TypeOK, LoopInv, Climbing, PC, object, locals
  <2>3. LocalInv'
    BY <2>1, LocalFrame DEF PC
  <2>4. NestedInv' /\ LoopInv'
    BY <2>1 DEF BaseInv, TypeOK, NestedInv, LoopInv, Climbing, Waiting, object, locals
  <2>5. FlagInv'
    BY <2>1, OneAtATime DEF BaseInv, TypeOK, FlagInv, Waiting, Inside, object, locals
  <2>6. QED
    BY <2>2, <2>3, <2>4, <2>5 DEF BaseInv
<1>2. CASE SetLast(t)
  <2>1. /\ pc[t] = "setLast" /\ pc' = [pc EXCEPT ![t] = "readStage"]
        /\ lastProcEnteringStage' =
             [lastProcEnteringStage EXCEPT ![curStage[t]] = selfId[t]]
        /\ proc' = [proc EXCEPT ![t] = Other(t, 0)]
        /\ UNCHANGED <<enteredStage, object, curStage>>
    BY <1>2 DEF SetLast
  <2>2. curStage[t] \in Stage
    BY <2>1 DEF BaseInv, LoopInv, Climbing
  <2>3. Other(t, 0) \in Proc /\ Other(t, 0) # selfId[t]
    BY <1>0, <2>2 DEF Other, Proc, Stage
  <2>4. TypeOK'
    BY <1>0, <2>1, <2>3 DEF BaseInv, TypeOK, PC, object
  <2>5. LocalInv'
    BY <2>1, LocalFrame DEF PC
  <2>6. NestedInv' /\ LoopInv'
    BY <2>1, <2>3 DEF BaseInv, TypeOK, NestedInv, LoopInv, Climbing, Waiting, object
  <2>7. FlagInv'
    BY <2>1 DEF BaseInv, TypeOK, FlagInv, Waiting, Inside, object
  <2>8. QED
    BY <2>4, <2>5, <2>6, <2>7 DEF BaseInv
<1>3. QED
  BY <1>1, <1>2

\* So do the reads of the wait loop.
LEMMA ReadBase ==
  ASSUME BaseInv, NEW t \in Thread, ReadStage(t) \/ ReadLast(t)
  PROVE  BaseInv'
<1>1. /\ pc[t] \in Waiting /\ curStage[t] \in Stage
      /\ UNCHANGED <<shared, object>>
      /\ LookAgain(t) \/ AskNext(t) \/ ClimbNext(t) \/ GetIn(t)
  BY ReadCases DEF BaseInv, LoopInv, Waiting, Climbing
<1>2. /\ selfId[t] \in Proc
      /\ \A u \in Thread : pc[u] # "out" /\ selfId[u] = selfId[t] => u = t
      /\ \A p \in Proc : localOwner[p] = NoThread => p # selfId[t]
  BY <1>1, OneAtATime DEF BaseInv, Waiting
<1>3. CASE LookAgain(t)
  <2>1. PICK x \in Waiting : pc' = [pc EXCEPT ![t] = x]
    BY <1>3 DEF LookAgain
  <2>2. UNCHANGED locals
    BY <1>3 DEF LookAgain, locals
  <2>3. TypeOK'
    BY <1>1, <2>1, <2>2 DEF BaseInv, TypeOK, Waiting, PC, shared, object, locals
  <2>4. LocalInv'
    BY <1>1, <2>1, LocalFrame DEF PC, Waiting
  <2>5. NestedInv' /\ LoopInv'
    BY <1>1, <2>1, <2>2
       DEF BaseInv, TypeOK, NestedInv, LoopInv, Climbing, Waiting, object, locals
  <2>6. FlagInv'
    BY <1>1, <2>1, <2>2
       DEF BaseInv, TypeOK, FlagInv, Waiting, Inside, shared, object, locals
  <2>7. QED
    BY <2>3, <2>4, <2>5, <2>6 DEF BaseInv
<1>4. CASE AskNext(t)
  <2>1. PICK q \in Proc : /\ q # selfId[t]
                          /\ proc' = [proc EXCEPT ![t] = q]
                          /\ pc' = [pc EXCEPT ![t] = "readStage"]
                          /\ curStage' = curStage
    BY <1>4 DEF AskNext
  <2>2. TypeOK'
    BY <1>1, <2>1 DEF BaseInv, TypeOK, PC, shared, object
  <2>3. LocalInv'
    BY <1>1, <2>1, LocalFrame DEF PC, Waiting
  <2>4. NestedInv' /\ LoopInv'
    BY <1>1, <2>1
       DEF BaseInv, TypeOK, NestedInv, LoopInv, Climbing, Waiting, object
  <2>5. FlagInv'
    BY <1>1, <2>1
       DEF BaseInv, TypeOK, FlagInv, Waiting, Inside, shared, object
  <2>6. QED
    BY <2>2, <2>3, <2>4, <2>5 DEF BaseInv
<1>5. CASE ClimbNext(t)
  <2>1. /\ curStage[t] + 1 \in Stage
        /\ proc' = [proc EXCEPT ![t] = 0]
        /\ pc' = [pc EXCEPT ![t] = "setStage"]
        /\ curStage' = [curStage EXCEPT ![t] = curStage[t] + 1]
    BY <1>5 DEF ClimbNext
  <2>2. 0 \in Proc /\ curStage[t] \in Int
    BY <1>1, ProcAssumption DEF Proc, Stage
  <2>3. TypeOK'
    BY <1>1, <2>1, <2>2 DEF BaseInv, TypeOK, PC, shared, object
  <2>4. LocalInv'
    BY <1>1, <2>1, LocalFrame DEF PC, Waiting
  <2>5. NestedInv' /\ LoopInv'
    BY <1>1, <2>1
       DEF BaseInv, TypeOK, NestedInv, LoopInv, Climbing, Waiting, object
  <2>6. FlagInv'
    BY <1>1, <1>2, <2>1, <2>2
       DEF BaseInv, TypeOK, FlagInv, Waiting, Inside, shared, object
  <2>7. QED
    BY <2>3, <2>4, <2>5, <2>6 DEF BaseInv
<1>6. CASE GetIn(t)
  <2>1. /\ curStage[t] = NumProcs - 2
        /\ proc' = [proc EXCEPT ![t] = 0]
        /\ pc' = [pc EXCEPT ![t] = "in"]
        /\ curStage' = [curStage EXCEPT ![t] = 0]
    BY <1>6 DEF GetIn
  <2>2. 0 \in Proc
    BY ProcAssumption DEF Proc
  <2>3. TypeOK'
    BY <1>1, <2>1, <2>2 DEF BaseInv, TypeOK, PC, shared, object
  <2>4. LocalInv'
    BY <1>1, <2>1, LocalFrame DEF PC, Waiting
  <2>5. NestedInv' /\ LoopInv'
    BY <1>1, <2>1
       DEF BaseInv, TypeOK, NestedInv, LoopInv, Climbing, Waiting, object
  <2>6. FlagInv'
    BY <1>1, <1>2, <2>1
       DEF BaseInv, TypeOK, FlagInv, Waiting, Inside, shared, object
  <2>7. QED
    BY <2>3, <2>4, <2>5, <2>6 DEF BaseInv
<1>7. QED
  BY <1>1, <1>3, <1>4, <1>5, <1>6

\* And so does leave, which clears the stage before it frees the local gate.
LEMMA LeaveBase ==
  ASSUME BaseInv, NEW t \in Thread, Leave(t) \/ ClearStage(t) \/ LeaveLocal(t)
  PROVE  BaseInv'
<1>1. /\ selfId[t] \in Proc /\ localOwner[selfId[t]] = t
      /\ pc[t] \in {"in", "clearStage", "leaveLocal"}
      /\ \A u \in Thread : pc[u] # "out" /\ selfId[u] = selfId[t] => u = t
      /\ \A p \in Proc : localOwner[p] = NoThread => p # selfId[t]
  BY OneAtATime DEF BaseInv, LocalInv, Leave, ClearStage, LeaveLocal
<1>2. CASE Leave(t)
  <2>1. PICK x \in {"in", "clearStage"} : pc' = [pc EXCEPT ![t] = x]
    BY <1>2 DEF Leave
  <2>2. /\ pc[t] = "in" /\ UNCHANGED <<shared, localOwner, locals>>
        /\ nested' = [nested EXCEPT ![selfId[t]] = nested[selfId[t]] - 1]
        /\ nested[selfId[t]] \in 1..MaxNested
    BY <1>1, <1>2, NestedAssumption DEF Leave, BaseInv, TypeOK, NestedInv
  <2>3. nested'[selfId[t]] = nested[selfId[t]] - 1
    BY <1>1, <2>2 DEF BaseInv, TypeOK
  <2>4. x = IF nested[selfId[t]] - 1 = 0 THEN "clearStage" ELSE "in"
    BY <1>2, <2>1, <2>3 DEF Leave, BaseInv, TypeOK
  <2>5. TypeOK'
    BY <1>1, <2>1, <2>2, NestedAssumption
       DEF BaseInv, TypeOK, PC, shared, locals
  <2>6. LocalInv' /\ LoopInv'
    BY <2>1, <2>2
       DEF BaseInv, TypeOK, LocalInv, LoopInv, Climbing, Waiting, locals
  <2>7. NestedInv'
    BY <1>1, <2>1, <2>2, <2>3, <2>4 DEF BaseInv, TypeOK, NestedInv, Climbing
  <2>8. FlagInv'
    BY <2>1, <2>2 DEF BaseInv, TypeOK, FlagInv, Waiting, Inside, shared, locals
  <2>9. QED
    BY <2>5, <2>6, <2>7, <2>8 DEF BaseInv
<1>3. CASE ClearStage(t)
  <2>1. /\ pc[t] = "clearStage" /\ pc' = [pc EXCEPT ![t] = "leaveLocal"]
        /\ enteredStage' = [enteredStage EXCEPT ![selfId[t]] = NOT_INTERESTED]
        /\ UNCHANGED <<lastProcEnteringStage, object, locals>>
    BY <1>3 DEF ClearStage
  <2>2. TypeOK'
    BY <1>1, <2>1 DEF BaseInv, TypeOK, PC, object, locals
  <2>3. LocalInv'
    BY <2>1, LocalFrame DEF PC
  <2>4. NestedInv' /\ LoopInv'
    BY <2>1 DEF BaseInv, TypeOK, NestedInv, LoopInv, Climbing, Waiting, object, locals
  <2>5. FlagInv'
    BY <1>1, <2>1 DEF BaseInv, TypeOK, FlagInv, Waiting, Inside, object, locals
  <2>6. QED
    BY <2>2, <2>3, <2>4, <2>5 DEF BaseInv
<1>4. CASE LeaveLocal(t)
  <2>1. /\ pc[t] = "leaveLocal" /\ pc' = [pc EXCEPT ![t] = "out"]
        /\ localOwner' = [localOwner EXCEPT ![selfId[t]] = NoThread]
        /\ UNCHANGED <<shared, nested, locals>>
    BY <1>4 DEF LeaveLocal
  <2>2. NoThread \notin Thread /\ selfId \in [Thread -> Proc]
    BY ProcAssumption
  <2>3. TypeOK'
    BY <1>1, <2>1 DEF BaseInv, TypeOK, PC, shared, locals
  <2>4. LocalInv'
    BY <1>1, <2>1, <2>2 DEF BaseInv, TypeOK, LocalInv
  <2>5. NestedInv'
    BY <1>1, <2>1, <2>2 DEF BaseInv, TypeOK, NestedInv, Climbing
  <2>6. LoopInv'
    BY <2>1 DEF BaseInv, TypeOK, LoopInv, Climbing, Waiting, locals
  <2>7. FlagInv'
    BY <1>1, <2>1, <2>2
       DEF BaseInv, TypeOK, FlagInv, Waiting, Inside, shared, locals
  <2>8. QED
    BY <2>3, <2>4, <2>5, <2>6, <2>7 DEF BaseInv
<1>5. QED
  BY <1>2, <1>3, <1>4

\* No step disturbs the parts that concern one thread and its processor.
LEMMA NextBase == BaseInv /\ [Next]_vars => BaseInv'
<1>1. ASSUME BaseInv, UNCHANGED vars PROVE BaseInv'
  BY <1>1 DEF vars, BaseInv, TypeOK, LocalInv, NestedInv, LoopInv, FlagInv
<1>2. ASSUME BaseInv, Next PROVE BaseInv'
  BY ONLY <1>2, EnterBase, AnnounceBase, ReadBase, LeaveBase DEF Next, Step
<1>3. QED
  BY <1>1, <1>2

-----------------------------------------------------------------------------
\* The parts of the invariant that concern the threads at a stage.
StageInv == LastIsAlone /\ LastArrived /\ StageFilters

\* A thread that has arrived at a stage has its local gate, and its processor
\* shows that stage or a higher one.
LEMMA ArrivedFacts ==
  ASSUME BaseInv, NEW k \in Stage, NEW t \in Arrived(k)
  PROVE  /\ t \in Thread /\ pc[t] # "out"
         /\ enteredStage[selfId[t]] >= k
<1>1. t \in Thread /\ pc[t] \in Climbing \cup Inside
  BY DEF Arrived, Passed, Climbing, Waiting, Inside
<1>2. NumProcs \in Nat /\ k \in 0..(NumProcs - 2)
  BY ProcAssumption DEF Stage
<1>3. CASE pc[t] \in Inside
  BY <1>1, <1>2, <1>3 DEF BaseInv, FlagInv, Inside
<1>4. CASE pc[t] \in Climbing
  <2>1. curStage[t] \in Int
    BY <1>1, <1>2, <1>4 DEF BaseInv, LoopInv, Stage
  <2>2. curStage[t] > k \/ (pc[t] \in Waiting /\ curStage[t] = k)
    <3>1. pc[t] \notin {"in", "clearStage"}
      BY <1>4 DEF Climbing
    <3>2. t \in Passed(k) => curStage[t] > k
      BY <3>1 DEF Passed
    <3>3. QED
      BY <3>2 DEF Arrived
  <2>3. /\ pc[t] = "setStage" => enteredStage[selfId[t]] = curStage[t] - 1
        /\ pc[t] # "setStage" => enteredStage[selfId[t]] = curStage[t]
    BY <1>1, <1>4 DEF BaseInv, FlagInv, Climbing, Waiting
  <2>4. CASE pc[t] = "setStage"
    BY <1>1, <1>2, <2>1, <2>2, <2>3, <2>4 DEF Waiting
  <2>5. CASE pc[t] # "setStage"
    BY <1>1, <1>2, <2>1, <2>2, <2>3, <2>5, <1>4 DEF Climbing
  <2>6. QED
    BY <1>1, <2>4, <2>5 DEF Climbing
<1>5. QED
  BY <1>1, <1>3, <1>4

\* Two threads at a stage are of different processors.
LEMMA ArrivedApart ==
  ASSUME BaseInv, NEW k \in Stage, NEW t \in Arrived(k), NEW u \in Arrived(k),
         selfId[t] = selfId[u]
  PROVE  t = u
  BY ArrivedFacts, OneAtATime DEF BaseInv

\* As many threads as there are processors can be past a stage, or climbing.
LEMMA PassedFinite ==
  ASSUME BaseInv, NEW k \in Stage \cup {-1}
  PROVE  IsFiniteSet(Passed(k)) /\ Cardinality(Passed(k)) <= NumProcs
<1> DEFINE f == [t \in Passed(k) |-> selfId[t]]
<1>1. /\ NumProcs \in Nat \ {0} /\ selfId \in [Thread -> Proc]
      /\ Passed(k) \subseteq {t \in Thread : pc[t] # "out"}
  BY ProcAssumption DEF Passed
<1>2. IsFiniteSet(Proc) /\ Cardinality(Proc) = NumProcs
  BY <1>1, FS_Interval DEF Proc
<1>3. f \in Injection(Passed(k), Proc)
  BY <1>1, OneAtATime DEF BaseInv, Injection, IsInjective
<1>4. QED
  BY <1>2, <1>3, FS_Injection

\* Steps that change nothing for the threads at the stages.
Quiet ==
  /\ lastProcEnteringStage' = lastProcEnteringStage
  /\ \A k \in Stage : Passed(k)' = Passed(k) /\ Arrived(k)' = Arrived(k)
  /\ \A k \in Stage : \A t, u \in Thread :
       Cleared(t, selfId[u], k)' => Cleared(t, selfId[u], k)

LEMMA QuietKeeps == StageInv /\ Quiet => StageInv'
<1> SUFFICES ASSUME StageInv, Quiet PROVE StageInv'
  OBVIOUS
<1>1. LastIsAlone'
  BY DEF StageInv, Quiet, LastIsAlone
<1>2. LastArrived'
  BY DEF StageInv, Quiet, LastArrived
<1>3. StageFilters'
  BY DEF StageInv, Quiet, StageFilters
<1>4. QED
  BY <1>1, <1>2, <1>3 DEF StageInv

\* A step that moves thread t, leaving the loops' variables of every thread
\* alone, is quiet when t is on the same side of every stage before and after.
LEMMA SameSideQuiet ==
  ASSUME BaseInv, NEW t \in Thread, UNCHANGED locals,
         lastProcEnteringStage' = lastProcEnteringStage,
         NEW x \in PC, pc' = [pc EXCEPT ![t] = x],
         \/ pc[t] \in Inside /\ x \in Inside
         \/ pc[t] \in Waiting /\ x \in Waiting
         \/ pc[t] \in {"setStage", "setLast"} /\ x \in {"setStage", "setLast"}
         \/ pc[t] = "leaveLocal" /\ x = "out"
         \/ pc[t] = "out" /\ x = "setStage"
         \/ pc[t] = "out" /\ x = "in" /\ Stage = {}
  PROVE  Quiet
<1> SUFFICES ASSUME NEW k \in Stage
             PROVE  /\ Passed(k)' = Passed(k) /\ Arrived(k)' = Arrived(k)
                    /\ \A v, u \in Thread :
                         Cleared(v, selfId[u], k)' => Cleared(v, selfId[u], k)
  BY DEF Quiet
<1>1. pc[t] = "out" => ~(curStage[t] > k)
  BY ProcAssumption DEF BaseInv, LoopInv, Climbing, Stage
<1>2. \A v \in Thread : v # t => pc'[v] = pc[v]
  BY DEF BaseInv, TypeOK
<1>3. pc'[t] = x /\ curStage' = curStage /\ proc' = proc
  BY DEF BaseInv, TypeOK, locals
<1>4. /\ t \in Passed(k)' <=> t \in Passed(k)
      /\ pc'[t] \in Waiting <=> pc[t] \in Waiting
  BY <1>1, <1>3 DEF Passed, Inside, Waiting
<1>5. \A v \in Thread : /\ v \in Passed(k)' <=> v \in Passed(k)
                        /\ pc'[v] \in Waiting <=> pc[v] \in Waiting
  BY <1>2, <1>3, <1>4 DEF Passed
<1>6. Passed(k)' = Passed(k)
  BY <1>5 DEF Passed
<1>7. Arrived(k)' = Arrived(k)
  BY <1>3, <1>5, <1>6 DEF Arrived
<1>8. QED
  BY <1>3, <1>5, <1>6, <1>7 DEF Cleared

\* enter, the store of the stage, a look that ends in another one, leave
\* and the release of the local gate are quiet.
LEMMA QuietSteps ==
  ASSUME BaseInv, NEW t \in Thread,
         \/ Enter(t) \/ SetStage(t) \/ Leave(t) \/ LeaveLocal(t)
         \/ pc[t] \in Waiting /\ UNCHANGED shared /\ LookAgain(t)
  PROVE  Quiet
<1>1. CASE Enter(t)
  <2>1. UNCHANGED <<shared, locals>>
    BY <1>1, EnterCases
  <2>2. CASE pc' = pc
    BY <2>1, <2>2 DEF Quiet, Passed, Arrived, Cleared, shared, locals
  <2>3. CASE pc[t] = "out" /\ pc' = [pc EXCEPT ![t] = AtStage(0)]
    <3>1. AtStage(0) \in PC
      BY StartFacts
    <3>2. \/ AtStage(0) = "setStage"
          \/ AtStage(0) = "in" /\ Stage = {}
      BY StartFacts
    <3>3. QED
      BY <2>1, <2>3, <3>1, <3>2, SameSideQuiet DEF shared
  <2>4. QED
    BY <1>1, <2>2, <2>3, EnterCases
<1>2. CASE SetStage(t)
  BY <1>2, SameSideQuiet DEF SetStage, PC
<1>3. CASE Leave(t)
  <2>1. PICK x \in Inside : pc' = [pc EXCEPT ![t] = x]
    BY <1>3 DEF Leave, Inside
  <2>2. QED
    BY <1>3, <2>1, SameSideQuiet DEF Leave, Inside, PC, shared
<1>4. CASE LeaveLocal(t)
  BY <1>4, SameSideQuiet DEF LeaveLocal, PC, shared
<1>5. CASE pc[t] \in Waiting /\ UNCHANGED shared /\ LookAgain(t)
  <2>1. PICK x \in Waiting : pc' = [pc EXCEPT ![t] = x]
    BY <1>5 DEF LookAgain
  <2>2. QED
    BY <1>5, <2>1, SameSideQuiet DEF LookAgain, Waiting, PC, shared, locals
<1>6. QED
  BY <1>1, <1>2, <1>3, <1>4, <1>5

\* The store of lastProcEnteringStage: t arrives and is the last to do so.
LEMMA SetLastStage ==
  ASSUME BaseInv, BaseInv', StageInv, NEW t \in Thread, SetLast(t)
  PROVE  StageInv'
<1>0. PICK i \in Stage : i = curStage[t]
  BY DEF SetLast, BaseInv, LoopInv, Climbing
<1>1. /\ pc[t] = "setLast" /\ pc' = [pc EXCEPT ![t] = "readStage"]
      /\ lastProcEnteringStage' = [lastProcEnteringStage EXCEPT ![i] = selfId[t]]
      /\ proc' = [proc EXCEPT ![t] = Other(t, 0)]
      /\ curStage' = curStage /\ curStage[t] = i
  BY <1>0 DEF SetLast
<1>2. /\ pc'[t] = "readStage" /\ proc'[t] = Other(t, 0)
      /\ \A v \in Thread : v # t => pc'[v] = pc[v] /\ proc'[v] = proc[v]
      /\ lastProcEnteringStage'[i] = selfId[t]
      /\ \A k \in Stage : k # i =>
           lastProcEnteringStage'[k] = lastProcEnteringStage[k]
  BY <1>1 DEF BaseInv, TypeOK
<1>3. \A k \in Stage : Passed(k)' = Passed(k)
  BY <1>1, <1>2 DEF Passed
<1>4. \A k \in Stage : Arrived(k)' = IF k = i THEN Arrived(k) \cup {t} ELSE Arrived(k)
  BY <1>1, <1>2, <1>3 DEF Arrived, Waiting
<1>5. \A k \in Stage : \A v, u \in Thread :
        (k # i \/ v # t) /\ Cleared(v, selfId[u], k)' => Cleared(v, selfId[u], k)
  BY <1>1, <1>2, <1>3 DEF Cleared, Waiting
<1>6. \A u \in Thread : Cleared(t, selfId[u], i)' => selfId[u] = selfId[t]
  <2>1. t \notin Passed(i)'
    BY <1>1, <1>2, ProcAssumption DEF Passed, Stage
  <2>2. \A u \in Thread : selfId[u] \in 0..(NumProcs - 1) /\ NumProcs \in Nat
    BY ProcAssumption DEF Proc
  <2>3. \A u \in Thread : selfId[u] < Other(t, 0) => selfId[u] = selfId[t]
    BY <2>2 DEF Other
  <2>4. QED
    BY <1>2, <2>1, <2>3 DEF Cleared
<1>7. LastIsAlone'
  <2> SUFFICES ASSUME NEW k \in Stage, NEW v \in Thread, NEW u \in Thread,
                      Cleared(v, selfId[u], k)',
                      lastProcEnteringStage'[k] = selfId[v], u \in Arrived(k)'
               PROVE  v = u
    BY DEF LastIsAlone
  <2>1. CASE k # i
    BY <1>2, <1>4, <1>5, <2>1 DEF StageInv, LastIsAlone
  <2>2. CASE k = i
    <3>1. pc'[v] # "out"
      BY DEF Cleared, Passed, Waiting
    <3>2. v = t
      BY <1>2, <2>2, <3>1 DEF BaseInv, LocalInv
    <3>3. selfId[u] = selfId[t]
      BY <1>6, <2>2, <3>2
    <3>4. pc'[u] # "out"
      BY DEF Arrived, Passed, Waiting
    <3>5. QED
      BY <3>2, <3>3, <3>4, <1>2 DEF BaseInv, LocalInv
  <2>3. QED
    BY <2>1, <2>2
<1>8. LastArrived'
  <2> SUFFICES ASSUME NEW k \in Stage, Arrived(k)' # {}
               PROVE  \E v \in Arrived(k)' : lastProcEnteringStage'[k] = selfId[v]
    BY DEF LastArrived
  <2>1. CASE k = i
    BY <1>2, <1>4, <2>1
  <2>2. CASE k # i
    BY <1>2, <1>4, <2>2 DEF StageInv, LastArrived
  <2>3. QED
    BY <2>1, <2>2
<1>9. StageFilters'
  BY <1>3 DEF StageInv, StageFilters
<1>10. QED
  BY <1>7, <1>8, <1>9 DEF StageInv

\* A wait that ends for the right reason: the processor waited for is below
\* this stage, or another one has arrived after t.
WaitOver(t) ==
  \/ enteredStage[proc[t]] < curStage[t]
  \/ lastProcEnteringStage[curStage[t]] # selfId[t]

\* Whoever t has waited for cannot be at this stage if t is the last arrival.
LEMMA WaitedFor ==
  ASSUME BaseInv, StageInv, NEW t \in Thread, pc[t] \in Waiting, WaitOver(t),
         NEW u \in Arrived(curStage[t]),
         \/ selfId[u] = selfId[t] \/ selfId[u] <= proc[t],
         lastProcEnteringStage[curStage[t]] = selfId[t]
  PROVE  t = u
<1>1. curStage[t] \in Stage /\ pc[t] # "out" /\ t \in Thread
  BY DEF BaseInv, LoopInv, Waiting, Climbing
<1>2. /\ u \in Thread /\ pc[u] # "out"
      /\ enteredStage[selfId[u]] >= curStage[t]
  BY <1>1, ArrivedFacts
<1>3. CASE selfId[u] = selfId[t]
  BY <1>1, <1>2, <1>3, OneAtATime DEF BaseInv
<1>4. CASE selfId[u] = proc[t]
  <2>1. enteredStage[selfId[u]] \in Int /\ curStage[t] \in Int
    BY <1>1, <1>2, ProcAssumption DEF BaseInv, TypeOK, Stage
  <2>2. QED
    BY <1>2, <1>4, <2>1 DEF WaitOver
<1>5. CASE selfId[u] < proc[t]
  BY <1>1, <1>2, <1>5 DEF StageInv, LastIsAlone, Cleared
<1>6. QED
  <2>1. selfId[u] \in Int /\ proc[t] \in Int
    BY <1>2, ProcAssumption DEF BaseInv, TypeOK, Proc
  <2>2. QED
    BY <1>3, <1>4, <1>5, <2>1

\* One more processor that t no longer waits for.
LEMMA AskNextStage ==
  ASSUME BaseInv, StageInv, NEW t \in Thread, pc[t] \in Waiting,
         UNCHANGED shared, WaitOver(t), AskNext(t)
  PROVE  StageInv'
<1>0. PICK i \in Stage : i = curStage[t]
  BY DEF BaseInv, LoopInv, Waiting, Climbing
<1>1. PICK q \in Proc : /\ \A r \in Proc : r < q /\ r # selfId[t] => r <= proc[t]
                        /\ proc' = [proc EXCEPT ![t] = q]
                        /\ pc' = [pc EXCEPT ![t] = "readStage"]
                        /\ curStage' = curStage
  BY DEF AskNext
<1>2. /\ pc'[t] = "readStage" /\ proc'[t] = q
      /\ \A v \in Thread : v # t => pc'[v] = pc[v] /\ proc'[v] = proc[v]
  BY <1>1 DEF BaseInv, TypeOK
<1>3. \A k \in Stage : Passed(k)' = Passed(k)
  BY <1>1, <1>2 DEF Passed, Waiting
<1>4. \A k \in Stage : Arrived(k)' = Arrived(k)
  BY <1>1, <1>2, <1>3 DEF Arrived, Waiting
<1>5. LastIsAlone'
  <2> SUFFICES ASSUME NEW k \in Stage, NEW v \in Thread, NEW u \in Thread,
                      Cleared(v, selfId[u], k)',
                      lastProcEnteringStage[k] = selfId[v], u \in Arrived(k)
               PROVE  v = u
    BY <1>4 DEF LastIsAlone, shared
  <2>1. CASE Cleared(v, selfId[u], k)
    BY <2>1 DEF StageInv, LastIsAlone
  <2>2. CASE ~Cleared(v, selfId[u], k)
    <3>1. v = t /\ k = i /\ selfId[u] < q
      BY <1>0, <1>1, <1>2, <1>3, <2>2 DEF Cleared
    <3>2. selfId[u] \in Proc
      BY ProcAssumption
    <3>3. \/ selfId[u] = selfId[t] \/ selfId[u] <= proc[t]
      BY <1>1, <3>1, <3>2
    <3>4. QED
      BY <1>0, <3>1, <3>3, WaitedFor
  <2>3. QED
    BY <2>1, <2>2
<1>6. LastArrived' /\ StageFilters'
  BY <1>3, <1>4 DEF StageInv, LastArrived, StageFilters, shared
<1>7. QED
  BY <1>5, <1>6 DEF StageInv

\* What it means for the stages that t has waited for all other processors.
LEMMA PassOnFacts ==
  ASSUME BaseInv, NEW t \in Thread, pc[t] \in Waiting,
         ClimbNext(t) \/ GetIn(t), NEW i \in Stage, i = curStage[t]
  PROVE  /\ \A r \in Proc : r # selfId[t] => r <= proc[t]
         /\ \A k \in Stage \cup {-1} :
              Passed(k)' = IF k = i THEN Passed(k) \cup {t} ELSE Passed(k)
         /\ \A k \in Stage : Arrived(k)' = Arrived(k)
         /\ t \in Arrived(i) /\ \A k \in Stage \cup {-1} : k < i => t \in Passed(k)
         /\ \A k \in Stage : \A v \in Thread : \A q \in Proc :
              (v # t \/ k # i) /\ Cleared(v, q, k)' => Cleared(v, q, k)
<1>1. /\ i \in Int /\ NumProcs \in Int
      /\ \A k \in Stage \cup {-1} : k \in Int /\ k <= NumProcs - 2
  BY ProcAssumption DEF Stage
<1>2. /\ \A r \in Proc : r # selfId[t] => r <= proc[t]
      /\ \A v \in Thread : v # t =>
           pc'[v] = pc[v] /\ proc'[v] = proc[v] /\ curStage'[v] = curStage[v]
  BY DEF ClimbNext, GetIn, BaseInv, TypeOK
<1>3. \/ pc'[t] = "setStage" /\ curStage'[t] = i + 1
      \/ pc'[t] = "in" /\ i = NumProcs - 2
  BY DEF ClimbNext, GetIn, BaseInv, TypeOK
<1>4. \A k \in Stage \cup {-1} : t \in Passed(k)' <=> k <= i
  <2> SUFFICES ASSUME NEW k \in Stage \cup {-1} PROVE t \in Passed(k)' <=> k <= i
    OBVIOUS
  <2>1. CASE pc'[t] = "setStage" /\ curStage'[t] = i + 1
    <3>1. t \in Passed(k)' <=> i + 1 > k
      BY <2>1 DEF Passed
    <3>2. QED
      BY <1>1, <3>1
  <2>2. CASE pc'[t] = "in" /\ i = NumProcs - 2
    <3>1. t \in Passed(k)'
      BY <2>2 DEF Passed
    <3>2. QED
      BY <1>1, <2>2, <3>1
  <2>3. QED
    BY <1>3, <2>1, <2>2
<1>5. \A k \in Stage \cup {-1} : t \in Passed(k) <=> k < i
  BY <1>1 DEF Passed, Waiting
<1>6. \A k \in Stage \cup {-1} : \A v \in Thread :
        v # t => (v \in Passed(k)' <=> v \in Passed(k))
  BY <1>2 DEF Passed
<1>7. \A k \in Stage \cup {-1} :
        Passed(k)' = IF k = i THEN Passed(k) \cup {t} ELSE Passed(k)
  <2> TAKE k \in Stage \cup {-1}
  <2>1. Passed(k)' \subseteq Thread /\ Passed(k) \subseteq Thread
    BY DEF Passed
  <2>2. CASE k = i
    BY <1>1, <1>4, <1>6, <2>1, <2>2
  <2>3. CASE k # i
    <3>1. k <= i <=> k < i
      BY <1>1, <2>3
    <3>2. QED
      BY <1>4, <1>5, <1>6, <2>1, <2>3, <3>1
  <2>4. QED
    BY <2>2, <2>3
<1>8. \A k \in Stage : Arrived(k)' = Arrived(k)
  <2> TAKE k \in Stage
  <2>1. Arrived(k)' = Passed(k)' \cup {v \in Thread : v # t /\ pc[v] \in Waiting /\ curStage[v] = k}
    BY <1>2, <1>3 DEF Arrived, Waiting
  <2>2. Arrived(k) = Passed(k) \cup {v \in Thread : pc[v] \in Waiting /\ curStage[v] = k}
    BY DEF Arrived
  <2>3. QED
    BY <1>7, <2>1, <2>2
<1>9. t \in Arrived(i) /\ \A k \in Stage \cup {-1} : k < i => t \in Passed(k)
  BY <1>5 DEF Arrived
<1>10. \A k \in Stage : \A v \in Thread : \A q \in Proc :
         (v # t \/ k # i) /\ Cleared(v, q, k)' => Cleared(v, q, k)
  BY <1>2, <1>3, <1>7 DEF Cleared, Waiting
<1>11. QED
  BY <1>2, <1>7, <1>8, <1>9, <1>10

\* A stage at which everybody has arrived and t is about to be the last to pass
\* has nobody else: the last arrival there overtakes no one.
LEMMA StageHoldsBack ==
  ASSUME BaseInv, StageInv, NEW t \in Thread, pc[t] \in Waiting, WaitOver(t),
         \A r \in Proc : r # selfId[t] => r <= proc[t],
         NEW i \in Stage, i = curStage[t], Arrived(i) \subseteq Passed(i) \cup {t}
  PROVE  Passed(i) \cup {t} \subseteq {t}
<1>1. /\ Passed(i) \cup {t} = Arrived(i)
      /\ Passed(i) \subseteq Thread
  BY DEF Arrived, Passed
<1>2. PICK l \in Arrived(i) : lastProcEnteringStage[i] = selfId[l]
  BY <1>1 DEF StageInv, LastArrived
<1>3. CASE l \in Passed(i)
  <2>1. \A u \in Arrived(i) : l = u
    BY <1>1, <1>2, <1>3 DEF StageInv, LastIsAlone, Cleared
  <2>2. QED
    BY <1>1, <2>1
<1>4. CASE l = t
  <2>1. ASSUME NEW u \in Arrived(i) PROVE u = t
    <3>1. u \in Thread
      BY <1>1
    <3>2. selfId[u] \in Proc
      BY <3>1, ProcAssumption
    <3>3. \/ selfId[u] = selfId[t] \/ selfId[u] <= proc[t]
      BY <3>2
    <3>4. QED
      BY <1>2, <1>4, <3>3, WaitedFor
  <2>2. QED
    BY <1>1, <2>1
<1>5. QED
  BY <1>1, <1>2, <1>3, <1>4

\* The passage to the next stage or into the gate.  Passed(i) grows by t and
\* stays within Passed(i - 1); if it became all of that, StageHoldsBack would
\* leave t alone in it.
LEMMA PassOnStage ==
  ASSUME BaseInv, StageInv, NEW t \in Thread, pc[t] \in Waiting,
         UNCHANGED shared, WaitOver(t), ClimbNext(t) \/ GetIn(t)
  PROVE  StageInv'
<1>0. PICK i \in Stage : i = curStage[t]
  BY DEF BaseInv, LoopInv, Waiting, Climbing
<1>1. /\ \A r \in Proc : r # selfId[t] => r <= proc[t]
      /\ \A k \in Stage \cup {-1} :
           Passed(k)' = IF k = i THEN Passed(k) \cup {t} ELSE Passed(k)
      /\ \A k \in Stage : Arrived(k)' = Arrived(k)
      /\ t \in Arrived(i) /\ \A k \in Stage \cup {-1} : k < i => t \in Passed(k)
      /\ \A k \in Stage : \A v \in Thread : \A q \in Proc :
           (v # t \/ k # i) /\ Cleared(v, q, k)' => Cleared(v, q, k)
  BY <1>0, PassOnFacts
<1>2. LastIsAlone'
  <2> SUFFICES ASSUME NEW k \in Stage, NEW v \in Thread, NEW u \in Thread,
                      Cleared(v, selfId[u], k)',
                      lastProcEnteringStage[k] = selfId[v], u \in Arrived(k)
               PROVE  v = u
    BY <1>1 DEF LastIsAlone, shared
  <2>0. selfId[u] \in Proc
    BY ProcAssumption
  <2>1. CASE v # t \/ k # i
    BY <1>1, <2>0, <2>1 DEF StageInv, LastIsAlone
  <2>2. CASE v = t /\ k = i
    <3>1. selfId[u] = selfId[t] \/ selfId[u] <= proc[t]
      BY <1>1, <2>0
    <3>2. QED
      BY <1>0, <2>2, <3>1, WaitedFor
  <2>3. QED
    BY <2>1, <2>2
<1>3. LastArrived'
  BY <1>1 DEF StageInv, LastArrived, shared
<1>4. StageFilters'
  <2> SUFFICES ASSUME NEW k \in Stage
               PROVE  Cardinality(Passed(k)') <= NumProcs - 1 - k
    BY DEF StageFilters
  <2>1. CASE k # i
    BY <1>1, <2>1 DEF StageInv, StageFilters
  <2>2. CASE k = i
    <3> DEFINE S == Passed(i) \cup {t}
               B == Passed(i - 1)
    <3>1. i - 1 \in Stage \cup {-1} /\ i - 1 < i /\ i <= NumProcs - 2 /\ i \in Nat
      BY ProcAssumption DEF Stage
    <3>2. IsFiniteSet(B) /\ Cardinality(B) <= NumProcs - i
      <4>1. IsFiniteSet(B) /\ Cardinality(B) <= NumProcs
        BY <3>1, PassedFinite
      <4>2. i - 1 \in Stage => Cardinality(B) <= NumProcs - 1 - (i - 1)
        BY DEF StageInv, StageFilters
      <4>3. NumProcs - 1 - (i - 1) = NumProcs - i /\ NumProcs - 0 = NumProcs
        BY <3>1, ProcAssumption
      <4>4. i - 1 = -1 => i = 0
        BY <3>1
      <4>5. QED
        BY <3>1, <4>1, <4>2, <4>3, <4>4
    <3>3. Passed(i) \subseteq B /\ Arrived(i) \subseteq B
      <4>1. \A v \in Thread : pc[v] \in Climbing => curStage[v] \in Int
        BY DEF BaseInv, LoopInv, Stage
      <4>2. \A v \in Thread : pc[v] \in Climbing =>
              /\ curStage[v] > i => curStage[v] > i - 1
              /\ curStage[v] = i => curStage[v] > i - 1
        BY <3>1, <4>1
      <4>3. QED
        BY <4>2 DEF Arrived, Passed, Climbing, Waiting
    <3>4. S \subseteq B
      BY <1>1, <3>1, <3>3
    <3>5. IsFiniteSet(S) /\ Cardinality(S) \in Nat /\ Cardinality(B) \in Nat
      BY <3>2, <3>4, FS_Subset, FS_CardinalityType
    <3>6. CASE S = B
      <4>1. S \subseteq {t}
        BY <1>0, <1>1, <3>3, <3>6, StageHoldsBack
      <4>2. IsFiniteSet({t}) /\ Cardinality({t}) = 1
        BY FS_Singleton
      <4>3. Cardinality(S) <= 1
        BY <4>1, <4>2, FS_Subset
      <4>4. Cardinality(S) <= NumProcs - 1 - i
        BY <3>1, <3>5, <4>3, ProcAssumption
      <4>5. QED
        BY <1>1, <2>2, <4>4
    <3>7. CASE S # B
      <4>1. Cardinality(S) <= Cardinality(B) /\ Cardinality(S) # Cardinality(B)
        BY <3>2, <3>4, <3>7, FS_Subset
      <4>2. Cardinality(S) <= NumProcs - 1 - i
        BY <3>1, <3>2, <3>5, <4>1, ProcAssumption
      <4>3. QED
        BY <1>1, <2>2, <4>2
    <3>8. QED
      BY <3>6, <3>7
  <2>3. QED
    BY <2>1, <2>2
<1>5. QED
  BY <1>2, <1>3, <1>4 DEF StageInv

\* A processor that leaves the gate leaves all stages, and if it was the last
\* arrival at one, it leaves it empty.
LEMMA ClearStageStage ==
  ASSUME BaseInv, StageInv, NEW t \in Thread, ClearStage(t)
  PROVE  StageInv'
<1>1. /\ pc[t] = "clearStage" /\ pc' = [pc EXCEPT ![t] = "leaveLocal"]
      /\ UNCHANGED <<lastProcEnteringStage, locals>>
  BY DEF ClearStage
<1>2. /\ pc'[t] = "leaveLocal"
      /\ \A v \in Thread : v # t => pc'[v] = pc[v]
  BY <1>1 DEF BaseInv, TypeOK
<1>3. \A k \in Stage : t \in Passed(k) /\ Passed(k)' = Passed(k) \ {t}
  BY <1>1, <1>2 DEF Passed, locals
<1>4. \A k \in Stage : Arrived(k)' = Arrived(k) \ {t}
  BY <1>1, <1>2, <1>3 DEF Arrived, Waiting, locals
<1>5. \A k \in Stage : \A v, u \in Thread :
        Cleared(v, selfId[u], k)' => Cleared(v, selfId[u], k)
  BY <1>1, <1>2, <1>3 DEF Cleared, Waiting, locals
<1>6. LastIsAlone'
  BY <1>1, <1>4, <1>5 DEF StageInv, LastIsAlone
<1>7. LastArrived'
  <2> SUFFICES ASSUME NEW k \in Stage, NEW u \in Arrived(k) \ {t}
               PROVE  \E v \in Arrived(k) \ {t} : lastProcEnteringStage[k] = selfId[v]
    BY <1>1, <1>4 DEF LastArrived
  <2>1. PICK v \in Arrived(k) : lastProcEnteringStage[k] = selfId[v]
    BY DEF StageInv, LastArrived
  <2>2. CASE v = t
    <3>1. u = t
      BY <1>3, <2>1, <2>2, ArrivedFacts DEF StageInv, LastIsAlone, Cleared
    <3>2. QED
      BY <3>1
  <2>3. QED
    BY <2>1, <2>2
<1>8. StageFilters'
  <2> SUFFICES ASSUME NEW k \in Stage
               PROVE  Cardinality(Passed(k) \ {t}) <= NumProcs - 1 - k
    BY <1>3 DEF StageFilters
  <2>1. IsFiniteSet(Passed(k)) /\ Cardinality(Passed(k)) <= NumProcs - 1 - k
    BY PassedFinite DEF StageInv, StageFilters
  <2>2. Cardinality(Passed(k) \ {t}) <= Cardinality(Passed(k))
    BY <2>1, FS_Subset
  <2>3. /\ Cardinality(Passed(k)) \in Nat /\ Cardinality(Passed(k) \ {t}) \in Nat
        /\ NumProcs - 1 - k \in Int
    BY <2>1, FS_Subset, FS_CardinalityType, ProcAssumption DEF Stage
  <2>4. QED
    BY <2>1, <2>2, <2>3
<1>9. QED
  BY <1>6, <1>7, <1>8 DEF StageInv

\* At the start no thread is at a stage.
LEMMA InitStage == Init => StageInv
<1> SUFFICES ASSUME Init PROVE StageInv
  OBVIOUS
<1>1. \A k \in Stage : Passed(k) = {} /\ Arrived(k) = {}
  BY DEF Init, Passed, Arrived, Waiting
<1>2. Cardinality({}) = 0 /\ \A k \in Stage : 0 <= NumProcs - 1 - k
  BY FS_EmptySet, ProcAssumption DEF Stage
<1>3. QED
  BY <1>1, <1>2 DEF StageInv, LastIsAlone, LastArrived, StageFilters

\* No step disturbs the parts that concern the threads at a stage.
LEMMA NextStageInv == BaseInv /\ StageInv /\ [Next]_vars => StageInv'
<1> SUFFICES ASSUME BaseInv, StageInv, [Next]_vars PROVE StageInv'
  OBVIOUS
<1>1. ASSUME NEW t \in Thread,
             Enter(t) \/ SetStage(t) \/ Leave(t) \/ LeaveLocal(t)
      PROVE  StageInv'
  BY <1>1, QuietSteps, QuietKeeps
<1>2. ASSUME NEW t \in Thread, ReadStage(t) \/ ReadLast(t)
      PROVE  StageInv'
  <2>1. /\ pc[t] \in Waiting /\ UNCHANGED shared
        /\ \/ LookAgain(t)
           \/ WaitOver(t) /\ (AskNext(t) \/ ClimbNext(t) \/ GetIn(t))
    BY <1>2, ReadCases DEF BaseInv, WaitOver
  <2>2. CASE LookAgain(t)
    BY <2>1, <2>2, QuietSteps, QuietKeeps
  <2>3. CASE WaitOver(t) /\ AskNext(t)
    BY <2>1, <2>3, AskNextStage
  <2>4. CASE WaitOver(t) /\ (ClimbNext(t) \/ GetIn(t))
    BY <2>1, <2>4, PassOnStage
  <2>5. QED
    BY <2>1, <2>2, <2>3, <2>4
<1>3. ASSUME NEW t \in Thread, SetLast(t)
      PROVE  StageInv'
  BY <1>3, SetLastStage, NextBase
<1>4. ASSUME NEW t \in Thread, ClearStage(t)
      PROVE  StageInv'
  BY <1>4, ClearStageStage
<1>5. CASE UNCHANGED vars
  BY <1>5, QuietKeeps
     DEF Quiet, Passed, Arrived, Cleared, vars
<1>6. QED
  BY <1>1, <1>2, <1>3, <1>4, <1>5 DEF Next, Step

-----------------------------------------------------------------------------
\* The inductive invariant holds in every reachable state of
\* GatePetersonN_enter and GatePetersonN_leave.
THEOREM IInvHolds == Spec => []IInv
<1>1. Init => BaseInv /\ StageInv
  BY InitBase, InitStage
<1>2. BaseInv /\ StageInv /\ [Next]_vars => (BaseInv /\ StageInv)'
  BY NextBase, NextStageInv
<1>3. BaseInv /\ StageInv => IInv
  BY DEF BaseInv, StageInv, IInv
<1>4. QED
  BY <1>1, <1>2, <1>3, PTL DEF Spec

\* Two threads in the gate would both be past the last stage, and the filter
\* lets one past that; without stages there is only one processor.
LEMMA IInvExcludes == IInv => MutualExclusion
<1> SUFFICES ASSUME IInv, NEW t \in Thread, NEW u \in Thread,
                    pc[t] = "in", pc[u] = "in"
             PROVE  t = u
  BY DEF MutualExclusion
<1>1. CASE NumProcs = 1
  <2>1. selfId[t] = 0 /\ selfId[u] = 0
    BY <1>1, ProcAssumption DEF Proc
  <2>2. QED
    BY <2>1, OneAtATime DEF IInv
<1>2. CASE NumProcs # 1
  <2> DEFINE k == NumProcs - 2
  <2>1. k \in Stage /\ NumProcs - 1 - k = 1
    BY <1>2, ProcAssumption DEF Stage
  <2>2. BaseInv /\ Cardinality(Passed(k)) <= 1
    BY <2>1 DEF IInv, BaseInv, StageFilters
  <2>3. IsFiniteSet(Passed(k)) /\ Cardinality(Passed(k)) \in Nat
    BY <2>1, <2>2, PassedFinite, FS_CardinalityType
  <2>4. t \in Passed(k) /\ u \in Passed(k)
    BY DEF Passed
  <2>5. Cardinality(Passed(k)) # 0
    BY <2>3, <2>4, FS_EmptySet
  <2>6. Cardinality(Passed(k)) = 1
    BY <2>2, <2>3, <2>5
  <2>7. QED
    BY <2>3, <2>4, <2>6, FS_Singleton
<1>3. QED
  BY <1>1, <1>2

\* The gate's invariant: types, mutual exclusion between the threads of all
\* processors, and the bound that each stage of the loop in
\* GatePetersonN_enter keeps, for any number of processors.
THEOREM InvHolds == Spec => []Inv
<1>1. IInv => Inv
  BY IInvExcludes DEF Inv
<1>2. QED
  BY <1>1, IInvHolds, PTL

\* At most one thread is between a completed GatePetersonN_enter and its
\* GatePetersonN_leave.
THEOREM MutualExclusionHolds == Spec => []MutualExclusion
  BY IInvHolds, IInvExcludes, PTL

\* At most NumProcs - 1 - k processors are past stage k.
THEOREM StageFiltersHolds == Spec => []StageFilters
<1>1. IInv => StageFilters
  BY DEF IInv
<1>2. QED
  BY <1>1, IInvHolds, PTL

-----------------------------------------------------------------------------
\* The abstract gate is held by the thread that is inside, as often as its
\* processor counts.
HolderIs(t) == holder = t /\ depth = nested[selfId[t]]
HolderFree == holder = NoThread /\ depth = 0

LEMMA HolderFacts ==
  ASSUME MutualExclusion
  PROVE  /\ \A t \in Thread : pc[t] = "in" => HolderIs(t)
         /\ (\A t \in Thread : pc[t] # "in") => HolderFree
<1>1. ASSUME NEW t \in Thread, pc[t] = "in"
      PROVE  HolderIs(t)
  <2>1. holder \in Thread /\ pc[holder] = "in"
    BY <1>1 DEF holder
  <2>2. holder = t
    BY <1>1, <2>1 DEF MutualExclusion
  <2>3. QED
    BY <2>2, ProcAssumption DEF depth, HolderIs
<1>2. ASSUME \A t \in Thread : pc[t] # "in"
      PROVE  HolderFree
  BY <1>2 DEF holder, depth, HolderFree
<1>3. QED
  BY <1>1, <1>2

\* The same facts of the state after a step.
LEMMA HolderFactsNext ==
  ASSUME MutualExclusion'
  PROVE  /\ \A t \in Thread : pc'[t] = "in" => holder' = t /\ depth' = nested'[selfId[t]]
         /\ (\A t \in Thread : pc'[t] # "in") => holder' = NoThread /\ depth' = 0
<1>1. ASSUME NEW t \in Thread, pc'[t] = "in"
      PROVE  holder' = t /\ depth' = nested'[selfId[t]]
  <2>1. holder' \in Thread /\ pc'[holder'] = "in"
    BY <1>1 DEF holder
  <2>2. holder' = t
    BY <1>1, <2>1 DEF MutualExclusion
  <2>3. QED
    BY <2>2, ProcAssumption DEF depth
<1>2. ASSUME \A t \in Thread : pc'[t] # "in"
      PROVE  holder' = NoThread /\ depth' = 0
  BY <1>2 DEF holder, depth
<1>3. QED
  BY <1>1, <1>2

\* A step that moves no thread in or out and leaves the count of the thread
\* inside alone is none of the abstract gate.
LEMMA GateStutters ==
  ASSUME MutualExclusion, MutualExclusion',
         \A t \in Thread : pc'[t] = "in" <=> pc[t] = "in",
         \A t \in Thread : pc[t] = "in" => nested'[selfId[t]] = nested[selfId[t]]
  PROVE  UNCHANGED Gate!gateVars
<1>1. CASE \E t \in Thread : pc[t] = "in"
  <2>1. PICK t \in Thread : pc[t] = "in"
    BY <1>1
  <2>2. HolderIs(t) /\ holder' = t /\ depth' = nested'[selfId[t]]
    BY <2>1, HolderFacts, HolderFactsNext
  <2>3. QED
    BY <2>1, <2>2 DEF HolderIs, Gate!gateVars
<1>2. CASE \A t \in Thread : pc[t] # "in"
  <2>1. HolderFree /\ holder' = NoThread /\ depth' = 0
    BY <1>2, HolderFacts, HolderFactsNext
  <2>2. QED
    BY <2>1 DEF HolderFree, Gate!gateVars
<1>3. QED
  BY <1>1, <1>2

\* A step by which t gets in for the first time, with a count of one.  Mutual
\* exclusion after the step shows that nobody was inside before it.
LEMMA GateEntered ==
  ASSUME MutualExclusion, MutualExclusion', NEW t \in Thread,
         pc[t] # "in", pc'[t] = "in", nested'[selfId[t]] = 1,
         \A u \in Thread : u # t => pc'[u] = pc[u]
  PROVE  Gate!GateNext
<1>1. \A u \in Thread : pc[u] # "in"
  BY DEF MutualExclusion
<1>2. holder = NoThread /\ depth = 0
  BY <1>1, HolderFacts DEF HolderFree
<1>3. holder' = t /\ depth' = 1
  BY HolderFactsNext
<1>4. Gate!Enter(t)
  BY <1>2, <1>3 DEF Gate!Enter
<1>5. QED
  BY <1>4 DEF Gate!GateNext

\* GatePetersonN implements the gate its callers rely on, for any number of
\* processors: of its steps only the last one of enter and the first one of
\* leave are seen, as IGate's Enter and Leave.
THEOREM GatePetersonNImplementsGate == Spec => ImplementsGate
<1>1. Init => Gate!GateInit
  BY DEF Init, Gate!GateInit, holder, depth
<1>2. Inv /\ Inv' /\ [Next]_vars => [Gate!GateNext]_(Gate!gateVars)
  <2> SUFFICES ASSUME Inv, Inv', [Next]_vars
               PROVE  Gate!GateNext \/ UNCHANGED Gate!gateVars
    OBVIOUS
  <2>1. /\ MutualExclusion /\ MutualExclusion' /\ BaseInv
        /\ selfId \in [Thread -> Proc] /\ NoThread \notin Thread
    BY ProcAssumption DEF Inv, IInv, BaseInv
  <2>2. ASSUME NEW t \in Thread, Enter(t)
        PROVE  Gate!GateNext \/ UNCHANGED Gate!gateVars
    <3> DEFINE p == selfId[t]
    <3>1. /\ p \in Proc /\ nested[p] \in Nat
          /\ nested' = [nested EXCEPT ![p] = nested[p] + 1]
      BY <2>1, <2>2, EnterCases, NestedAssumption DEF BaseInv, TypeOK
    <3>2. CASE /\ pc[t] = "out" /\ localOwner[p] = NoThread /\ nested[p] = 0
               /\ pc' = [pc EXCEPT ![t] = AtStage(0)]
      <4>1. /\ nested'[p] = 1 /\ pc'[t] = AtStage(0)
            /\ \A u \in Thread : u # t => pc'[u] = pc[u]
        BY <3>1, <3>2, <2>1 DEF BaseInv, TypeOK
      <4>2. CASE AtStage(0) = "in"
        BY <2>1, <3>2, <4>1, <4>2, GateEntered
      <4>3. CASE AtStage(0) # "in"
        <5>1. \A u \in Thread : pc[u] = "in" => selfId[u] # p
          BY <2>1, <3>2 DEF BaseInv, LocalInv
        <5>2. QED
          BY <2>1, <3>1, <3>2, <4>1, <4>3, <5>1, GateStutters DEF BaseInv, TypeOK
      <4>4. QED
        BY <4>2, <4>3
    <3>3. CASE pc[t] = "in" /\ nested[p] >= 1 /\ pc' = pc
      <4>1. nested'[p] = nested[p] + 1
        BY <2>1, <3>1 DEF BaseInv, TypeOK
      <4>2. HolderIs(t) /\ holder' = t /\ depth' = nested'[p]
        BY <2>1, <3>3, HolderFacts, HolderFactsNext
      <4>3. Gate!Enter(t)
        BY <4>1, <4>2 DEF Gate!Enter, HolderIs
      <4>4. QED
        BY <4>3 DEF Gate!GateNext
    <3>4. QED
      BY <2>1, <2>2, <3>2, <3>3, EnterCases
  <2>3. ASSUME NEW t \in Thread, ReadStage(t) \/ ReadLast(t)
        PROVE  Gate!GateNext \/ UNCHANGED Gate!gateVars
    <3>1. /\ pc[t] \in Waiting /\ nested' = nested
          /\ LookAgain(t) \/ AskNext(t) \/ ClimbNext(t) \/ GetIn(t)
      BY <2>1, <2>3, ReadCases DEF BaseInv, object
    <3>2. PICK x \in PC : pc' = [pc EXCEPT ![t] = x]
      BY <3>1 DEF LookAgain, AskNext, ClimbNext, GetIn, PC, Waiting
    <3>3. pc'[t] = x /\ \A u \in Thread : u # t => pc'[u] = pc[u]
      BY <2>1, <3>2 DEF BaseInv, TypeOK
    <3>4. CASE x = "in"
      <4>1. nested[selfId[t]] = 1
        BY <2>1, <3>1 DEF BaseInv, NestedInv, Waiting, Climbing
      <4>2. QED
        BY <2>1, <3>1, <3>3, <3>4, <4>1, GateEntered DEF Waiting
    <3>5. CASE x # "in"
      BY <2>1, <3>1, <3>3, <3>5, GateStutters DEF Waiting
    <3>6. QED
      BY <3>4, <3>5
  <2>4. ASSUME NEW t \in Thread,
               SetStage(t) \/ SetLast(t) \/ ClearStage(t) \/ LeaveLocal(t)
        PROVE  UNCHANGED Gate!gateVars
    <3>1. /\ pc[t] # "in" /\ nested' = nested
          /\ \E x \in PC \ {"in"} : pc' = [pc EXCEPT ![t] = x]
      BY <2>4 DEF SetStage, SetLast, ClearStage, LeaveLocal, PC, object
    <3>2. QED
      BY <2>1, <3>1, GateStutters DEF BaseInv, TypeOK
  <2>5. ASSUME NEW t \in Thread, Leave(t)
        PROVE  Gate!GateNext
    <3> DEFINE p == selfId[t]
    <3>1. /\ pc[t] = "in" /\ p \in Proc /\ nested[p] \in Nat /\ nested[p] >= 1
          /\ nested'[p] = nested[p] - 1
          /\ HolderIs(t)
      BY <2>1, <2>5, HolderFacts, NestedAssumption
         DEF Leave, BaseInv, TypeOK, NestedInv
    <3>2. pc' = [pc EXCEPT ![t] = IF nested'[p] = 0 THEN "clearStage" ELSE "in"]
      BY <2>5 DEF Leave
    <3>3. CASE nested[p] = 1
      <4>1. \A u \in Thread : pc'[u] # "in"
        BY <2>1, <3>1, <3>2, <3>3 DEF BaseInv, TypeOK, MutualExclusion
      <4>2. holder' = NoThread /\ depth' = 0
        BY <2>1, <4>1, HolderFactsNext
      <4>3. QED
        BY <3>1, <3>3, <4>2 DEF Gate!GateNext, Gate!Leave, HolderIs
    <3>4. CASE nested[p] # 1
      <4>1. pc'[t] = "in"
        BY <2>1, <3>1, <3>2, <3>4 DEF BaseInv, TypeOK
      <4>2. holder' = t /\ depth' = nested[p] - 1
        BY <2>1, <3>1, <4>1, HolderFactsNext
      <4>3. QED
        BY <3>1, <3>4, <4>2 DEF Gate!GateNext, Gate!Leave, HolderIs
    <3>5. QED
      BY <3>3, <3>4
  <2>6. CASE UNCHANGED vars
    BY <2>1, <2>6, GateStutters DEF vars
  <2>7. QED
    BY <2>2, <2>3, <2>4, <2>5, <2>6 DEF Next, Step
<1>3. QED
  BY <1>1, <1>2, InvHolds, PTL DEF Spec, ImplementsGate, Gate!GateSpec
=============================================================================
