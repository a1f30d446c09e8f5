------------------------ MODULE SharedMemoryProofs ------------------------
(***************************************************************************)
(* Proofs about the algorithms that processors run on a few shared words.  *)
(* GatePeterson gives mutual exclusion, and implements IGate, for any      *)
(* number of threads and any nesting depth.  NotifyDriverCirc with one     *)
(* sending thread never overwrites an entry that was not read, and         *)
(* implements NotifyFifo, for any number of slots.  ListMP implements      *)
(* IListMP for any number of processors and elements, whatever their       *)
(* caches evict.                                                           *)
(***************************************************************************)
EXTENDS GatePeterson, NotifyDriverCirc, ListMP, FiniteSetTheorems, SequenceTheorems,
        WellFoundedInduction, TLAPS

\* The two sides of a thread are 0 and 1 in some order.
LEMMA SideFacts ==
  ASSUME NEW t \in Thread
  PROVE  /\ selfId(t) \in Side
         /\ otherId(t) \in Side
         /\ otherId(t) # selfId(t)
         /\ \A u \in Thread : selfId(u) # selfId(t) => selfId(u) = otherId(t)
  BY DEF selfId, otherId, Side

\* The invariant holds once the creator has set up the shared memory.
LEMMA InitIInv == Init => IInv
<1> SUFFICES ASSUME Init PROVE IInv
  OBVIOUS
<1>1. TypeOK
  BY NestedAssumption DEF Init, TypeOK, PC, Side
<1>2. LocalInv
  BY ThreadAssumption, SideFacts DEF Init, LocalInv, Thread
<1>3. NestedInv
  BY DEF Init, NestedInv, Thread
<1>4. FlagInv /\ TurnInv
  BY SideFacts DEF Init, FlagInv, TurnInv
<1>5. QED
  BY <1>1, <1>2, <1>3, <1>4 DEF IInv

\* No step of enter or leave, and no open or close, breaks the invariant.
LEMMA NextIInv == IInv /\ [Next]_vars => IInv'
<1> SUFFICES ASSUME IInv, [Next]_vars PROVE IInv'
  OBVIOUS
<1> USE ThreadAssumption, NestedAssumption
<1>1. CASE Open
  BY <1>1 DEF Open, IInv, TypeOK, LocalInv, NestedInv, FlagInv, TurnInv,
              selfId, Thread, Side, PC
<1>2. CASE Close
  <2>1. TypeOK' /\ LocalInv' /\ FlagInv' /\ TurnInv'
    BY <1>2 DEF Close, IInv, TypeOK, LocalInv, FlagInv, TurnInv
  <2>2. NestedInv'
    BY <1>2 DEF Close, IInv, NestedInv
  <2>3. QED
    BY <2>1, <2>2 DEF IInv
<1>3. ASSUME NEW t \in Thread, Enter(t) PROVE IInv'
  <2> DEFINE s == selfId(t)
  <2>1. s \in Side /\ t # NoThread
    BY SideFacts DEF Thread
  <2>2. localOwner' = [localOwner EXCEPT ![s] = t] /\ localOwner[s] \in {NoThread, t}
    BY <1>3 DEF Enter
  <2>3. LocalInv' /\ (pc[t] = "out" => localOwner[s] = NoThread)
    <3>1. PICK x \in {"in", "setFlag"} : pc' = [pc EXCEPT ![t] = x]
      BY <1>3 DEF Enter
    <3>2. pc[t] = "out" => localOwner[s] = NoThread
      BY <2>2 DEF IInv, LocalInv
    <3>3. \A r \in Side : localOwner'[r] # NoThread =>
                           localOwner'[r] \in Thread /\ selfId(localOwner'[r]) = r
      BY <2>1, <2>2 DEF IInv, TypeOK, LocalInv
    <3>4. \A u \in Thread : pc'[u] # "out" <=> localOwner'[selfId(u)] = u
      <4> TAKE u \in Thread
      <4>1. CASE u = t
        BY <2>1, <2>2, <3>1, <4>1 DEF IInv, TypeOK
      <4>2. CASE u # t /\ selfId(u) = s
        BY <2>1, <2>2, <3>1, <4>2 DEF IInv, TypeOK, LocalInv, Thread
      <4>3. CASE u # t /\ selfId(u) # s
        BY <2>1, <2>2, <3>1, <4>3, SideFacts DEF IInv, TypeOK, LocalInv
      <4>4. QED
        BY <4>1, <4>2, <4>3
    <3>5. QED
      BY <3>2, <3>3, <3>4 DEF LocalInv
  <2>4. CASE pc[t] = "out"
    <3>1. nested[s] = 0 /\ flag[s] = "FREE"
      BY <2>1, <2>3, <2>4 DEF IInv, NestedInv, FlagInv
    <3>2. nested' = [nested EXCEPT ![s] = 1] /\ pc' = [pc EXCEPT ![t] = "setFlag"]
      BY <1>3, <2>1, <3>1 DEF Enter, IInv, TypeOK
    <3>3. TypeOK'
      BY <1>3, <2>1, <2>2, <3>2 DEF Enter, IInv, TypeOK, PC
    <3>4. NestedInv'
      BY <1>3, <2>1, <2>2, <2>3, <3>1, <3>2, SideFacts
         DEF Enter, IInv, TypeOK, LocalInv, NestedInv, Thread, selfId
    <3>5. FlagInv' /\ TurnInv'
      BY <1>3, <2>1, <2>2, <2>3, <3>1, <3>2, SideFacts
         DEF Enter, IInv, TypeOK, FlagInv, TurnInv
    <3>6. QED
      BY <2>3, <3>3, <3>4, <3>5 DEF IInv
  <2>5. CASE pc[t] = "in"
    <3>1. nested[s] >= 1 /\ localOwner[s] = t
      BY <2>5 DEF IInv, NestedInv, LocalInv
    <3>2. nested' = [nested EXCEPT ![s] = nested[s] + 1] /\ pc' = pc
      BY <1>3, <2>1, <2>5, <3>1 DEF Enter, IInv, TypeOK
    <3>3. localOwner' = localOwner
      BY <2>1, <2>2, <3>1 DEF IInv, TypeOK
    <3>4. TypeOK'
      BY <1>3, <2>1, <3>1, <3>2, <3>3 DEF Enter, IInv, TypeOK
    <3>5. NestedInv'
      BY <1>3, <2>1, <3>1, <3>2, <3>3, <2>5, SideFacts
         DEF Enter, IInv, TypeOK, LocalInv, NestedInv
    <3>6. FlagInv' /\ TurnInv'
      BY <1>3, <3>2, <3>3 DEF Enter, IInv, FlagInv, TurnInv
    <3>7. QED
      BY <2>3, <3>4, <3>5, <3>6 DEF IInv
  <2>6. QED
    BY <1>3, <2>4, <2>5 DEF Enter
<1>4. ASSUME NEW t \in Thread, SetFlag(t) PROVE IInv'
  BY <1>4, SideFacts
     DEF SetFlag, IInv, TypeOK, LocalInv, NestedInv, FlagInv, TurnInv, PC
<1>5. ASSUME NEW t \in Thread, GiveTurn(t) PROVE IInv'
  <2>1. TypeOK'
    BY <1>5, SideFacts DEF GiveTurn, IInv, TypeOK, NestedInv, PC
  <2>2. LocalInv'
    BY <1>5, SideFacts DEF GiveTurn, IInv, TypeOK, LocalInv
  <2>3. NestedInv'
    BY <1>5, SideFacts DEF GiveTurn, IInv, TypeOK, LocalInv, NestedInv, Thread
  <2>4. FlagInv'
    BY <1>5, SideFacts DEF GiveTurn, IInv, TypeOK, LocalInv, FlagInv
  <2>5. TurnInv'
    BY <1>5, SideFacts DEF GiveTurn, IInv, TypeOK, LocalInv, FlagInv, TurnInv
  <2>6. QED
    BY <2>1, <2>2, <2>3, <2>4, <2>5 DEF IInv
<1>6. ASSUME NEW t \in Thread, ReadFlag(t) PROVE IInv'
  <2>1. TypeOK'
    BY <1>6, SideFacts DEF ReadFlag, IInv, TypeOK, NestedInv, PC
  <2>2. LocalInv'
    BY <1>6, SideFacts DEF ReadFlag, IInv, TypeOK, LocalInv
  <2>3. NestedInv'
    BY <1>6, SideFacts DEF ReadFlag, IInv, TypeOK, LocalInv, NestedInv, Thread
  <2>4. FlagInv'
    BY <1>6, SideFacts DEF ReadFlag, IInv, TypeOK, LocalInv, FlagInv
  <2>5. TurnInv'
    BY <1>6, SideFacts DEF ReadFlag, IInv, TypeOK, LocalInv, FlagInv, TurnInv
  <2>6. QED
    BY <2>1, <2>2, <2>3, <2>4, <2>5 DEF IInv
<1>7. ASSUME NEW t \in Thread, ReadTurn(t) PROVE IInv'
  <2>1. TypeOK'
    BY <1>7, SideFacts DEF ReadTurn, IInv, TypeOK, NestedInv, PC
  <2>2. LocalInv'
    BY <1>7, SideFacts DEF ReadTurn, IInv, TypeOK, LocalInv
  <2>3. NestedInv'
    BY <1>7, SideFacts DEF ReadTurn, IInv, TypeOK, LocalInv, NestedInv, Thread
  <2>4. FlagInv'
    BY <1>7, SideFacts DEF ReadTurn, IInv, TypeOK, LocalInv, FlagInv
  <2>5. TurnInv'
    BY <1>7, SideFacts DEF ReadTurn, IInv, TypeOK, LocalInv, TurnInv, Side
  <2>6. QED
    BY <2>1, <2>2, <2>3, <2>4, <2>5 DEF IInv
<1>8. ASSUME NEW t \in Thread, Leave(t) PROVE IInv'
  <2>1. TypeOK'
    BY <1>8, SideFacts DEF Leave, IInv, TypeOK, NestedInv, PC
  <2>2. LocalInv'
    BY <1>8, SideFacts DEF Leave, IInv, TypeOK, LocalInv
  <2>3. NestedInv'
    BY <1>8, SideFacts DEF Leave, IInv, TypeOK, LocalInv, NestedInv, Thread
  <2>4. FlagInv'
    BY <1>8, SideFacts DEF Leave, IInv, TypeOK, LocalInv, FlagInv
  <2>5. TurnInv'
    BY <1>8, SideFacts DEF Leave, IInv, TypeOK, LocalInv, FlagInv, TurnInv
  <2>6. QED
    BY <2>1, <2>2, <2>3, <2>4, <2>5 DEF IInv
<1>9. ASSUME NEW t \in Thread, ClearFlag(t) PROVE IInv'
  BY <1>9, SideFacts
     DEF ClearFlag, IInv, TypeOK, LocalInv, NestedInv, FlagInv, TurnInv, PC
<1>10. ASSUME NEW t \in Thread, LeaveLocal(t) PROVE IInv'
  <2>1. TypeOK'
    BY <1>10, SideFacts DEF LeaveLocal, IInv, TypeOK, NestedInv, PC
  <2>2. LocalInv'
    BY <1>10, SideFacts DEF LeaveLocal, IInv, TypeOK, LocalInv, Thread
  <2>3. NestedInv'
    BY <1>10, SideFacts DEF LeaveLocal, IInv, TypeOK, LocalInv, NestedInv, Thread
  <2>4. FlagInv'
    BY <1>10, SideFacts DEF LeaveLocal, IInv, TypeOK, LocalInv, FlagInv
  <2>5. TurnInv'
    BY <1>10, SideFacts DEF LeaveLocal, IInv, TypeOK, LocalInv, FlagInv, TurnInv
  <2>6. QED
    BY <2>1, <2>2, <2>3, <2>4, <2>5 DEF IInv
<1>11. CASE UNCHANGED vars
  BY <1>11 DEF vars, IInv, TypeOK, LocalInv, NestedInv, FlagInv, TurnInv
<1>12. QED
  BY <1>1, <1>2, <1>3, <1>4, <1>5, <1>6, <1>7, <1>8, <1>9, <1>10, <1>11
     DEF Next, Step

\* Two threads inside the gate would either share a local gate or both have
\* the turn.
LEMMA IInvExcludes == IInv => MutualExclusion
<1> SUFFICES ASSUME IInv, NEW t \in Thread, NEW u \in Thread,
                    pc[t] = "in", pc[u] = "in"
             PROVE  t = u
  BY DEF MutualExclusion
<1>1. CASE selfId(t) = selfId(u)
  BY <1>1 DEF IInv, LocalInv
<1>2. CASE selfId(t) # selfId(u)
  BY <1>2 DEF IInv, TurnInv
<1>3. QED
  BY <1>1, <1>2

\* The inductive invariant holds in every reachable state of
\* GatePeterson_enter and GatePeterson_leave.
THEOREM IInvHolds == Spec => []IInv
  BY InitIInv, NextIInv, PTL DEF Spec

\* The words in shared memory, the nesting counts and the program counters
\* keep their types.
THEOREM TypeCorrect == Spec => []TypeOK
<1>1. IInv => TypeOK
  BY DEF IInv
<1>2. QED
  BY <1>1, IInvHolds, PTL

\* At most one thread of the two processors is inside the gate at any time
\* (GatePeterson_enter, GatePeterson_leave), for every set of threads.
THEOREM MutualExclusionHolds == Spec => []MutualExclusion
  BY IInvHolds, IInvExcludes, PTL

-----------------------------------------------------------------------------
\* The holder of the abstract gate is the thread that is inside.
LEMMA HolderFacts ==
  ASSUME MutualExclusion
  PROVE  /\ \A t \in Thread : pc[t] = "in" =>
              holder = t /\ depth = nested[selfId(t)]
         /\ (\A t \in Thread : pc[t] # "in") => holder = NoThread /\ depth = 0
<1>1. ASSUME NEW t \in Thread, pc[t] = "in"
      PROVE  holder = t /\ depth = nested[selfId(t)]
  <2>1. holder \in Thread /\ pc[holder] = "in"
    BY <1>1 DEF holder
  <2>2. holder = t
    BY <1>1, <2>1 DEF MutualExclusion
  <2>3. QED
    BY <2>2, ThreadAssumption DEF depth, Thread
<1>2. ASSUME \A t \in Thread : pc[t] # "in"
      PROVE  holder = NoThread /\ depth = 0
  BY <1>2 DEF holder, depth
<1>3. QED
  BY <1>1, <1>2

\* The same facts of the state after a step.
LEMMA HolderFactsNext ==
  ASSUME MutualExclusion'
  PROVE  /\ \A t \in Thread : pc'[t] = "in" =>
              holder' = t /\ depth' = nested'[selfId(t)]
         /\ (\A t \in Thread : pc'[t] # "in") => holder' = NoThread /\ depth' = 0
<1>1. ASSUME NEW t \in Thread, pc'[t] = "in"
      PROVE  holder' = t /\ depth' = nested'[selfId(t)]
  <2>1. holder' \in Thread /\ pc'[holder'] = "in"
    BY <1>1 DEF holder
  <2>2. holder' = t
    BY <1>1, <2>1 DEF MutualExclusion
  <2>3. QED
    BY <2>2, ThreadAssumption DEF depth, Thread, selfId
<1>2. ASSUME \A t \in Thread : pc'[t] # "in"
      PROVE  holder' = NoThread /\ depth' = 0
  BY <1>2 DEF holder, depth
<1>3. QED
  BY <1>1, <1>2

\* GatePeterson implements the gate its callers rely on: of its steps only the
\* last one of enter and the first one of leave are seen, as IGate's Enter
\* and Leave.
THEOREM GatePetersonImplementsGate == Spec => ImplementsGate
<1>1. Init => Gate!GateInit
  BY DEF Init, Gate!GateInit, holder, depth
<1>2. IInv /\ IInv' /\ [Next]_vars => [Gate!GateNext]_(Gate!gateVars)
  <2> SUFFICES ASSUME IInv, IInv', [Next]_vars
               PROVE  Gate!GateNext \/ (holder' = holder /\ depth' = depth)
    BY DEF Gate!gateVars
  <2>1. MutualExclusion /\ MutualExclusion'
    <3>1. MutualExclusion
      BY IInvExcludes
    <3>2. ASSUME NEW t \in Thread, NEW u \in Thread, pc'[t] = "in", pc'[u] = "in"
          PROVE  t = u
      <4>1. CASE selfId(t) = selfId(u)
        BY <3>2, <4>1 DEF IInv, LocalInv, selfId
      <4>2. CASE selfId(t) # selfId(u)
        BY <3>2, <4>2 DEF IInv, TurnInv, selfId
      <4>3. QED
        BY <4>1, <4>2
    <3>3. QED
      BY <3>1, <3>2 DEF MutualExclusion
  <2>2. /\ \A t \in Thread : pc[t] = "in" =>
              holder = t /\ depth = nested[selfId(t)]
        /\ (\A t \in Thread : pc[t] # "in") => holder = NoThread /\ depth = 0
    BY <2>1, HolderFacts
  <2>3. /\ \A t \in Thread : pc'[t] = "in" =>
              holder' = t /\ depth' = nested'[selfId(t)]
        /\ (\A t \in Thread : pc'[t] # "in") => holder' = NoThread /\ depth' = 0
    BY <2>1, HolderFactsNext
  \* A step that moves no thread in or out and leaves the depth alone.
  <2>4. ASSUME \A t \in Thread : pc[t] = "in" <=> pc'[t] = "in",
               \A t \in Thread : pc[t] = "in" =>
                  nested'[selfId(t)] = nested[selfId(t)]
        PROVE  holder' = holder /\ depth' = depth
    BY <2>2, <2>3, <2>4
  \* A step by which t gets in while nobody is inside.
  <2>5. ASSUME NEW t \in Thread, pc[t] \in {"readFlag", "readTurn"}, pc'[t] = "in",
               nested' = nested, \A u \in Thread : u # t => pc'[u] = pc[u]
        PROVE  Gate!GateNext
    <3>1. \A u \in Thread : pc[u] # "in"
      BY <2>1, <2>5 DEF MutualExclusion
    <3>2. holder = NoThread /\ depth = 0
      BY <2>2, <3>1
    <3>3. nested[selfId(t)] = 1
      BY <2>5 DEF IInv, NestedInv
    <3>4. holder' = t /\ depth' = 1
      BY <2>3, <2>5, <3>3
    <3>5. Gate!Enter(t)
      BY <3>2, <3>4 DEF Gate!Enter
    <3>6. QED
      BY <3>5 DEF Gate!GateNext
  <2>6. CASE Open
    BY <2>6, <2>4 DEF Open, IInv, TypeOK, NestedInv, selfId, Thread, Side
  <2>7. CASE Close
    BY <2>7, <2>4 DEF Close
  <2>8. ASSUME NEW t \in Thread, Enter(t)
        PROVE  Gate!GateNext \/ (holder' = holder /\ depth' = depth)
    <3> DEFINE s == selfId(t)
    <3>1. CASE pc[t] = "out"
      <4>1. nested[s] = 0 /\ localOwner[s] = NoThread
        BY <2>8, <3>1, SideFacts DEF Enter, IInv, LocalInv, NestedInv
      <4>2. pc' = [pc EXCEPT ![t] = "setFlag"] /\ nested' = [nested EXCEPT ![s] = 1]
        BY <2>8, <4>1, SideFacts DEF Enter, IInv, TypeOK
      <4>3. \A u \in Thread : pc[u] = "in" => selfId(u) # s
        BY <4>1, ThreadAssumption DEF IInv, LocalInv, Thread
      <4>4. QED
        BY <3>1, <4>2, <4>3, <2>4, SideFacts DEF IInv, TypeOK
    <3>2. CASE pc[t] = "in"
      <4>1. nested[s] >= 1
        BY <3>2 DEF IInv, NestedInv
      <4>2. pc' = pc /\ nested'[s] = nested[s] + 1
        BY <2>8, <3>2, <4>1, SideFacts DEF Enter, IInv, TypeOK
      <4>3. Gate!Enter(t)
        BY <2>2, <2>3, <3>2, <4>2 DEF Gate!Enter
      <4>4. QED
        BY <4>3 DEF Gate!GateNext
    <3>3. QED
      BY <2>8, <3>1, <3>2 DEF Enter
  <2>9. ASSUME NEW t \in Thread, SetFlag(t) \/ GiveTurn(t) \/ ClearFlag(t) \/ LeaveLocal(t)
        PROVE  holder' = holder /\ depth' = depth
    BY <2>9, <2>4 DEF SetFlag, GiveTurn, ClearFlag, LeaveLocal, IInv, TypeOK
  <2>10. ASSUME NEW t \in Thread, ReadFlag(t) \/ ReadTurn(t)
         PROVE  Gate!GateNext \/ (holder' = holder /\ depth' = depth)
    <3>1. CASE pc'[t] = "in"
      BY <2>10, <3>1, <2>5 DEF ReadFlag, ReadTurn, IInv, TypeOK
    <3>2. CASE pc'[t] # "in"
      BY <2>10, <3>2, <2>4 DEF ReadFlag, ReadTurn, IInv, TypeOK
    <3>3. QED
      BY <3>1, <3>2
  <2>11. ASSUME NEW t \in Thread, Leave(t)
         PROVE  Gate!GateNext
    <3> DEFINE s == selfId(t)
    <3>1. holder = t /\ depth = nested[s] /\ nested[s] \in Nat /\ nested[s] >= 1
      BY <2>11, <2>2, SideFacts DEF Leave, IInv, TypeOK, NestedInv
    <3>2. nested'[s] = nested[s] - 1
      BY <2>11, SideFacts DEF Leave, IInv, TypeOK
    <3>3. CASE nested[s] = 1
      <4>1. \A u \in Thread : pc'[u] # "in"
        BY <2>11, <2>1, <3>2, <3>3 DEF Leave, IInv, TypeOK, MutualExclusion
      <4>2. holder' = NoThread /\ depth' = 0
        BY <2>3, <4>1
      <4>3. QED
        BY <3>1, <3>3, <4>2 DEF Gate!GateNext, Gate!Leave
    <3>4. CASE nested[s] # 1
      <4>1. pc'[t] = "in"
        BY <2>11, <3>1, <3>2, <3>4 DEF Leave, IInv, TypeOK
      <4>2. holder' = t /\ depth' = nested[s] - 1
        BY <2>3, <3>2, <4>1
      <4>3. QED
        BY <3>1, <3>4, <4>2 DEF Gate!GateNext, Gate!Leave
    <3>5. QED
      BY <3>3, <3>4
  <2>12. CASE UNCHANGED vars
    BY <2>12, <2>4 DEF vars
  <2>13. QED
    BY <2>6, <2>7, <2>8, <2>9, <2>10, <2>11, <2>12 DEF Next, Step
<1>3. QED
  BY <1>1, <1>2, IInvHolds, PTL DEF Spec, ImplementsGate, Gate!GateSpec

-----------------------------------------------------------------------------
(* The ring of NotifyDriverCirc, for any number of slots and events.       *)

\* A quarter of the slots is at least one.
LEMMA SlotCount == numMsgs \in Nat /\ numMsgs >= 4
BY SlotsAssumption, SMTT(30) DEF modIndex

\* What the remainder is on the two turns of the ring that the code computes with.
LEMMA Modulo ==
  ASSUME NEW i \in 0..(numMsgs - 1)
  PROVE  i % numMsgs = i /\ (i + numMsgs) % numMsgs = i
BY SlotCount, SMTT(30)

\* The next index, and the distance of two, without a remainder.
LEMMA SuccIs ==
  ASSUME NEW i \in Index
  PROVE  /\ Succ(i) \in Index
         /\ Succ(i) = IF i + 1 = numMsgs THEN 0 ELSE i + 1
<1>1. CASE i + 1 = numMsgs
  <2>1. 0 \in 0..(numMsgs - 1) /\ 0 + numMsgs = i + 1
    BY <1>1, SlotCount DEF Index
  <2>2. (0 + numMsgs) % numMsgs = 0
    BY <2>1, Modulo
  <2> QED BY <1>1, <2>1, <2>2 DEF Succ, Index
<1>2. CASE i + 1 # numMsgs
  <2>1. i + 1 \in 0..(numMsgs - 1)
    BY <1>2, SlotCount DEF Index
  <2> QED BY <1>2, <2>1, Modulo DEF Succ, Index
<1> QED BY <1>1, <1>2

LEMMA DistanceIs ==
  ASSUME NEW i \in Index, NEW j \in Index
  PROVE  /\ Distance(i, j) \in Index
         /\ Distance(i, j) = IF i <= j THEN j - i ELSE j + numMsgs - i
<1>1. CASE i <= j
  <2>1. j - i \in 0..(numMsgs - 1) /\ j + numMsgs - i = (j - i) + numMsgs
    BY <1>1, SlotCount DEF Index
  <2> QED BY <1>1, <2>1, Modulo DEF Distance, Index
<1>2. CASE ~(i <= j)
  <2>1. j + numMsgs - i \in 0..(numMsgs - 1)
    BY <1>2, SlotCount DEF Index
  <2> QED BY <1>2, <2>1, Modulo DEF Distance, Index
<1> QED BY <1>1, <1>2

\* From b on, the next index is one further, unless it is b again.
LEMMA SuccFurther ==
  ASSUME NEW b \in Index, NEW i \in Index, Succ(i) # b
  PROVE  Distance(b, Succ(i)) = Distance(b, i) + 1
<1>1. Succ(i) \in Index /\ Succ(i) = IF i + 1 = numMsgs THEN 0 ELSE i + 1
  BY SuccIs
<1>2. Distance(b, i) = IF b <= i THEN i - b ELSE i + numMsgs - b
  BY DistanceIs
<1>3. Distance(b, Succ(i)) =
        IF b <= Succ(i) THEN Succ(i) - b ELSE Succ(i) + numMsgs - b
  BY <1>1, DistanceIs
<1> QED BY <1>1, <1>2, <1>3, SlotCount DEF Index

\* The distance to an index past i is the distance to i and then on.
LEMMA Split ==
  ASSUME NEW b \in Index, NEW i \in Index, NEW j \in Index, Upto(b, i, j)
  PROVE  Distance(i, j) = Distance(b, j) - Distance(b, i)
<1>1. /\ Distance(b, i) = IF b <= i THEN i - b ELSE i + numMsgs - b
      /\ Distance(b, j) = IF b <= j THEN j - b ELSE j + numMsgs - b
      /\ Distance(i, j) = IF i <= j THEN j - i ELSE j + numMsgs - i
  BY DistanceIs
<1> QED BY <1>1, SlotCount DEF Index, Upto

\* What is in order from b on is in order from the first of the three on.
LEMMA FromThere ==
  ASSUME NEW b \in Index, NEW i \in Index, NEW j \in Index, NEW k \in Index,
         Upto(b, i, j), Upto(b, j, k)
  PROVE  Upto(i, j, k)
<1>1. {Distance(b, i), Distance(b, j), Distance(b, k)} \subseteq Index
  BY DistanceIs
<1>2. Upto(b, i, k)
  BY <1>1, SlotCount DEF Index, Upto
<1>3. /\ Distance(i, j) = Distance(b, j) - Distance(b, i)
      /\ Distance(i, k) = Distance(b, k) - Distance(b, i)
  BY <1>2, Split
<1> QED BY <1>1, <1>3, SlotCount DEF Index, Upto

\* An index is known by its distance.
LEMMA SameIndex ==
  ASSUME NEW b \in Index, NEW i \in Index, NEW j \in Index,
         Distance(b, i) = Distance(b, j)
  PROVE  i = j
<1>1. b \in 0..(numMsgs - 1) /\ i \in 0..(numMsgs - 1) /\ j \in 0..(numMsgs - 1)
  BY SlotCount DEF Index
<1>2. CASE b <= i /\ b <= j
  BY <1>1, <1>2, DistanceIs
<1>3. CASE ~(b <= i) /\ ~(b <= j)
  BY <1>1, <1>3, DistanceIs, SlotCount
<1>4. CASE b <= i /\ ~(b <= j)
  <2>1. Distance(b, i) = i - b /\ Distance(b, j) = j + numMsgs - b
    BY <1>4, DistanceIs
  <2>2. i - b = j + numMsgs - b
    BY <2>1
  <2> QED BY <1>1, <2>2, SlotCount
<1>5. CASE ~(b <= i) /\ b <= j
  <2>1. Distance(b, i) = i + numMsgs - b /\ Distance(b, j) = j - b
    BY <1>5, DistanceIs
  <2>2. i + numMsgs - b = j - b
    BY <2>1
  <2> QED BY <1>1, <2>2, SlotCount
<1> QED BY <1>2, <1>3, <1>4, <1>5

-----------------------------------------------------------------------------
LEMMA RingInitTypes == CircInit => CircTypeOK /\ SendingInv
<1>1. 0 \in Index
  BY SlotCount DEF Index
<1> QED BY <1>1 DEF CircInit, CircTypeOK, SendingInv

LEMMA SendTypes ==
  ASSUME CircTypeOK, SendingInv, NEW s \in Sender,
         \/ SenderStep(s)
         \/ \E e \in Event, w \in {"yes", "no"} : sendEvent(s, e, w)
  PROVE  CircTypeOK' /\ SendingInv'
<1>1. Succ(writeIndex) \in Index /\ 0 \in Index
  BY SuccIs, SlotCount DEF Index, CircTypeOK
<1> USE DEF CircTypeOK, SendingInv, indices, isr, taken, receiver, Goto
<1>2. CASE \E e \in Event, w \in {"yes", "no"} : sendEvent(s, e, w)
  BY <1>2 DEF sendEvent
<1>3. CASE Put(s)
  BY <1>1, <1>3 DEF Put
<1>4. CASE Full(s)
  BY <1>1, <1>4 DEF Full, Return
<1>5. CASE Reread(s)
  BY <1>5 DEF Reread
<1>6. CASE Flush(s)
  BY <1>6 DEF Flush
<1>7. CASE IntSend(s)
  BY <1>1, <1>7 DEF IntSend, Return
<1> QED BY <1>2, <1>3, <1>4, <1>5, <1>6, <1>7 DEF SenderStep

LEMMA ReceiveTypes ==
  ASSUME CircTypeOK, SendingInv,
         \/ IsrEnter \/ IsrStep
         \/ \E e \in Event : registerEvent(e) \/ unregisterEvent(e)
         \/ disable \/ enable \/ enableEvent
         \/ EvictWrite \/ EvictRead \/ EvictCachedRead
  PROVE  CircTypeOK' /\ SendingInv'
<1>1. Succ(readIndex) \in Index /\ 0 \in Index
  BY SuccIs, SlotCount DEF Index, CircTypeOK
<1> USE DEF CircTypeOK, SendingInv, indices, senders, isr, taken, receiver
<1>2. CASE IsrEnter \/ IsrRead
  BY <1>2 DEF IsrEnter, IsrRead
<1>3. CASE IsrTake
  BY <1>1, <1>3 DEF IsrTake
<1>4. CASE IsrExit
  BY <1>1, <1>4 DEF IsrExit
<1>5. CASE \E e \in Event : registerEvent(e) \/ unregisterEvent(e)
  BY <1>5 DEF registerEvent, unregisterEvent
<1>6. CASE disable \/ enable \/ enableEvent
  BY <1>6 DEF disable, enable, enableEvent
<1>7. CASE EvictWrite \/ EvictRead \/ EvictCachedRead
  BY <1>7 DEF EvictWrite, EvictRead, EvictCachedRead
<1> QED BY <1>2, <1>3, <1>4, <1>5, <1>6, <1>7 DEF IsrStep

LEMMA RingNextTypes ==
  CircTypeOK /\ SendingInv /\ [CircNext]_circVars => CircTypeOK' /\ SendingInv'
<1>1. CASE UNCHANGED circVars
  BY <1>1 DEF circVars, CircTypeOK, SendingInv, indices, senders, isr, taken, receiver
<1> QED BY <1>1, SendTypes, ReceiveTypes DEF CircNext

\* The indices of NotifyDriverCirc stay in the buffer and every variable keeps its
\* type, for any number of sending threads.
THEOREM CircTypeCorrect == CircSpec => []CircTypeOK
BY RingInitTypes, RingNextTypes, PTL DEF CircSpec

-----------------------------------------------------------------------------
\* Upto is a preorder, with b itself first.
LEMMA UptoFacts ==
  ASSUME NEW b \in Index, NEW i \in Index, NEW j \in Index, NEW k \in Index
  PROVE  /\ Upto(b, i, i) /\ Upto(b, b, i)
         /\ Upto(b, i, j) /\ Upto(b, j, k) => Upto(b, i, k)
<1>1. {Distance(b, b), Distance(b, i), Distance(b, j),
       Distance(b, k)} \subseteq Index
  BY DistanceIs
<1>2. Distance(b, b) = 0
  BY DistanceIs, SlotCount DEF Index
<1> QED BY <1>1, <1>2, SlotCount DEF Index, Upto

\* An index that has not reached j yet may move on by one.
LEMMA SuccUpto ==
  ASSUME NEW b \in Index, NEW i \in Index, NEW j \in Index, Upto(b, i, j), i # j
  PROVE  Upto(b, i, Succ(i)) /\ Upto(b, Succ(i), j)
<1>1. {Distance(b, i), Distance(b, j)} \subseteq 0..(numMsgs - 1)
  BY DistanceIs DEF Index
<1>2. Distance(b, i) < Distance(b, j)
  BY <1>1, SameIndex, SlotCount DEF Upto
<1>3. ASSUME Succ(i) = b PROVE Distance(b, i) = numMsgs - 1
  <2>1. b = IF i + 1 = numMsgs THEN 0 ELSE i + 1
    BY <1>3, SuccIs
  <2>2. Distance(b, i) = IF b <= i THEN i - b ELSE i + numMsgs - b
    BY DistanceIs
  <2> QED BY <2>1, <2>2, SlotCount DEF Index
<1>4. Distance(b, Succ(i)) = Distance(b, i) + 1
  BY <1>1, <1>2, <1>3, SuccFurther, SlotCount
<1> QED BY <1>1, <1>2, <1>4, SlotCount DEF Upto

\* One may start at a later place.
LEMMA RingFrom ==
  ASSUME NEW b \in Index, NEW c \in Index, NEW m \in Index, NEW r \in Index,
         NEW i \in Index, NEW w \in Index, NEW x \in Index, Ring(b, c, m, r, i, w, x)
  PROVE  Ring(c, c, m, r, i, w, x) /\ Ring(m, m, m, r, i, w, x)
<1>1. /\ Upto(b, c, m) /\ Upto(b, m, r) /\ Upto(b, r, i)
      /\ Upto(b, i, w) /\ Upto(b, w, x)
  BY DEF Ring
<1>2. /\ Upto(b, m, r) /\ Upto(b, m, i) /\ Upto(b, m, w)
      /\ Upto(b, c, r) /\ Upto(b, c, i) /\ Upto(b, c, w)
  <2>1. Upto(b, m, i) /\ Upto(b, c, r)
    BY <1>1, UptoFacts
  <2>2. Upto(b, m, w) /\ Upto(b, c, i)
    BY <1>1, <2>1, UptoFacts
  <2>3. Upto(b, c, w)
    BY <1>1, <2>2, UptoFacts
  <2> QED BY <1>1, <2>1, <2>2, <2>3
<1>3. Upto(c, c, m) /\ Upto(m, m, m) /\ Upto(m, m, r)
  BY UptoFacts
<1>4. Upto(c, m, r) /\ Upto(c, r, i) /\ Upto(c, i, w) /\ Upto(c, w, x)
  BY <1>1, <1>2, FromThere
<1>5. Upto(m, r, i) /\ Upto(m, i, w) /\ Upto(m, w, x)
  BY <1>1, <1>2, FromThere
<1> QED BY <1>3, <1>4, <1>5 DEF Ring

LEMMA IndexTypes ==
  ASSUME CircTypeOK, NEW s \in Sender
  PROVE  /\ writeIndex \in Index /\ memWrite \in Index
         /\ readIndex \in Index
         /\ memRead \in Index /\ cachedRead \in Index /\ isrWrite \in Index
         /\ sRead[s] \in Index /\ knownRead(s) \in Index
         /\ seen \in Index
BY DEF CircTypeOK, knownRead, seen

LEMMA InitRing == CircInit => RingInv
<1> SUFFICES ASSUME CircInit, NEW s \in Sender
             PROVE  Ring(knownRead(s), cachedRead, memRead, readIndex,
                         seen, memWrite, writeIndex)
  BY DEF RingInv
<1>1. knownRead(s) = 0 /\ seen = 0
  BY DEF CircInit, knownRead, seen
<1>2. 0 \in Index
  BY SlotCount DEF Index
<1> QED BY <1>1, <1>2, UptoFacts DEF CircInit, Ring

\* A step of the sender looks for room, fills a slot or publishes it.
LEMMA SendRing ==
  ASSUME CircTypeOK, RingInv, NEW s \in Sender,
         \/ SenderStep(s)
         \/ \E e \in Event, w \in {"yes", "no"} : sendEvent(s, e, w)
  PROVE  Ring(knownRead(s)', cachedRead', memRead', readIndex', seen',
              memWrite', writeIndex')
<1> DEFINE b == knownRead(s)
<1>1. /\ writeIndex \in Index /\ memWrite \in Index /\ readIndex \in Index
      /\ memRead \in Index /\ cachedRead \in Index /\ sRead[s] \in Index
      /\ knownRead(s) \in Index /\ seen \in Index
  BY IndexTypes
<1>2. Ring(b, cachedRead, memRead, readIndex, seen, memWrite, writeIndex)
  BY DEF RingInv
<1>3. Ring(cachedRead, cachedRead, memRead, readIndex, seen, memWrite, writeIndex)
  BY <1>1, <1>2, RingFrom
<1>4. Ring(memRead, memRead, memRead, readIndex, seen, memWrite, writeIndex)
  BY <1>1, <1>2, RingFrom
<1>5. /\ memRead' = memRead /\ readIndex' = readIndex /\ seen' = seen
      /\ sPc \in [Sender -> {"idle", "test", "reread", "flush", "intSend"}]
      /\ sRead \in [Sender -> Index]
  BY DEF CircTypeOK, SenderStep, sendEvent, Put, Full, Reread, Flush, IntSend, indices,
         isr, seen
<1>6. CASE \E e \in Event, w \in {"yes", "no"} : sendEvent(s, e, w)
  <2>1. knownRead(s)' = cachedRead /\ UNCHANGED indices
    BY <1>5, <1>6 DEF sendEvent, Goto, knownRead
  <2> QED BY <1>3, <1>5, <2>1 DEF indices
<1>7. CASE Put(s)
  <2>1. /\ b = sRead[s] /\ knownRead(s)' = b /\ cachedRead' = cachedRead
        /\ memWrite' = memWrite
        /\ writeIndex' = Succ(writeIndex) /\ Succ(writeIndex) # b
    BY <1>5, <1>7 DEF Put, Goto, knownRead
  <2>2. Distance(b, writeIndex') = Distance(b, writeIndex) + 1
    BY <1>1, <2>1, SuccFurther
  <2>3. {Distance(b, memWrite), Distance(b, writeIndex)} \subseteq Index
    BY <1>1, DistanceIs
  <2>4. Upto(b, memWrite, writeIndex')
    BY <1>2, <2>2, <2>3, SlotCount DEF Index, Upto, Ring
  <2> HIDE DEF b
  <2> QED BY <1>2, <1>5, <2>1, <2>4 DEF Ring
<1>8. CASE Full(s)
  <2>1. UNCHANGED indices /\ sPc[s] = "test"
    BY <1>8 DEF Full
  <2>2. cachedRead' = cachedRead /\ memWrite' = memWrite /\ writeIndex' = writeIndex
    BY <2>1 DEF indices
  <2>3. CASE Return(s)
    <3>1. knownRead(s)' = cachedRead
      BY <1>5, <2>2, <2>3 DEF Return, Goto, knownRead
    <3> QED BY <1>3, <1>5, <2>2, <3>1
  <2>4. CASE Goto(s, "reread") /\ sRead' = sRead
    <3>1. knownRead(s)' = knownRead(s)
      BY <1>5, <2>1, <2>4 DEF Goto, knownRead
    <3> QED BY <1>2, <1>5, <2>2, <3>1
  <2> QED BY <1>8, <2>3, <2>4 DEF Full
<1>9. CASE Reread(s)
  <2>1. /\ knownRead(s)' = memRead /\ cachedRead' = memRead /\ memWrite' = memWrite
        /\ writeIndex' = writeIndex
    BY <1>5, <1>9 DEF Reread, Goto, knownRead
  <2> QED BY <1>4, <1>5, <2>1
<1>10. CASE Flush(s)
  <2>1. /\ knownRead(s)' = b /\ cachedRead' = cachedRead /\ memWrite' = writeIndex
        /\ writeIndex' = writeIndex
    BY <1>5, <1>10 DEF Flush, Goto, knownRead
  <2>2. Upto(b, seen, writeIndex) /\ Upto(b, writeIndex, writeIndex)
    BY <1>1, <1>2, UptoFacts DEF Ring
  <2> HIDE DEF b
  <2> QED BY <1>2, <1>5, <2>1, <2>2 DEF Ring
<1>11. CASE IntSend(s)
  <2>1. cachedRead' = cachedRead /\ memWrite' = memWrite /\ writeIndex' = writeIndex
    BY <1>11 DEF IntSend, indices
  <2>2. knownRead(s)' = cachedRead
    BY <1>5, <1>11, <2>1 DEF IntSend, Return, Goto, knownRead
  <2> QED BY <1>3, <1>5, <2>1, <2>2
<1> QED BY <1>6, <1>7, <1>8, <1>9, <1>10, <1>11 DEF SenderStep

\* The isr takes entries up to its copy of the write index; the caches may
\* write an index back or fetch it at any time.
LEMMA ReceiveRing ==
  ASSUME CircTypeOK, RingInv, NEW s \in Sender,
         \/ IsrEnter \/ IsrStep
         \/ \E e \in Event : registerEvent(e) \/ unregisterEvent(e)
         \/ disable \/ enable \/ enableEvent
         \/ EvictWrite \/ EvictRead \/ EvictCachedRead
  PROVE  Ring(knownRead(s)', cachedRead', memRead', readIndex', seen',
              memWrite', writeIndex')
<1> DEFINE b == knownRead(s)
<1>1. /\ writeIndex \in Index /\ memWrite \in Index /\ readIndex \in Index
      /\ memRead \in Index /\ cachedRead \in Index /\ isrWrite \in Index
      /\ knownRead(s) \in Index /\ seen \in Index
  BY IndexTypes
<1>2. Ring(b, cachedRead, memRead, readIndex, seen, memWrite, writeIndex)
  BY DEF RingInv
<1>3. /\ Upto(b, cachedRead, memRead) /\ Upto(b, memRead, readIndex)
      /\ Upto(b, readIndex, seen)
      /\ Upto(b, seen, memWrite) /\ Upto(b, memWrite, writeIndex)
  BY <1>2 DEF Ring
<1>4. UNCHANGED <<sPc, sRead, writeIndex>>
  BY DEF IsrEnter, IsrStep, IsrRead, IsrTake, IsrExit, registerEvent, unregisterEvent,
         disable, enable, enableEvent, EvictWrite, EvictRead, EvictCachedRead, indices,
         senders
<1> HIDE DEF b
<1>5. cachedRead' = cachedRead => knownRead(s)' = b
  BY <1>4 DEF knownRead, b
<1>6. CASE \/ IsrEnter \/ IsrExit \/ disable \/ enable
           \/ enableEvent
           \/ \E e \in Event : registerEvent(e) \/ unregisterEvent(e)
  <2>1. UNCHANGED indices
    BY <1>6 DEF IsrEnter, IsrExit, registerEvent, unregisterEvent, disable, enable,
                enableEvent
  <2>2. seen' = seen
    BY <1>6, <2>1 DEF IsrEnter, IsrExit, registerEvent, unregisterEvent, disable,
                      enable, enableEvent, seen, isr, indices
  <2> QED BY <1>2, <1>5, <2>1, <2>2 DEF indices
<1>7. CASE IsrRead
  <2>1. UNCHANGED indices /\ seen' = memWrite /\ seen = readIndex
    BY <1>7 DEF IsrRead, seen
  <2>2. Upto(b, readIndex, memWrite) /\ Upto(b, memWrite, memWrite)
    BY <1>1, <1>3, <2>1, UptoFacts DEF b
  <2> QED BY <1>3, <1>5, <2>1, <2>2 DEF indices, Ring
<1>8. CASE IsrTake
  <2>1. /\ seen' = seen /\ seen # readIndex
        /\ readIndex' = Succ(readIndex)
        /\ memRead' \in {memRead, readIndex'} /\ cachedRead' = cachedRead
        /\ memWrite' = memWrite
    BY <1>8 DEF IsrTake, seen, isr
  <2>2. /\ Upto(b, readIndex, readIndex') /\ Upto(b, readIndex', seen)
        /\ readIndex' \in Index
    BY <1>1, <1>3, <2>1, SuccUpto, SuccIs DEF b
  <2>3. /\ Upto(b, memRead, readIndex') /\ Upto(b, readIndex', readIndex')
        /\ Upto(b, cachedRead, readIndex')
    <3>1. Upto(b, memRead, readIndex') /\ Upto(b, readIndex', readIndex')
      BY <1>1, <1>3, <2>2, UptoFacts DEF b
    <3> QED BY <1>1, <1>3, <2>2, <3>1, UptoFacts DEF b
  <2>4. Upto(b, cachedRead, memRead') /\ Upto(b, memRead', readIndex')
    BY <1>3, <2>1, <2>3
  <2> QED BY <1>3, <1>4, <1>5, <2>1, <2>2, <2>4 DEF Ring
<1>9. CASE EvictWrite
  <2>1. /\ memWrite' = writeIndex /\ seen' = seen /\ readIndex' = readIndex
        /\ memRead' = memRead /\ cachedRead' = cachedRead
    BY <1>9 DEF EvictWrite, seen, isr
  <2>2. Upto(b, seen, writeIndex) /\ Upto(b, writeIndex, writeIndex)
    BY <1>1, <1>3, UptoFacts DEF b
  <2> QED BY <1>3, <1>4, <1>5, <2>1, <2>2 DEF Ring
<1>10. CASE EvictRead
  <2>1. /\ memRead' = readIndex /\ seen' = seen /\ readIndex' = readIndex
        /\ memWrite' = memWrite /\ cachedRead' = cachedRead
    BY <1>10 DEF EvictRead, seen, isr
  <2>2. Upto(b, cachedRead, readIndex) /\ Upto(b, readIndex, readIndex)
    BY <1>1, <1>3, UptoFacts DEF b
  <2> QED BY <1>3, <1>4, <1>5, <2>1, <2>2 DEF Ring
<1>11. CASE EvictCachedRead
  <2>1. /\ cachedRead' = memRead /\ memRead' = memRead /\ seen' = seen
        /\ readIndex' = readIndex
        /\ memWrite' = memWrite
    BY <1>11 DEF EvictCachedRead, seen, isr
  <2>2. CASE sPc[s] = "idle"
    <3>1. knownRead(s)' = memRead
      BY <1>4, <2>1, <2>2 DEF knownRead
    <3>2. Ring(memRead, memRead, memRead, readIndex, seen, memWrite, writeIndex)
      BY <1>1, <1>2, RingFrom DEF b
    <3> QED BY <1>4, <2>1, <3>1, <3>2
  <2>3. CASE sPc[s] # "idle"
    <3>1. knownRead(s)' = b
      BY <1>4, <2>3 DEF knownRead, b
    <3>2. Upto(b, memRead, memRead)
      BY <1>1, UptoFacts DEF b
    <3> QED BY <1>3, <1>4, <2>1, <3>1, <3>2 DEF Ring
  <2> QED BY <2>2, <2>3
<1> QED BY <1>6, <1>7, <1>8, <1>9, <1>10, <1>11 DEF IsrStep

LEMMA NextRing ==
  OneSender /\ CircTypeOK /\ RingInv /\ [CircNext]_circVars => RingInv'
<1> SUFFICES ASSUME OneSender, CircTypeOK, RingInv, [CircNext]_circVars,
                    NEW s \in Sender
             PROVE  Ring(knownRead(s)', cachedRead', memRead', readIndex',
                         seen', memWrite', writeIndex')
  BY DEF RingInv
<1>1. ASSUME NEW r \in Sender,
             \/ SenderStep(r)
             \/ \E e \in Event, w \in {"yes", "no"} : sendEvent(r, e, w)
      PROVE  Ring(knownRead(s)', cachedRead', memRead', readIndex', seen',
                  memWrite', writeIndex')
  <2>1. r = s
    BY DEF OneSender
  <2> QED BY <1>1, <2>1, SendRing
<1>2. CASE UNCHANGED circVars
  <2>1. /\ knownRead(s)' = knownRead(s) /\ seen' = seen
        /\ UNCHANGED indices
    BY <1>2 DEF circVars, senders, indices, isr, knownRead, seen
  <2> QED BY <2>1 DEF RingInv, indices
<1> QED BY <1>1, <1>2, ReceiveRing DEF CircNext

\* sendEvent, the isr and the caches of NotifyDriverCirc with one sending thread:
\* no copy of the read or the write index overtakes the index itself, wherever on
\* the ring they are and whenever a cache line is written back.
THEOREM CircInvHolds ==
  ASSUME OneSender
  PROVE  CircSpec => []CircInv
<1>1. CircInit => CircInv
  BY RingInitTypes, InitRing DEF CircInv
<1>2. CircInv /\ [CircNext]_circVars => CircInv'
  BY RingNextTypes, NextRing DEF CircInv
<1> QED BY <1>1, <1>2, PTL DEF CircSpec

\* When an entry is put in there is a free slot.
LEMMA PutHasRoom ==
  ASSUME CircInv, NEW s \in Sender, Put(s)
  PROVE  Distance(readIndex, writeIndex) + 1 \in Index
<1> DEFINE b == knownRead(s)
<1>1. /\ writeIndex \in Index /\ memWrite \in Index /\ readIndex \in Index
      /\ b \in Index /\ seen \in Index
  BY IndexTypes DEF CircInv
<1>2. Succ(writeIndex) # b
  BY DEF Put, knownRead
<1>3. Ring(b, cachedRead, memRead, readIndex, seen, memWrite, writeIndex)
  BY DEF CircInv, RingInv
<1> HIDE DEF b
<1>4. Distance(b, Succ(writeIndex)) = Distance(b, writeIndex) + 1
  BY <1>1, <1>2, SuccFurther
<1>5. Upto(b, readIndex, writeIndex)
  <2>1. Upto(b, readIndex, memWrite)
    BY <1>1, <1>3, UptoFacts DEF Ring
  <2> QED BY <1>1, <1>3, <2>1, UptoFacts DEF Ring
<1>6. Distance(readIndex, writeIndex) =
        Distance(b, writeIndex) - Distance(b, readIndex)
  BY <1>1, <1>5, Split
<1>7. /\ Distance(b, Succ(writeIndex)) \in Index
      /\ Distance(b, writeIndex) \in Index
      /\ Distance(b, readIndex) \in Index
  BY <1>1, SuccIs, DistanceIs
<1> QED BY <1>4, <1>5, <1>6, <1>7, SlotCount DEF Index, Upto

\* Only Put moves the write index.
LEMMA OnlyPutWrites ==
  ASSUME [CircNext]_circVars, writeIndex' # writeIndex
  PROVE  \E s \in Sender : Put(s)
BY DEF CircNext, SenderStep, sendEvent, Full, Reread, Flush, IntSend, IsrEnter,
       IsrStep, IsrRead, IsrTake, IsrExit, registerEvent, unregisterEvent, disable,
       enable, enableEvent, EvictWrite, EvictRead, EvictCachedRead, indices, circVars

\* sendEvent of one thread puts an entry only into a slot that the isr has read,
\* although what it compares with is an old copy of the read index.
THEOREM NoOverrunHolds ==
  ASSUME OneSender
  PROVE  CircSpec => NoOverrun
<1>1. CircInv /\ [CircNext]_circVars =>
        [writeIndex' # writeIndex =>
           Distance(readIndex, writeIndex) < numMsgs - 1]_circVars
  <2> SUFFICES ASSUME CircInv, [CircNext]_circVars, writeIndex' # writeIndex
               PROVE  Distance(readIndex, writeIndex) < numMsgs - 1
    OBVIOUS
  <2>1. PICK s \in Sender : Put(s)
    BY OnlyPutWrites
  <2>2. /\ Distance(readIndex, writeIndex) + 1 \in Index
        /\ Distance(readIndex, writeIndex) \in Index
    BY <2>1, PutHasRoom, IndexTypes, DistanceIs DEF CircInv
  <2> QED BY <2>2, SlotCount DEF Index
<1> QED BY <1>1, CircInvHolds, PTL DEF CircSpec, NoOverrun

-----------------------------------------------------------------------------
\* The k-th slot from i on.
Slot(i, k) == (i + k - 1) % numMsgs

LEMMA SlotIs ==
  ASSUME NEW i \in Index, NEW k \in 1..numMsgs
  PROVE  /\ Slot(i, k) \in Index
         /\ Slot(i, k) = IF i + k - 1 < numMsgs THEN i + k - 1 ELSE i + k - 1 - numMsgs
<1>1. CASE i + k - 1 < numMsgs
  <2>1. i + k - 1 \in 0..(numMsgs - 1)
    BY <1>1, SlotCount DEF Index
  <2> QED BY <1>1, <2>1, Modulo DEF Slot, Index
<1>2. CASE ~(i + k - 1 < numMsgs)
  <2> DEFINE j == i + k - 1 - numMsgs
  <2>1. j \in 0..(numMsgs - 1) /\ i + k - 1 = j + numMsgs
    BY <1>2, SlotCount DEF Index
  <2> HIDE DEF j
  <2>2. (i + k - 1) % numMsgs = j
    BY <2>1, Modulo
  <2> QED BY <1>2, <2>1, <2>2 DEF Slot, Index, j
<1> QED BY <1>1, <1>2

LEMMA SlotFacts ==
  ASSUME NEW i \in Index, NEW k \in 1..numMsgs
  PROVE  /\ Distance(i, Slot(i, k)) = k - 1
         /\ Slot(i, 1) = i
         /\ k < numMsgs => Slot(Succ(i), k) = Slot(i, k + 1)
<1>1. /\ Slot(i, k) \in Index
      /\ Slot(i, k) = IF i + k - 1 < numMsgs THEN i + k - 1 ELSE i + k - 1 - numMsgs
  BY SlotIs
<1>2. Distance(i, Slot(i, k)) = k - 1
  <2>1. Distance(i, Slot(i, k)) =
          IF i <= Slot(i, k) THEN Slot(i, k) - i ELSE Slot(i, k) + numMsgs - i
    BY <1>1, DistanceIs
  <2> QED BY <1>1, <2>1, SlotCount DEF Index
<1>3. Slot(i, 1) = i
  BY SlotIs, SlotCount DEF Index
<1>4. ASSUME k < numMsgs PROVE Slot(Succ(i), k) = Slot(i, k + 1)
  <2>1. Succ(i) \in Index /\ Succ(i) = IF i + 1 = numMsgs THEN 0 ELSE i + 1
    BY SuccIs
  <2>2. k + 1 \in 1..numMsgs
    BY <1>4, SlotCount
  <2>3. Slot(i, k + 1) = IF i + k < numMsgs THEN i + k ELSE i + k - numMsgs
    BY <2>2, SlotIs, SlotCount DEF Index
  <2>4. Slot(Succ(i), k) =
          IF Succ(i) + k - 1 < numMsgs THEN Succ(i) + k - 1
                                       ELSE Succ(i) + k - 1 - numMsgs
    BY <2>1, SlotIs
  <2> QED BY <2>1, <2>3, <2>4, SlotCount DEF Index
<1> QED BY <1>2, <1>3, <1>4

\* The entries of a buffer B from index i up to index j.
QueueOf(B, i, j) == [k \in 1..Distance(i, j) |-> B[Slot(i, k)]]

LEMMA QueueFacts ==
  ASSUME NEW B \in [Index -> Event \cup {None}], NEW i \in Index, NEW j \in Index
  PROVE  /\ QueueOf(B, i, j) \in Seq(Event \cup {None})
         /\ Len(QueueOf(B, i, j)) = Distance(i, j)
         /\ \A k \in 1..Distance(i, j) : QueueOf(B, i, j)[k] = B[Slot(i, k)]
<1>1. Distance(i, j) \in 0..(numMsgs - 1)
  BY DistanceIs DEF Index
<1> DEFINE d == Distance(i, j)
<1> HIDE DEF d
<1>2. d \in Nat /\ d < numMsgs
  BY <1>1, SlotCount DEF d
<1>3. \A k \in 1..d : B[Slot(i, k)] \in Event \cup {None}
  BY <1>2, SlotIs, SlotCount
<1>4. QueueOf(B, i, j) = [k \in 1..d |-> B[Slot(i, k)]]
  BY DEF QueueOf, d
<1>5. QueueOf(B, i, j) \in Seq(Event \cup {None}) /\ Len(QueueOf(B, i, j)) = d
  BY <1>2, <1>3, <1>4
<1> QED BY <1>4, <1>5 DEF d

LEMMA QueueIs ==
  /\ queue = QueueOf(buffer, readIndex, writeIndex)
  /\ queue' = QueueOf(buffer', readIndex', writeIndex')
BY DEF queue, QueueOf, Slot, Distance

\* An entry that is put in the free slot j is the last one of the queue ...
LEMMA QueuePut ==
  ASSUME NEW B \in [Index -> Event \cup {None}], NEW i \in Index, NEW j \in Index,
         NEW e \in Event, Distance(i, j) + 1 \in Index
  PROVE  QueueOf([B EXCEPT ![j] = e], i, Succ(j)) = Append(QueueOf(B, i, j), e)
<1> DEFINE d == Distance(i, j)
           C == [B EXCEPT ![j] = e]
           q == QueueOf(B, i, j)
           r == QueueOf(C, i, Succ(j))
<1>1. d \in Nat /\ d + 1 < numMsgs
  BY DistanceIs, SlotCount DEF Index
<1>2. Distance(i, Succ(j)) = d + 1 /\ Succ(j) \in Index
  <2>1. Succ(j) # i
    <3> SUFFICES ASSUME Succ(j) = i PROVE FALSE
      OBVIOUS
    <3>1. i = IF j + 1 = numMsgs THEN 0 ELSE j + 1
      BY SuccIs
    <3>2. d = IF i <= j THEN j - i ELSE j + numMsgs - i
      BY DistanceIs
    <3> QED BY <1>1, <3>1, <3>2, SlotCount DEF Index
  <2> QED BY <2>1, SuccFurther, SuccIs
<1>3. C \in [Index -> Event \cup {None}]
  OBVIOUS
<1>4. /\ r \in Seq(Event \cup {None}) /\ Len(r) = d + 1
      /\ \A k \in 1..(d + 1) : r[k] = C[Slot(i, k)]
  <2> HIDE DEF C, d
  <2>1. /\ r \in Seq(Event \cup {None}) /\ Len(r) = Distance(i, Succ(j))
        /\ \A k \in 1..Distance(i, Succ(j)) : r[k] = C[Slot(i, k)]
    BY <1>2, <1>3, QueueFacts
  <2> HIDE DEF r
  <2> QED BY <1>2, <2>1
<1>5. /\ q \in Seq(Event \cup {None}) /\ Len(q) = d
      /\ \A k \in 1..d : q[k] = B[Slot(i, k)]
  BY QueueFacts
<1>6. Slot(i, d + 1) = j
  <2>1. Slot(i, d + 1) \in Index /\ Distance(i, Slot(i, d + 1)) = d
    BY <1>1, SlotIs, SlotFacts, SlotCount
  <2> QED BY <2>1, SameIndex
<1>7. \A k \in 1..d : Slot(i, k) # j /\ Slot(i, k) \in Index
  <2> TAKE k \in 1..d
  <2>1. k \in 1..numMsgs
    BY <1>1, SlotCount
  <2>2. Slot(i, k) \in Index /\ Distance(i, Slot(i, k)) = k - 1
    BY <2>1, SlotIs, SlotFacts
  <2>3. k - 1 # d
    BY <1>1
  <2> QED BY <2>2, <2>3
<1> HIDE DEF d, q, r
<1>8. r[d + 1] = e
  BY <1>1, <1>4, <1>6
<1>9. \A k \in 1..d : r[k] = q[k]
  BY <1>1, <1>4, <1>5, <1>7
<1>10. /\ Append(q, e) \in Seq(Event \cup {None}) /\ Len(Append(q, e)) = d + 1
       /\ Append(q, e)[d + 1] = e
       /\ \A k \in 1..d : Append(q, e)[k] = q[k]
  BY <1>1, <1>5
<1>11. \A k \in 1..(d + 1) : r[k] = Append(q, e)[k]
  BY <1>1, <1>8, <1>9, <1>10
<1>12. r = Append(q, e)
  BY <1>1, <1>4, <1>10, <1>11
<1> QED BY <1>12 DEF q, r

\* ... and the one in slot i the first.
LEMMA QueueGet ==
  ASSUME NEW B \in [Index -> Event \cup {None}], NEW i \in Index, NEW j \in Index, i # j
  PROVE  /\ QueueOf(B, i, j) # <<>>
         /\ Head(QueueOf(B, i, j)) = B[i]
         /\ QueueOf(B, Succ(i), j) = Tail(QueueOf(B, i, j))
<1> DEFINE d == Distance(i, j)
           q == QueueOf(B, i, j)
           r == QueueOf(B, Succ(i), j)
<1>1. d \in Nat /\ d < numMsgs /\ d > 0
  <2>1. Distance(i, i) = 0 /\ d \in 0..(numMsgs - 1)
    <3>1. Distance(i, i) = IF i <= i THEN i - i ELSE i + numMsgs - i
      BY DistanceIs
    <3>2. Distance(i, i) = 0
      BY <3>1 DEF Index
    <3>3. d \in Index
      BY DistanceIs
    <3> QED BY <3>2, <3>3 DEF Index
  <2>2. d # 0
    BY <2>1, SameIndex
  <2> QED BY <2>1, <2>2, SlotCount
<1>2. Succ(i) \in Index /\ Distance(Succ(i), j) = d - 1
  <2>1. Distance(i, Succ(i)) = 1 /\ Succ(i) \in Index
    <3>1. Succ(i) \in Index /\ Succ(i) = IF i + 1 = numMsgs THEN 0 ELSE i + 1
      BY SuccIs
    <3>2. Distance(i, Succ(i)) =
            IF i <= Succ(i) THEN Succ(i) - i ELSE Succ(i) + numMsgs - i
      BY <3>1, DistanceIs
    <3> QED BY <3>1, <3>2, SlotCount DEF Index
  <2>2. Upto(i, Succ(i), j)
    BY <1>1, <2>1 DEF Upto
  <2> QED BY <2>1, <2>2, Split
<1>3. /\ q \in Seq(Event \cup {None}) /\ Len(q) = d
      /\ \A k \in 1..d : q[k] = B[Slot(i, k)]
  BY QueueFacts
<1>4. /\ r \in Seq(Event \cup {None}) /\ Len(r) = d - 1
      /\ \A k \in 1..(d - 1) : r[k] = B[Slot(Succ(i), k)]
  <2> HIDE DEF d
  <2>1. /\ r \in Seq(Event \cup {None}) /\ Len(r) = Distance(Succ(i), j)
        /\ \A k \in 1..Distance(Succ(i), j) : r[k] = B[Slot(Succ(i), k)]
    BY <1>2, QueueFacts
  <2> HIDE DEF r
  <2> QED BY <1>2, <2>1
<1>5. q[1] = B[i]
  BY <1>1, <1>3, SlotFacts, SlotCount
<1>6. \A k \in 1..(d - 1) : r[k] = q[k + 1]
  <2> TAKE k \in 1..(d - 1)
  <2>1. k \in 1..numMsgs /\ k < numMsgs /\ k + 1 \in 1..d
    BY <1>1, SlotCount
  <2>2. Slot(Succ(i), k) = Slot(i, k + 1)
    BY <2>1, SlotFacts
  <2> QED BY <1>3, <1>4, <2>1, <2>2
<1> HIDE DEF d, q, r
<1>7. /\ q # <<>> /\ Head(q) = q[1]
      /\ Tail(q) \in Seq(Event \cup {None}) /\ Len(Tail(q)) = d - 1
      /\ \A k \in 1..(d - 1) : Tail(q)[k] = q[k + 1]
  BY <1>1, <1>3
<1>8. \A k \in 1..(d - 1) : r[k] = Tail(q)[k]
  BY <1>6, <1>7
<1>9. r = Tail(q)
  BY <1>1, <1>4, <1>7, <1>8
<1> QED BY <1>5, <1>7, <1>9 DEF q, r

-----------------------------------------------------------------------------
\* While the isr has entries to take the buffer is not empty.
LEMMA ReadBehind ==
  ASSUME OneSender, CircInv, readIndex # seen
  PROVE  readIndex # writeIndex
<1> SUFFICES ASSUME readIndex = writeIndex PROVE FALSE
  OBVIOUS
<1>1. PICK s \in Sender : TRUE
  BY DEF OneSender
<1> DEFINE b == knownRead(s)
<1>2. /\ memWrite \in Index /\ readIndex \in Index /\ b \in Index
      /\ seen \in Index
  BY IndexTypes DEF CircInv
<1>3. /\ Upto(b, readIndex, seen) /\ Upto(b, seen, memWrite)
      /\ Upto(b, memWrite, readIndex)
  BY DEF CircInv, RingInv, Ring
<1> HIDE DEF b
<1>4. Upto(b, seen, readIndex)
  BY <1>2, <1>3, UptoFacts
<1>5. Distance(b, seen) = Distance(b, readIndex)
  <2>1. /\ Distance(b, seen) \in 0..(numMsgs - 1)
        /\ Distance(b, readIndex) \in 0..(numMsgs - 1)
    BY <1>2, DistanceIs DEF Index
  <2> QED BY <1>3, <1>4, <2>1, SlotCount DEF Upto
<1> QED BY <1>2, <1>5, SameIndex

\* Put is the Put of the queue, IsrTake its Get.
LEMMA FifoStep ==
  ASSUME OneSender, CircInv, CircNext
  PROVE  Fifo!FifoNext \/ UNCHANGED <<queue, given>>
<1>1. /\ writeIndex \in Index /\ readIndex \in Index /\ seen \in Index
      /\ buffer \in [Index -> Event \cup {None}]
  BY DEF CircInv, CircTypeOK, seen
<1>2. ASSUME NEW s \in Sender, Put(s)
      PROVE  Fifo!Put(sEv[s])
  <2>1. /\ buffer' = [buffer EXCEPT ![writeIndex] = sEv[s]]
        /\ writeIndex' = Succ(writeIndex)
        /\ readIndex' = readIndex /\ given' = given /\ sPc[s] # "idle"
    BY <1>2 DEF Put, taken
  <2>2. sEv[s] \in Event
    BY <2>1 DEF CircInv, SendingInv
  <2>3. Distance(readIndex, writeIndex) + 1 \in Index
    BY <1>2, PutHasRoom
  <2>4. queue' = Append(queue, sEv[s])
    BY <1>1, <2>1, <2>2, <2>3, QueueIs, QueuePut
  <2>5. Len(queue) < numMsgs - 1
    <3>1. /\ Len(queue) = Distance(readIndex, writeIndex)
          /\ Distance(readIndex, writeIndex) \in Index
      BY <1>1, QueueIs, QueueFacts, DistanceIs
    <3> QED BY <2>3, <3>1, SlotCount DEF Index
  <2> QED BY <2>1, <2>4, <2>5 DEF Fifo!Put
<1>3. ASSUME IsrTake
      PROVE  Fifo!Get
  <2>1. /\ readIndex # seen /\ given' = buffer[readIndex]
        /\ readIndex' = Succ(readIndex)
        /\ buffer' = buffer /\ writeIndex' = writeIndex
    BY <1>3 DEF IsrTake, seen
  <2>2. readIndex # writeIndex
    BY <1>1, <2>1, ReadBehind
  <2>3. /\ queue # <<>> /\ given' = Head(queue)
        /\ queue' = Tail(queue)
    BY <1>1, <2>1, <2>2, QueueIs, QueueGet
  <2> QED BY <2>3 DEF Fifo!Get
<1>4. CASE UNCHANGED <<buffer, readIndex, writeIndex, given>>
  BY <1>4, QueueIs
<1>5. ASSUME NEW s \in Sender,
             \/ SenderStep(s)
             \/ \E e \in Event, w \in {"yes", "no"} : sendEvent(s, e, w)
      PROVE  (\E e \in Event : Fifo!Put(e))
               \/ UNCHANGED <<buffer, readIndex, writeIndex, given>>
  <2>1. CASE Put(s)
    <3>1. sEv[s] \in Event
      BY <2>1 DEF CircInv, SendingInv, Put
    <3> QED BY <1>2, <2>1, <3>1
  <2>2. CASE ~Put(s)
    BY <1>5, <2>2 DEF SenderStep, sendEvent, Full, Reread, Flush, IntSend, indices,
                      taken
  <2> QED BY <2>1, <2>2
<1>6. CASE IsrTake
  BY <1>3, <1>6 DEF Fifo!FifoNext
<1>7. CASE \/ IsrEnter \/ IsrRead \/ IsrExit
           \/ \E e \in Event : registerEvent(e) \/ unregisterEvent(e)
           \/ disable \/ enable \/ enableEvent
           \/ EvictWrite \/ EvictRead \/ EvictCachedRead
  <2>1. UNCHANGED <<buffer, readIndex, writeIndex, given>>
    BY <1>7 DEF IsrEnter, IsrRead, IsrExit, registerEvent, unregisterEvent, disable,
                enable, enableEvent, EvictWrite, EvictRead, EvictCachedRead, indices,
                taken
  <2> QED BY <1>4, <2>1
<1> QED BY <1>4, <1>5, <1>6, <1>7 DEF CircNext, IsrStep, Fifo!FifoNext

\* NotifyDriverCirc implements the bounded queue of NotifyFifo: sendEvent appends at
\* the end, the isr takes from the front, and everything else is not seen.
THEOREM ImplementsFifoHolds ==
  ASSUME OneSender
  PROVE  CircSpec => ImplementsFifo
<1>1. CircInit => Fifo!FifoInit
  <2> SUFFICES ASSUME CircInit PROVE queue = <<>> /\ given = None
    BY DEF Fifo!FifoInit
  <2>1. /\ readIndex = 0 /\ writeIndex = 0 /\ 0 \in Index
        /\ buffer \in [Index -> Event \cup {None}]
    BY SlotCount DEF CircInit, Index
  <2>2. Distance(0, 0) = 0
    BY <2>1, DistanceIs
  <2>3. queue \in Seq(Event \cup {None}) /\ Len(queue) = 0
    BY <2>1, <2>2, QueueIs, QueueFacts
  <2> QED BY <2>3 DEF CircInit
<1>2. CircInv /\ [CircNext]_circVars =>
        [Fifo!FifoNext]_<<queue, given>>
  <2> SUFFICES ASSUME CircInv, [CircNext]_circVars
               PROVE  Fifo!FifoNext \/ UNCHANGED <<queue, given>>
    OBVIOUS
  <2>1. CASE UNCHANGED circVars
    <3>1. UNCHANGED <<buffer, readIndex, writeIndex, given>>
      BY <2>1 DEF circVars, indices, taken
    <3> QED BY <3>1, QueueIs
  <2> QED BY <2>1, FifoStep
<1> QED BY <1>1, <1>2, CircInvHolds, PTL DEF CircSpec, ImplementsFifo, Fifo!FifoSpec

-----------------------------------------------------------------------------
\* What a processor sees while a call runs.
ViewOK(s) ==
  /\ s \in [mem : [Line -> Links], line : [Line -> CacheLine]]
  /\ \A l \in Line \ CachedLine : s.line[l] = NoLine

\* A line that was only read holds what is in memory.
Fresh(s, l) == s.line[l].state = "clean" => s.line[l].links = s.mem[l]

\* A line of a cache is none, or has links and a dirty bit.
LEMMA LineFacts ==
  ASSUME NEW c \in CacheLine
  PROVE  /\ c.state = "invalid" <=> c = NoLine
         /\ c # NoLine => c.state \in {"clean", "dirty"} /\ c.links \in Links
  BY DEF CacheLine, NoLine

LEMMA NewLine ==
  ASSUME NEW links \in Links, NEW state \in {"clean", "dirty"}
  PROVE  /\ [state |-> state, links |-> links] \in CacheLine
         /\ [state |-> state, links |-> links] # NoLine
  BY DEF CacheLine, NoLine

LEMMA ValType ==
  ASSUME NEW s, ViewOK(s), NEW l \in Line
  PROVE  Val(s, l) \in Links
  BY LineFacts DEF ViewOK, Val

\* A line with these links goes into the cache.
LEMMA CachedView ==
  ASSUME NEW s, ViewOK(s), NEW l \in CachedLine, NEW links \in Links,
         NEW state \in {"clean", "dirty"}
  PROVE  LET r == Cached(s, l, links, state) IN
         /\ ViewOK(r)
         /\ r.mem = s.mem
         /\ r.line[l].state = state /\ r.line[l].links = links /\ r.line[l] # NoLine
         /\ \A m \in Line : m # l => r.line[m] = s.line[m]
         /\ \A m \in Line : Val(r, m) = IF m = l THEN links ELSE Val(s, m)
<1> DEFINE c == [state |-> state, links |-> links]
           r == Cached(s, l, links, state)
<1>1. c \in CacheLine /\ c # NoLine /\ c.state = state /\ c.links = links
  BY NewLine
<1>2. l \in Line
  BY LineAssumption
<1>3. /\ r.mem = s.mem
      /\ r.line = [s.line EXCEPT ![l] = c]
      /\ r \in [mem : [Line -> Links], line : [Line -> CacheLine]]
  <2> HIDE DEF c
  <2>1. r = [s EXCEPT !.line = [s.line EXCEPT ![l] = c]]
    BY DEF Cached, ViewOK, c
  <2>2. [s.line EXCEPT ![l] = c] \in [Line -> CacheLine]
    BY <1>1 DEF ViewOK
  <2>3. QED
    BY <2>1, <2>2 DEF ViewOK
<1> HIDE DEF c, r
<1>4. \A m \in Line : r.line[m] = IF m = l THEN c ELSE s.line[m]
  BY <1>2, <1>3 DEF ViewOK
<1>5. ViewOK(r)
  BY <1>3, <1>4, LineAssumption DEF ViewOK
<1>6. \A m \in Line : Val(r, m) = IF m = l THEN links ELSE Val(s, m)
  BY <1>1, <1>2, <1>3, <1>4 DEF Val
<1>7. QED
  BY <1>1, <1>2, <1>3, <1>4, <1>5, <1>6 DEF r

LEMMA ReadView ==
  ASSUME NEW s, ViewOK(s), NEW l \in Line
  PROVE  LET r == Read(s, l) IN
         /\ ViewOK(r)
         /\ r.mem = s.mem
         /\ \A m \in Line : m # l => r.line[m] = s.line[m]
         /\ \A m \in Line : Val(r, m) = Val(s, m)
         /\ Fresh(s, l) => Fresh(r, l)
         /\ r.line[l].state = "dirty" => s.line[l].state = "dirty"
<1>1. CASE l \in CachedLine /\ s.line[l] = NoLine
  <2>1. s.mem[l] \in Links
    BY DEF ViewOK
  <2>2. Read(s, l) = Cached(s, l, s.mem[l], "clean")
    BY <1>1 DEF Read
  <2>3. Val(s, l) = s.mem[l]
    BY <1>1 DEF Val
  <2>4. QED
    BY <1>1, <2>1, <2>2, <2>3, CachedView DEF Fresh
<1>2. CASE ~(l \in CachedLine /\ s.line[l] = NoLine)
  BY <1>2 DEF Read
<1>3. QED
  BY <1>1, <1>2

LEMMA StoreView ==
  ASSUME NEW s, ViewOK(s), NEW l \in Line, NEW k \in Link, NEW v \in Line
  PROVE  LET r == Store(s, l, k, v) IN
         /\ ViewOK(r)
         /\ Fresh(r, l)
         /\ \A m \in Line : m # l => r.mem[m] = s.mem[m] /\ r.line[m] = s.line[m]
         /\ \A m \in Line, j \in Link :
              Val(r, m)[j] = IF m = l /\ j = k THEN v ELSE Val(s, m)[j]
<1> DEFINE links == [Val(s, l) EXCEPT ![k] = v]
<1>1. links \in Links
  BY ValType DEF Links
<1>2. \A j \in Link : links[j] = IF j = k THEN v ELSE Val(s, l)[j]
  BY ValType DEF Links
<1> SUFFICES LET r == Store(s, l, k, v) IN
             /\ ViewOK(r)
             /\ Fresh(r, l)
             /\ \A m \in Line : m # l => r.mem[m] = s.mem[m] /\ r.line[m] = s.line[m]
             /\ \A m \in Line : Val(r, m) = IF m = l THEN links ELSE Val(s, m)
  <2> DEFINE r == Store(s, l, k, v)
  <2> HIDE DEF links, r
  <2> SUFFICES ASSUME \A m \in Line : Val(r, m) = IF m = l THEN links ELSE Val(s, m)
               PROVE  \A m \in Line, j \in Link :
                        Val(r, m)[j] = IF m = l /\ j = k THEN v ELSE Val(s, m)[j]
    BY DEF r
  <2> QED
    BY <1>2
<1> HIDE DEF links
<1>3. CASE l \in CachedLine
  <2>1. Store(s, l, k, v) = Cached(s, l, links, "dirty")
    BY <1>3 DEF Store, links
  <2> DEFINE r == Cached(s, l, links, "dirty")
  <2>2. /\ ViewOK(r) /\ r.mem = s.mem /\ r.line[l].state = "dirty"
        /\ \A m \in Line : m # l => r.line[m] = s.line[m]
        /\ \A m \in Line : Val(r, m) = IF m = l THEN links ELSE Val(s, m)
    BY <1>1, <1>3, CachedView
  <2> HIDE DEF r
  <2>3. Fresh(r, l)
    BY <2>2 DEF Fresh
  <2>4. QED
    BY <2>1, <2>2, <2>3 DEF r
<1>4. CASE l \notin CachedLine
  <2> DEFINE r == [s EXCEPT !.mem[l] = links]
  <2>1. Store(s, l, k, v) = r
    BY <1>4 DEF Store, links
  <2>2. /\ r.mem = [s.mem EXCEPT ![l] = links]
        /\ r.line = s.line
        /\ r \in [mem : [Line -> Links], line : [Line -> CacheLine]]
    BY <1>1 DEF ViewOK
  <2>3. s.line[l] = NoLine
    BY <1>4 DEF ViewOK
  <2> HIDE DEF r
  <2>4. \A m \in Line : r.mem[m] = IF m = l THEN links ELSE s.mem[m]
    BY <2>2 DEF ViewOK
  <2>5. ViewOK(r)
    BY <2>2 DEF ViewOK
  <2>6. \A m \in Line : Val(r, m) = IF m = l THEN links ELSE Val(s, m)
    BY <2>2, <2>3, <2>4 DEF Val
  <2>7. Fresh(r, l)
    BY <2>2, <2>3 DEF Fresh, NoLine
  <2>8. QED
    BY <2>1, <2>2, <2>4, <2>5, <2>6, <2>7
<1>5. QED
  BY <1>3, <1>4

LEMMA InvView ==
  ASSUME NEW s, ViewOK(s), NEW l \in Line
  PROVE  LET r == Cache_inv(s, l) IN
         /\ ViewOK(r)
         /\ r.mem = s.mem
         /\ r.line[l] = NoLine
         /\ \A m \in Line : m # l => r.line[m] = s.line[m]
         /\ \A m \in Line : Val(r, m) = IF m = l THEN s.mem[l] ELSE Val(s, m)
         /\ Fresh(r, l)
<1> DEFINE r == Cache_inv(s, l)
<1>1. NoLine \in CacheLine /\ NoLine.state = "invalid"
  BY DEF CacheLine, NoLine
<1>2. /\ r.mem = s.mem
      /\ r.line = [s.line EXCEPT ![l] = NoLine]
      /\ r \in [mem : [Line -> Links], line : [Line -> CacheLine]]
  <2> NoLine \in CacheLine
    BY <1>1
  <2> HIDE DEF NoLine
  <2>1. [s.line EXCEPT ![l] = NoLine] \in [Line -> CacheLine]
    BY DEF ViewOK
  <2>2. QED
    BY <2>1 DEF Cache_inv, ViewOK
<1> HIDE DEF r
<1>3. \A m \in Line : r.line[m] = IF m = l THEN NoLine ELSE s.line[m]
  BY <1>2 DEF ViewOK
<1>4. ViewOK(r)
  BY <1>2, <1>3 DEF ViewOK
<1>5. \A m \in Line : Val(r, m) = IF m = l THEN s.mem[l] ELSE Val(s, m)
  BY <1>2, <1>3 DEF Val
<1>6. QED
  BY <1>1, <1>2, <1>3, <1>4, <1>5 DEF r, Fresh

LEMMA WbInvView ==
  ASSUME NEW s, ViewOK(s), NEW l \in Line, Fresh(s, l)
  PROVE  LET r == Cache_wbInv(s, l) IN
         /\ ViewOK(r)
         /\ \A m \in Line : r.mem[m] = IF m = l THEN Val(s, l) ELSE s.mem[m]
         /\ \A m \in Line : r.line[m] = IF m = l THEN NoLine ELSE s.line[m]
         /\ \A m \in Line : Val(r, m) = Val(s, m)
<1> DEFINE w == [s EXCEPT !.mem[l] = Val(s, l)]
           t == IF s.line[l].state = "dirty" THEN w ELSE s
<1>1. /\ w.mem = [s.mem EXCEPT ![l] = Val(s, l)]
      /\ w.line = s.line
      /\ w \in [mem : [Line -> Links], line : [Line -> CacheLine]]
  BY ValType DEF ViewOK
<1>2. s.line[l].state # "dirty" => s.mem[l] = Val(s, l)
  BY LineFacts DEF ViewOK, Fresh, Val
<1> HIDE DEF w
<1>3. ViewOK(t) /\ t.line = s.line
      /\ \A m \in Line : t.mem[m] = IF m = l THEN Val(s, l) ELSE s.mem[m]
  <2>1. ViewOK(w)
    BY <1>1 DEF ViewOK
  <2>2. CASE s.line[l].state = "dirty"
    BY <1>1, <2>1, <2>2 DEF ViewOK
  <2>3. CASE s.line[l].state # "dirty"
    BY <1>2, <2>3
  <2>4. QED
    BY <2>2, <2>3
<1>4. \A m \in Line : m # l => Val(t, m) = Val(s, m)
  BY <1>3 DEF Val
<1>5. Cache_wbInv(s, l) = Cache_inv(t, l)
  BY DEF Cache_wbInv, w
<1> HIDE DEF t
<1>6. LET r == Cache_inv(t, l) IN
      /\ ViewOK(r)
      /\ r.mem = t.mem
      /\ r.line[l] = NoLine
      /\ \A m \in Line : m # l => r.line[m] = t.line[m]
      /\ \A m \in Line : Val(r, m) = IF m = l THEN t.mem[l] ELSE Val(t, m)
  BY <1>3, InvView
<1> DEFINE r == Cache_inv(t, l)
<1> HIDE DEF r
<1>7. QED
  BY <1>3, <1>4, <1>5, <1>6 DEF r

-----------------------------------------------------------------------------
\* What a processor sees before a call, and once it has read the head.
LEMMA StartView ==
  ASSUME ListInv, NEW p \in Proc
  PROVE  /\ ViewOK(View(p))
         /\ View(p).mem = mem /\ View(p).line = cache[p]
         /\ \A e \in OnList : cache[p][e] = NoLine
<1>1. View(p) \in [mem : [Line -> Links], line : [Line -> CacheLine]]
  BY DEF ListInv, ListTypeOK, View
<1>2. View(p).mem = mem /\ View(p).line = cache[p]
  BY DEF View
<1>3. \A l \in Line \ CachedLine : cache[p][l] = NoLine
  BY DEF ListInv, CacheInv
<1>4. \A e \in OnList : cache[p][e] = NoLine
  BY LineAssumption DEF ListInv, CacheInv, OnList, Line
<1>5. QED
  BY <1>1, <1>2, <1>3, <1>4 DEF ViewOK

LEMMA HeadLine ==
  Head_ \in Line /\ Head_ \notin Elem /\ Elem \subseteq Line
  BY LineAssumption DEF Line

LEMMA HeadView ==
  ASSUME ListInv, NEW p \in Proc
  PROVE  LET s == Read(InvAttrs(View(p), p), Head_) IN
         /\ ViewOK(s)
         /\ s.mem = mem
         /\ Fresh(s, Head_) /\ s.line[Head_].state # "dirty"
         /\ Val(s, Head_) = mem[Head_]
         /\ \A m \in Line : m # Head_ => s.line[m] = cache[p][m]
<1> DEFINE v == View(p)
           i == InvAttrs(v, p)
<1>1. ViewOK(v) /\ v.mem = mem /\ v.line = cache[p]
  BY StartView
<1> HIDE DEF v
<1>2. ViewOK(i) /\ i.mem = mem /\ i.line[Head_] = NoLine
      /\ \A m \in Line : m # Head_ => i.line[m] = cache[p][m]
  <2>1. CASE p \in Arm
    BY <1>1, <2>1, InvView, HeadLine DEF InvAttrs
  <2>2. CASE p \notin Arm
    <3>1. cache[p][Head_] = NoLine
      BY <2>2, HeadLine DEF ListInv, CacheInv
    <3>2. QED
      BY <1>1, <2>2, <3>1 DEF InvAttrs
  <2>3. QED
    BY <2>1, <2>2
<1> HIDE DEF i
<1>3. Fresh(i, Head_) /\ Val(i, Head_) = mem[Head_] /\ i.line[Head_].state # "dirty"
  BY <1>2 DEF Fresh, NoLine, Val
<1>4. QED
  BY <1>2, <1>3, ReadView, HeadLine DEF i, v

\* A view that differs from that before the call in the lines T only.
Sees(s, p, T) ==
  /\ ViewOK(s)
  /\ \A m \in Line \ T : s.mem[m] = mem[m] /\ s.line[m] = cache[p][m]

\* What a store to line l, dropping or reading it, and writing it back make of
\* a view s: the view r.
StoreTo(s, r, p, T, l, k, v) ==
  /\ Sees(r, p, T)
  /\ Fresh(r, l)
  /\ \A m \in Line : Fresh(s, m) => Fresh(r, m)
  /\ \A m \in Line, j \in Link :
       Val(r, m)[j] = IF m = l /\ j = k THEN v ELSE Val(s, m)[j]

InvTo(s, r, p, T, l) ==
  /\ Sees(r, p, T)
  /\ Fresh(r, l)
  /\ \A m \in Line : r.mem[m] = s.mem[m]
  /\ \A m \in Line : Fresh(s, m) => Fresh(r, m)
  /\ \A m \in Line : Val(r, m) = IF m = l THEN s.mem[l] ELSE Val(s, m)

ReadTo(s, r, p, T, l) ==
  /\ Sees(r, p, T)
  /\ \A m \in Line : r.mem[m] = s.mem[m]
  /\ \A m \in Line : Fresh(s, m) => Fresh(r, m)
  /\ \A m \in Line : Val(r, m) = Val(s, m)

WbInvTo(s, r, p, T, l) ==
  /\ Sees(r, p, T)
  /\ r.line[l] = NoLine
  /\ \A m \in Line : s.line[m] = NoLine => r.line[m] = NoLine
  /\ \A m \in Line : Fresh(s, m) => Fresh(r, m)
  /\ \A m \in Line : Val(r, m) = Val(s, m)

LEMMA StoreSees ==
  ASSUME NEW p, NEW T, T \subseteq Line, NEW s, Sees(s, p, T), NEW l \in T,
         NEW k \in Link, NEW v \in Line
  PROVE  StoreTo(s, Store(s, l, k, v), p, T, l, k, v)
<1> DEFINE r == Store(s, l, k, v)
<1>1. ViewOK(s) /\ l \in Line
  BY DEF Sees
<1>2. /\ ViewOK(r)
      /\ Fresh(r, l)
      /\ \A m \in Line : m # l => r.mem[m] = s.mem[m] /\ r.line[m] = s.line[m]
      /\ \A m \in Line, j \in Link :
           Val(r, m)[j] = IF m = l /\ j = k THEN v ELSE Val(s, m)[j]
  BY <1>1, StoreView
<1> HIDE DEF r
<1>3. Sees(r, p, T)
  BY <1>2 DEF Sees
<1>4. \A m \in Line : Fresh(s, m) => Fresh(r, m)
  BY <1>2 DEF Fresh
<1>5. QED
  BY <1>2, <1>3, <1>4 DEF r, StoreTo

LEMMA InvSees ==
  ASSUME NEW p, NEW T, T \subseteq Line, NEW s, Sees(s, p, T), NEW l \in T
  PROVE  InvTo(s, Cache_inv(s, l), p, T, l)
<1> DEFINE r == Cache_inv(s, l)
<1>1. ViewOK(s) /\ l \in Line
  BY DEF Sees
<1>2. /\ ViewOK(r)
      /\ r.mem = s.mem
      /\ r.line[l] = NoLine
      /\ \A m \in Line : m # l => r.line[m] = s.line[m]
      /\ \A m \in Line : Val(r, m) = IF m = l THEN s.mem[l] ELSE Val(s, m)
      /\ Fresh(r, l)
  BY <1>1, InvView
<1> HIDE DEF r
<1>3. Sees(r, p, T)
  BY <1>2 DEF Sees
<1>4. \A m \in Line : Fresh(s, m) => Fresh(r, m)
  BY <1>2 DEF Fresh
<1>5. QED
  BY <1>2, <1>3, <1>4 DEF r, InvTo

LEMMA ReadSees ==
  ASSUME NEW p, NEW T, T \subseteq Line, NEW s, Sees(s, p, T), NEW l \in T
  PROVE  ReadTo(s, Read(s, l), p, T, l)
<1> DEFINE r == Read(s, l)
<1>1. ViewOK(s) /\ l \in Line
  BY DEF Sees
<1>2. /\ ViewOK(r)
      /\ r.mem = s.mem
      /\ \A m \in Line : m # l => r.line[m] = s.line[m]
      /\ \A m \in Line : Val(r, m) = Val(s, m)
      /\ Fresh(s, l) => Fresh(r, l)
  BY <1>1, ReadView
<1> HIDE DEF r
<1>3. Sees(r, p, T)
  BY <1>2 DEF Sees
<1>4. \A m \in Line : Fresh(s, m) => Fresh(r, m)
  BY <1>2 DEF Fresh
<1>5. QED
  BY <1>2, <1>3, <1>4 DEF r, ReadTo

LEMMA WbInvSees ==
  ASSUME NEW p, NEW T, T \subseteq Line, NEW s, Sees(s, p, T), NEW l \in T, Fresh(s, l)
  PROVE  WbInvTo(s, Cache_wbInv(s, l), p, T, l)
<1> DEFINE r == Cache_wbInv(s, l)
<1>1. ViewOK(s) /\ l \in Line
  BY DEF Sees
<1>2. /\ ViewOK(r)
      /\ \A m \in Line : r.mem[m] = IF m = l THEN Val(s, l) ELSE s.mem[m]
      /\ \A m \in Line : r.line[m] = IF m = l THEN NoLine ELSE s.line[m]
      /\ \A m \in Line : Val(r, m) = Val(s, m)
  BY <1>1, WbInvView
<1> HIDE DEF r
<1>3. Sees(r, p, T)
  BY <1>2 DEF Sees
<1>4. \A m \in Line : Fresh(s, m) => Fresh(r, m)
  BY <1>2 DEF Fresh, NoLine
<1>5. QED
  BY <1>1, <1>2, <1>3, <1>4 DEF r, WbInvTo

\* Memory and cache after a call that has written back the lines it touched.
LEMMA WrittenBack ==
  ASSUME ListTypeOK, NEW p \in Proc, NEW T, T \subseteq Line, NEW s, Sees(s, p, T),
         \A m \in T : s.line[m] = NoLine, Become(p, s)
  PROVE  /\ mem' \in [Line -> Links]
         /\ \A m \in Line : mem'[m] = IF m \in T THEN Val(s, m) ELSE mem[m]
         /\ cache' = [cache EXCEPT ![p] =
                        [m \in Line |-> IF m \in T THEN NoLine ELSE cache[p][m]]]
<1>1. mem' = s.mem /\ mem' \in [Line -> Links]
  BY DEF Become, Sees, ViewOK
<1>2. s.line = [m \in Line |-> IF m \in T THEN NoLine ELSE cache[p][m]]
  BY DEF Sees, ViewOK
<1>3. \A m \in Line : mem'[m] = IF m \in T THEN Val(s, m) ELSE mem[m]
  BY <1>1 DEF Sees, Val
<1>4. QED
  BY <1>1, <1>2, <1>3 DEF Become

\* What putHead, putTail and insert do to the links and the cache: x gets in
\* between a and b.
LinkedIn(p, a, x, b) ==
  /\ mem' \in [Line -> Links]
  /\ \A m \in Line :
       /\ mem'[m]["next"] = IF m = x THEN b ELSE IF m = a THEN x ELSE mem[m]["next"]
       /\ mem'[m]["prev"] = IF m = x THEN a ELSE IF m = b THEN x ELSE mem[m]["prev"]
  /\ cache' = [cache EXCEPT ![p] =
                 [m \in Line |-> IF m \in {a, x, b} THEN NoLine ELSE cache[p][m]]]

\* They have read line c, whose link leads to n, and store the four links.
LEMMA LinkIn ==
  ASSUME ListTypeOK, NEW p \in Proc, NEW elem \in Line, NEW link \in Link, NEW j \in Link,
         NEW c \in Line, NEW n \in Line, n = mem[c][link], n # elem, c # elem,
         NEW s1, Sees(s1, p, {c, n, elem}), Fresh(s1, c), Val(s1, c) = mem[c],
         \A m \in Line : s1.mem[m] = mem[m],
         LET i1 == Cache_inv(s1, n)
             s2 == Store(i1, elem, j, IF j = link THEN n ELSE c)
             s3 == Store(s2, elem, Opposite(j), IF j = link THEN c ELSE n)
             s4 == Store(s3, n, Opposite(link), elem)
             s5 == Store(s4, c, link, elem)
         IN Become(p, Cache_wbInv(Cache_wbInv(Cache_wbInv(s5, n), c), elem))
  PROVE  /\ link = "next" => LinkedIn(p, c, elem, n)
         /\ link = "prev" => LinkedIn(p, n, elem, c)
<1> DEFINE T == {c, n, elem}
           o == Opposite(link)
           i1 == Cache_inv(s1, n)
           s2 == Store(i1, elem, j, IF j = link THEN n ELSE c)
           s3 == Store(s2, elem, Opposite(j), IF j = link THEN c ELSE n)
           s4 == Store(s3, n, o, elem)
           s5 == Store(s4, c, link, elem)
           w1 == Cache_wbInv(s5, n)
           w2 == Cache_wbInv(w1, c)
           w3 == Cache_wbInv(w2, elem)
<1>1. /\ o \in Link /\ o # link /\ Link = {link, o}
      /\ Opposite(j) = IF j = link THEN o ELSE link
  BY DEF Opposite, Link
<1>2. n \in Line /\ elem \in Line /\ c \in Line /\ n # elem /\ c # elem
  OBVIOUS
<1>3. T \subseteq Line /\ c \in T /\ n \in T /\ elem \in T
  OBVIOUS
<1>4. /\ Sees(s1, p, T) /\ Fresh(s1, c) /\ Val(s1, c) = mem[c]
      /\ \A m \in Line : s1.mem[m] = mem[m]
  OBVIOUS
<1>5. Become(p, w3)
  OBVIOUS
<1> HIDE DEF T, o
<1>6. InvTo(s1, i1, p, T, n)
  BY <1>3, <1>4, InvSees
<1> HIDE DEF i1
<1>7. StoreTo(i1, s2, p, T, elem, j, IF j = link THEN n ELSE c)
  <2>1. Sees(i1, p, T)
    BY <1>6 DEF InvTo
  <2>2. QED
    BY <1>2, <1>3, <2>1, StoreSees
<1> HIDE DEF s2
<1>8. StoreTo(s2, s3, p, T, elem, Opposite(j), IF j = link THEN c ELSE n)
  <2>1. Sees(s2, p, T)
    BY <1>7 DEF StoreTo
  <2>2. QED
    BY <1>1, <1>2, <1>3, <2>1, StoreSees
<1> HIDE DEF s3
<1>9. StoreTo(s3, s4, p, T, n, o, elem)
  <2>1. Sees(s3, p, T)
    BY <1>8 DEF StoreTo
  <2>2. QED
    BY <1>1, <1>2, <1>3, <2>1, StoreSees
<1> HIDE DEF s4
<1>10. StoreTo(s4, s5, p, T, c, link, elem)
  <2>1. Sees(s4, p, T)
    BY <1>9 DEF StoreTo
  <2>2. QED
    BY <1>2, <1>3, <2>1, StoreSees
<1> HIDE DEF s5
<1>11. Sees(s5, p, T) /\ Fresh(s5, n) /\ Fresh(s5, c) /\ Fresh(s5, elem)
  BY <1>2, <1>4, <1>6, <1>7, <1>8, <1>9, <1>10 DEF InvTo, StoreTo
<1>12. WbInvTo(s5, w1, p, T, n)
  BY <1>3, <1>11, WbInvSees
<1> HIDE DEF w1
<1>13. WbInvTo(w1, w2, p, T, c)
  <2>1. Sees(w1, p, T) /\ Fresh(w1, c)
    BY <1>2, <1>11, <1>12 DEF WbInvTo
  <2>2. QED
    BY <1>3, <2>1, WbInvSees
<1> HIDE DEF w2
<1>14. WbInvTo(w2, w3, p, T, elem)
  <2>1. Sees(w2, p, T) /\ Fresh(w2, elem)
    BY <1>2, <1>11, <1>12, <1>13 DEF WbInvTo
  <2>2. QED
    BY <1>3, <2>1, WbInvSees
<1> HIDE DEF w3
<1>15. /\ mem' \in [Line -> Links]
       /\ \A m \in Line : mem'[m] = IF m \in T THEN Val(w3, m) ELSE mem[m]
       /\ cache' = [cache EXCEPT ![p] =
                      [m \in Line |-> IF m \in T THEN NoLine ELSE cache[p][m]]]
  <2>1. Sees(w3, p, T) /\ \A m \in T : w3.line[m] = NoLine
    BY <1>2, <1>12, <1>13, <1>14 DEF T, WbInvTo
  <2>2. QED
    BY <1>3, <1>5, <2>1, WrittenBack
<1>16. \A m \in T, k \in Link :
         Val(w3, m)[k] = IF m = elem THEN IF k = link THEN n ELSE c
                         ELSE IF m = c /\ k = link THEN elem
                         ELSE IF m = n /\ k = o THEN elem
                         ELSE mem[m][k]
  <2>1. \A m \in Line : Val(w3, m) = Val(s5, m)
    BY <1>12, <1>13, <1>14 DEF WbInvTo
  <2>2. \A m \in {c, n}, k \in Link : Val(i1, m)[k] = mem[m][k]
    BY <1>2, <1>4, <1>6 DEF InvTo
  <2>3. QED
    BY <1>1, <1>2, <1>7, <1>8, <1>9, <1>10, <2>1, <2>2 DEF T, StoreTo
<1>17. \A m \in Line, k \in Link :
         mem'[m][k] = IF m = elem THEN IF k = link THEN n ELSE c
                      ELSE IF m = c /\ k = link THEN elem
                      ELSE IF m = n /\ k = o THEN elem
                      ELSE mem[m][k]
  BY <1>15, <1>16 DEF T
<1>18. \A m \in Line :
         /\ mem'[m][link] = IF m = elem THEN n ELSE IF m = c THEN elem ELSE mem[m][link]
         /\ mem'[m][o] = IF m = elem THEN c ELSE IF m = n THEN elem ELSE mem[m][o]
  BY <1>1, <1>2, <1>17
<1>19. CASE link = "next"
  <2>1. o = "prev" /\ "next" \in Link /\ "prev" \in Link
    BY <1>19 DEF o, Opposite, Link
  <2>2. T = {c, elem, n}
    BY DEF T
  <2>3. \A m \in Line :
          /\ mem'[m]["next"] = IF m = elem THEN n ELSE IF m = c THEN elem ELSE mem[m]["next"]
          /\ mem'[m]["prev"] = IF m = elem THEN c ELSE IF m = n THEN elem ELSE mem[m]["prev"]
    BY <1>18, <1>19, <2>1
  <2>4. QED
    BY <1>15, <1>19, <2>2, <2>3 DEF LinkedIn
<1>20. CASE link = "prev"
  <2>1. o = "next" /\ "next" \in Link /\ "prev" \in Link
    BY <1>20 DEF o, Opposite, Link
  <2>2. T = {n, elem, c}
    BY DEF T
  <2>3. \A m \in Line :
          /\ mem'[m]["next"] = IF m = elem THEN c ELSE IF m = n THEN elem ELSE mem[m]["next"]
          /\ mem'[m]["prev"] = IF m = elem THEN n ELSE IF m = c THEN elem ELSE mem[m]["prev"]
    BY <1>18, <1>20, <2>1
  <2>4. QED
    BY <1>15, <1>20, <2>2, <2>3 DEF LinkedIn
<1>21. QED
  BY <1>19, <1>20

\* What getHead, getTail and remove do: x leaves its place between a and b.
TakenOut(p, a, x, b) ==
  /\ mem' \in [Line -> Links]
  /\ \A m \in Line \ {x} :
       /\ mem'[m]["next"] = IF m = a THEN b ELSE mem[m]["next"]
       /\ mem'[m]["prev"] = IF m = b THEN a ELSE mem[m]["prev"]
  /\ \E held \in [Line -> CacheLine] :
       /\ cache' = [cache EXCEPT ![p] = held]
       /\ \A m \in Line \ {x} : held[m] = IF m \in {a, b} THEN NoLine ELSE cache[p][m]
       /\ x \notin CachedLine => held[x] = NoLine

LEMMA LooseView ==
  ASSUME NEW s, ViewOK(s), NEW e \in Line
  PROVE  LET r == Loose(s, e) IN
         /\ ViewOK(r)
         /\ \A m \in Line \ {e} : r.mem[m] = s.mem[m] /\ r.line[m] = s.line[m]
<1> DEFINE links == [link \in Link |-> e]
           c == IF s.line[e] = NoLine THEN s.line[e]
                ELSE [s.line[e] EXCEPT !.links = links]
           r == Loose(s, e)
<1>1. links \in Links
  BY DEF Links
<1> HIDE DEF links
<1>2. c \in CacheLine /\ (s.line[e] = NoLine => c = NoLine)
  <2>1. s.line[e] \in CacheLine
    BY DEF ViewOK
  <2>2. CASE s.line[e] = NoLine
    BY <2>1, <2>2
  <2>3. CASE s.line[e] # NoLine
    <3>1. s.line[e] \in [state : {"clean", "dirty"}, links : Links]
      BY <2>1, <2>3 DEF CacheLine
    <3>2. [s.line[e] EXCEPT !.links = links] \in [state : {"clean", "dirty"}, links : Links]
      BY <1>1, <3>1
    <3>3. QED
      BY <2>3, <3>2 DEF CacheLine
  <2>4. QED
    BY <2>2, <2>3
<1> HIDE DEF c
<1>3. r = [s EXCEPT !.mem[e] = links, !.line[e] = c]
  BY DEF Loose, c, links
<1> HIDE DEF r
<1>4. /\ r.mem = [s.mem EXCEPT ![e] = links]
      /\ r.line = [s.line EXCEPT ![e] = c]
      /\ r \in [mem : [Line -> Links], line : [Line -> CacheLine]]
  BY <1>1, <1>2, <1>3 DEF ViewOK
<1>5. \A m \in Line : r.line[m] = IF m = e THEN c ELSE s.line[m]
  BY <1>4 DEF ViewOK
<1>6. QED
  BY <1>2, <1>4, <1>5 DEF ViewOK, r

\* They have found the neighbours c and n of elem, and link them together.
LEMMA LinkOut ==
  ASSUME ListTypeOK, NEW p \in Proc, NEW elem \in Line, NEW link \in Link,
         NEW c \in Line, NEW n \in Line, n # elem, c # elem,
         NEW y1, NEW y2, {y1, y2} = {c, n},
         NEW i, Sees(i, p, {c, n, elem}), Fresh(i, c), Fresh(i, n),
         Val(i, c) = mem[c], Val(i, n) = mem[n],
         LET s1 == Store(i, c, link, n)
             s2 == Store(s1, n, Opposite(link), c)
         IN Become(p, Loose(Cache_wbInv(Cache_wbInv(s2, y1), y2), elem))
  PROVE  /\ link = "next" => TakenOut(p, c, elem, n)
         /\ link = "prev" => TakenOut(p, n, elem, c)
<1> DEFINE T == {c, n, elem}
           o == Opposite(link)
           s1 == Store(i, c, link, n)
           s2 == Store(s1, n, o, c)
           w1 == Cache_wbInv(s2, y1)
           w2 == Cache_wbInv(w1, y2)
           r == Loose(w2, elem)
<1>1. o \in Link /\ o # link /\ Link = {link, o}
  BY DEF Opposite, Link
<1>2. T \subseteq Line /\ c \in T /\ n \in T /\ y1 \in {c, n} /\ y2 \in {c, n}
  OBVIOUS
<1>3. Sees(i, p, T) /\ Become(p, r)
  OBVIOUS
<1> HIDE DEF T, o
<1>4. StoreTo(i, s1, p, T, c, link, n)
  BY <1>2, <1>3, StoreSees
<1> HIDE DEF s1
<1>5. StoreTo(s1, s2, p, T, n, o, c)
  <2>1. Sees(s1, p, T)
    BY <1>4 DEF StoreTo
  <2>2. QED
    BY <1>1, <1>2, <2>1, StoreSees
<1> HIDE DEF s2
<1>6. Sees(s2, p, T) /\ Fresh(s2, c) /\ Fresh(s2, n)
  BY <1>4, <1>5 DEF StoreTo
<1>7. WbInvTo(s2, w1, p, T, y1)
  <2>1. Fresh(s2, y1) /\ y1 \in T
    BY <1>2, <1>6
  <2>2. QED
    BY <1>2, <1>6, <2>1, WbInvSees
<1> HIDE DEF w1
<1>8. WbInvTo(w1, w2, p, T, y2)
  <2>1. Sees(w1, p, T) /\ Fresh(w1, y2) /\ y2 \in T
    BY <1>2, <1>6, <1>7 DEF WbInvTo
  <2>2. QED
    BY <1>2, <2>1, WbInvSees
<1> HIDE DEF w2
<1>9. /\ Sees(w2, p, T) /\ w2.line[c] = NoLine /\ w2.line[n] = NoLine
      /\ \A m \in Line : Val(w2, m) = Val(s2, m)
  <2>1. w2.line[y1] = NoLine /\ w2.line[y2] = NoLine
    BY <1>2, <1>7, <1>8 DEF WbInvTo
  <2>2. QED
    BY <1>7, <1>8, <2>1 DEF WbInvTo
<1>10. \A m \in {c, n} : w2.mem[m] = Val(s2, m)
  BY <1>9 DEF Val
<1>11. ViewOK(r) /\ \A m \in Line \ {elem} : r.mem[m] = w2.mem[m] /\ r.line[m] = w2.line[m]
  BY <1>9, LooseView DEF Sees
<1> HIDE DEF r
<1>12. \A m \in {c, n}, k \in Link :
         w2.mem[m][k] = IF m = c /\ k = link THEN n
                        ELSE IF m = n /\ k = o THEN c
                        ELSE mem[m][k]
  BY <1>1, <1>4, <1>5, <1>10 DEF StoreTo
<1>13. \A m \in Line \ {elem}, k \in Link :
         r.mem[m][k] = IF m = c /\ k = link THEN n
                       ELSE IF m = n /\ k = o THEN c
                       ELSE mem[m][k]
  BY <1>9, <1>11, <1>12 DEF Sees, T
<1>14. \A m \in Line \ {elem} :
         /\ r.mem[m][link] = IF m = c THEN n ELSE mem[m][link]
         /\ r.mem[m][o] = IF m = n THEN c ELSE mem[m][o]
  BY <1>1, <1>13
<1>15. /\ mem' = r.mem /\ mem' \in [Line -> Links]
       /\ r.line \in [Line -> CacheLine] /\ cache' = [cache EXCEPT ![p] = r.line]
       /\ elem \notin CachedLine => r.line[elem] = NoLine
  BY <1>3, <1>11 DEF Become, ViewOK
<1>16. \A m \in Line \ {elem} : r.line[m] = IF m \in {c, n} THEN NoLine ELSE cache[p][m]
  BY <1>9, <1>11 DEF Sees, T
<1>17. CASE link = "next"
  <2>1. o = "prev"
    BY <1>17 DEF o, Opposite
  <2>2. \A m \in Line \ {elem} :
          /\ mem'[m]["next"] = IF m = c THEN n ELSE mem[m]["next"]
          /\ mem'[m]["prev"] = IF m = n THEN c ELSE mem[m]["prev"]
    BY <1>14, <1>15, <1>17, <2>1
  <2>3. QED
    BY <1>15, <1>16, <1>17, <2>2 DEF TakenOut
<1>18. CASE link = "prev"
  <2>1. o = "next"
    BY <1>18 DEF o, Opposite
  <2>2. \A m \in Line \ {elem} :
          /\ mem'[m]["next"] = IF m = n THEN c ELSE mem[m]["next"]
          /\ mem'[m]["prev"] = IF m = c THEN n ELSE mem[m]["prev"]
    BY <1>14, <1>15, <1>18, <2>1
  <2>3. QED
    BY <1>15, <1>16, <1>18, <2>2 DEF TakenOut
<1>19. QED
  BY <1>17, <1>18

-----------------------------------------------------------------------------
\* The calls, in terms of the links in memory.
OnLine == OnList \cup {Head_}

LEMMA OnLineFacts ==
  /\ OnLine \subseteq Line /\ Head_ \in OnLine
  /\ \A e \in Elem, p \in Proc : owner[e] = p => e \notin OnLine
  BY HeadLine, LineAssumption DEF OnLine, OnList

LEMMA PutEndLinks ==
  ASSUME ListInv, NEW p \in Proc, NEW elem \in Elem, NEW link \in Link,
         mem[Head_][link] \in OnLine, PutEnd(p, elem, link)
  PROVE  /\ link = "next" => LinkedIn(p, Head_, elem, mem[Head_][link])
         /\ link = "prev" => LinkedIn(p, mem[Head_][link], elem, Head_)
<1> DEFINE n == mem[Head_][link]
           s1 == Read(InvAttrs(View(p), p), Head_)
           i1 == Cache_inv(s1, n)
           s2 == Store(i1, elem, link, n)
           s3 == Store(s2, elem, Opposite(link), Head_)
           s4 == Store(s3, n, Opposite(link), elem)
           s5 == Store(s4, Head_, link, elem)
<1>1. n \in Line /\ elem \in Line /\ Head_ \in Line /\ n # elem /\ Head_ # elem
  BY OnLineFacts, HeadLine DEF PutEnd
<1>2. /\ Sees(s1, p, {Head_, n, elem}) /\ Fresh(s1, Head_)
      /\ Val(s1, Head_) = mem[Head_] /\ \A m \in Line : s1.mem[m] = mem[m]
  BY HeadView DEF Sees
<1>3. Become(p, Cache_wbInv(Cache_wbInv(Cache_wbInv(s5, n), Head_), elem))
  BY <1>2 DEF PutEnd
<1>4. ListTypeOK
  BY DEF ListInv
<1> HIDE DEF n, s1
<1>5. n = mem[Head_][link]
  BY DEF n
<1>6. QED
  BY <1>1, <1>2, <1>3, <1>4, <1>5, LinkIn

LEMMA InsertLinks ==
  ASSUME ListInv, NEW p \in Proc, NEW elem \in Elem, NEW cur \in OnList,
         mem[cur]["prev"] \in OnLine, insert(p, elem, cur)
  PROVE  LinkedIn(p, mem[cur]["prev"], elem, cur)
<1> DEFINE n == mem[cur]["prev"]
           i0 == Cache_inv(View(p), cur)
           s1 == Read(i0, cur)
           i1 == Cache_inv(s1, n)
           s2 == Store(i1, elem, "next", cur)
           s3 == Store(s2, elem, "prev", n)
           s4 == Store(s3, n, "next", elem)
           s5 == Store(s4, cur, "prev", elem)
           T == {cur, n, elem}
<1>1. n \in Line /\ elem \in Line /\ cur \in Line /\ n # elem /\ cur # elem
  BY OnLineFacts, HeadLine, LineAssumption DEF insert, OnList
<1>2. Sees(View(p), p, T) /\ T \subseteq Line /\ cur \in T
      /\ \A m \in Line : View(p).mem[m] = mem[m]
  BY <1>1, StartView DEF Sees
<1> HIDE DEF T
<1>3. InvTo(View(p), i0, p, T, cur)
  BY <1>2, InvSees
<1> HIDE DEF i0
<1>4. ReadTo(i0, s1, p, T, cur)
  <2>1. Sees(i0, p, T)
    BY <1>3 DEF InvTo
  <2>2. QED
    BY <1>2, <2>1, ReadSees
<1>5. /\ Sees(s1, p, T) /\ Fresh(s1, cur)
      /\ Val(s1, cur) = mem[cur] /\ \A m \in Line : s1.mem[m] = mem[m]
  BY <1>1, <1>2, <1>3, <1>4 DEF InvTo, ReadTo
<1>6. Become(p, Cache_wbInv(Cache_wbInv(Cache_wbInv(s5, n), cur), elem))
  BY <1>5 DEF insert, i0
<1> HIDE DEF n, s1
<1>7. n = mem[cur]["prev"] /\ ListTypeOK /\ "prev" \in Link /\ "next" \in Link
  BY DEF n, ListInv, Link
<1>8. LET link == "prev"
          j == "next"
          t2 == Store(i1, elem, j, IF j = link THEN n ELSE cur)
          t3 == Store(t2, elem, Opposite(j), IF j = link THEN cur ELSE n)
          t4 == Store(t3, n, Opposite(link), elem)
          t5 == Store(t4, cur, link, elem)
      IN Become(p, Cache_wbInv(Cache_wbInv(Cache_wbInv(t5, n), cur), elem))
  BY <1>6 DEF Opposite
<1>9. Sees(s1, p, {cur, n, elem})
  BY <1>5 DEF T
<1>10. QED
  BY <1>1, <1>5, <1>7, <1>8, <1>9, LinkIn

LEMMA RemoveLinks ==
  ASSUME ListInv, NEW p \in Proc, NEW elem \in OnList,
         mem[elem]["prev"] \in OnLine \ {elem}, mem[elem]["next"] \in OnLine \ {elem},
         remove(p, elem)
  PROVE  TakenOut(p, mem[elem]["prev"], elem, mem[elem]["next"])
<1> DEFINE c == mem[elem]["prev"]
           n == mem[elem]["next"]
           T == {c, n, elem}
           s1 == Read(View(p), elem)
           i1 == Cache_inv(s1, c)
           i2 == Cache_inv(i1, n)
           s2 == Store(i2, c, "next", n)
           s3 == Store(s2, n, "prev", c)
<1>1. n \in Line /\ elem \in Line /\ c \in Line /\ n # elem /\ c # elem
      /\ T \subseteq Line /\ elem \in T /\ n \in T /\ c \in T
  BY OnLineFacts, HeadLine DEF OnLine, OnList
<1>2. Sees(View(p), p, T) /\ View(p).line[elem] = NoLine
      /\ \A m \in Line : View(p).mem[m] = mem[m]
  BY StartView DEF Sees
<1>3. Val(View(p), elem) = mem[elem]
  BY <1>1, <1>2 DEF Val
<1> HIDE DEF T
<1>4. ReadTo(View(p), s1, p, T, elem)
  BY <1>1, <1>2, ReadSees
<1>5. /\ Sees(s1, p, T) /\ Val(s1, elem) = mem[elem]
      /\ \A m \in Line : s1.mem[m] = mem[m]
  BY <1>1, <1>2, <1>3, <1>4 DEF ReadTo
<1>6. Become(p, Loose(Cache_wbInv(Cache_wbInv(s3, c), n), elem))
  BY <1>5 DEF remove
<1> HIDE DEF s1, c, n
<1>7. InvTo(s1, i1, p, T, c)
  BY <1>1, <1>5, InvSees
<1> HIDE DEF i1
<1>8. InvTo(i1, i2, p, T, n)
  <2>1. Sees(i1, p, T)
    BY <1>7 DEF InvTo
  <2>2. QED
    BY <1>1, <2>1, InvSees
<1> HIDE DEF i2
<1>9. /\ Sees(i2, p, {c, n, elem}) /\ Fresh(i2, c) /\ Fresh(i2, n)
      /\ Val(i2, c) = mem[c] /\ Val(i2, n) = mem[n]
  BY <1>1, <1>5, <1>7, <1>8 DEF InvTo, T
<1>10. LET link == "next"
           t2 == Store(i2, c, link, n)
           t3 == Store(t2, n, Opposite(link), c)
       IN Become(p, Loose(Cache_wbInv(Cache_wbInv(t3, c), n), elem))
  BY <1>6 DEF Opposite
<1>11. ListTypeOK /\ "next" \in Link
  BY DEF ListInv, Link
<1>12. TakenOut(p, c, elem, n)
  BY <1>1, <1>9, <1>10, <1>11, LinkOut
<1>13. QED
  BY <1>12 DEF c, n

\* A call that only looks at line l.
Looked(p, l) ==
  /\ mem' = mem
  /\ cache' = [cache EXCEPT ![p] = [m \in Line |-> IF m = l THEN NoLine ELSE cache[p][m]]]

LEMMA LookView ==
  ASSUME ListTypeOK, NEW p \in Proc, NEW l \in Line, NEW s, ViewOK(s), s.mem = mem,
         \A m \in Line : m # l => s.line[m] = cache[p][m],
         Become(p, Cache_inv(s, l))
  PROVE  Looked(p, l)
<1> DEFINE r == Cache_inv(s, l)
<1>1. ViewOK(r) /\ r.mem = mem /\ r.line[l] = NoLine
      /\ \A m \in Line : m # l => r.line[m] = cache[p][m]
  BY InvView
<1>2. Become(p, r)
  OBVIOUS
<1> HIDE DEF r
<1>3. r.line = [m \in Line |-> IF m = l THEN NoLine ELSE cache[p][m]]
  BY <1>1 DEF ViewOK
<1>4. QED
  BY <1>1, <1>2, <1>3 DEF Become, Looked

LEMMA EmptyLinks ==
  ASSUME ListInv, NEW p \in Proc, empty(p)
  PROVE  /\ Looked(p, Head_) /\ owner' = owner
         /\ result' = IF mem[Head_]["next"] = Head_ THEN "TRUE" ELSE "FALSE"
<1> DEFINE s == Read(InvAttrs(View(p), p), Head_)
<1>1. /\ ViewOK(s) /\ s.mem = mem /\ Val(s, Head_) = mem[Head_]
      /\ \A m \in Line : m # Head_ => s.line[m] = cache[p][m]
  BY HeadView
<1>2. /\ Become(p, Cache_inv(s, Head_)) /\ owner' = owner
      /\ result' = IF Val(s, Head_)["next"] = Head_ THEN "TRUE" ELSE "FALSE"
  BY DEF empty
<1> HIDE DEF s
<1>3. Looked(p, Head_)
  BY <1>1, <1>2, LookView, HeadLine DEF ListInv
<1>4. QED
  BY <1>1, <1>2, <1>3

LEMMA NeighbourLinks ==
  ASSUME ListInv, NEW p \in Proc, NEW l \in OnLine, NEW link \in Link,
         Neighbour(p, l, link)
  PROVE  /\ Looked(p, l) /\ owner' = owner
         /\ result' = IF mem[l][link] = Head_ THEN NULL ELSE mem[l][link]
<1> DEFINE i == Cache_inv(View(p), l)
           s == Read(i, l)
<1>1. l \in Line /\ ViewOK(View(p)) /\ View(p).mem = mem /\ View(p).line = cache[p]
  BY OnLineFacts, StartView
<1>2. /\ ViewOK(i) /\ i.mem = mem /\ Val(i, l) = mem[l]
      /\ \A m \in Line : m # l => i.line[m] = cache[p][m]
  BY <1>1, InvView
<1> HIDE DEF i
<1>3. /\ ViewOK(s) /\ s.mem = mem /\ Val(s, l) = mem[l]
      /\ \A m \in Line : m # l => s.line[m] = cache[p][m]
  BY <1>1, <1>2, ReadView
<1>4. /\ Become(p, Cache_inv(s, l)) /\ owner' = owner
      /\ result' = IF Val(s, l)[link] = Head_ THEN NULL ELSE Val(s, l)[link]
  BY DEF Neighbour, i
<1> HIDE DEF s
<1>5. Looked(p, l)
  BY <1>1, <1>3, <1>4, LookView DEF ListInv
<1>6. QED
  BY <1>3, <1>4, <1>5

LEMMA GetNothingLinks ==
  ASSUME ListInv, NEW p \in Proc, NEW link \in Link, mem[Head_][link] = Head_,
         GetEnd(p, link)
  PROVE  Looked(p, Head_) /\ owner' = owner /\ result' = NULL
<1> DEFINE s == Read(InvAttrs(View(p), p), Head_)
<1>1. /\ ViewOK(s) /\ s.mem = mem /\ Val(s, Head_) = mem[Head_]
      /\ s.line[Head_].state # "dirty"
      /\ \A m \in Line : m # Head_ => s.line[m] = cache[p][m]
  BY HeadView
<1>2. Become(p, Cache_wbInv(s, Head_)) /\ owner' = owner /\ result' = NULL
  BY <1>1 DEF GetEnd
<1> HIDE DEF s
<1>3. Become(p, Cache_inv(s, Head_))
  BY <1>1, <1>2 DEF Cache_wbInv
<1>4. Looked(p, Head_)
  BY <1>1, <1>3, LookView, HeadLine DEF ListInv
<1>5. QED
  BY <1>2, <1>4

LEMMA GetEndLinks ==
  ASSUME ListInv, NEW p \in Proc, NEW link \in Link, NEW elem \in OnList,
         mem[Head_][link] = elem, mem[elem][link] \in OnLine \ {elem},
         mem[elem][Opposite(link)] = Head_, GetEnd(p, link)
  PROVE  /\ link = "next" => TakenOut(p, Head_, elem, mem[elem][link])
         /\ link = "prev" => TakenOut(p, mem[elem][link], elem, Head_)
         /\ result' = elem /\ owner' = [owner EXCEPT ![elem] = p]
<1> DEFINE n == mem[elem][link]
           T == {Head_, n, elem}
           s1 == Read(InvAttrs(View(p), p), Head_)
           i1 == Cache_inv(s1, elem)
           s2 == Read(i1, elem)
           i2 == Cache_inv(s2, n)
           s3 == Store(i2, Head_, link, n)
           s4 == Store(s3, n, Opposite(link), Head_)
<1>1. /\ n \in Line /\ elem \in Line /\ Head_ \in Line /\ n # elem /\ Head_ # elem
      /\ T \subseteq Line /\ elem \in T /\ n \in T /\ Head_ \in T
      /\ Opposite(link) \in Link
  BY OnLineFacts, HeadLine DEF OnLine, OnList, Opposite, Link
<1>2. /\ Sees(s1, p, T) /\ Fresh(s1, Head_)
      /\ Val(s1, Head_) = mem[Head_] /\ \A m \in Line : s1.mem[m] = mem[m]
  BY HeadView DEF Sees
<1> HIDE DEF T
<1>3. InvTo(s1, i1, p, T, elem)
  BY <1>1, <1>2, InvSees
<1>4. ReadTo(i1, s2, p, T, elem)
  <2>1. Sees(i1, p, T)
    BY <1>3 DEF InvTo
  <2> HIDE DEF i1
  <2>2. QED
    BY <1>1, <2>1, ReadSees
<1>5. /\ Sees(s2, p, T) /\ Fresh(s2, Head_) /\ Val(s2, Head_) = mem[Head_]
      /\ Val(s2, elem) = mem[elem] /\ \A m \in Line : s2.mem[m] = mem[m]
  <2> HIDE DEF s1, i1, s2
  <2>1. QED
    BY <1>1, <1>2, <1>3, <1>4 DEF InvTo, ReadTo
<1>6. InvTo(s2, i2, p, T, n)
  <2> HIDE DEF s2
  <2>1. QED
    BY <1>1, <1>5, InvSees
<1>7. StoreTo(i2, s3, p, T, Head_, link, n)
  <2>1. Sees(i2, p, T)
    BY <1>6 DEF InvTo
  <2> HIDE DEF i2
  <2>2. QED
    BY <1>1, <2>1, StoreSees
<1>8. Val(s3, elem)[Opposite(link)] = Head_
  <2> HIDE DEF s2, i2, s3
  <2>1. QED
    BY <1>1, <1>5, <1>6, <1>7 DEF InvTo, StoreTo
<1>9. /\ Become(p, Loose(Cache_wbInv(Cache_wbInv(s4, n), Head_), elem))
      /\ result' = elem /\ owner' = [owner EXCEPT ![elem] = p]
  <2>1. Val(s1, Head_)[link] = elem /\ Val(s2, elem)[link] = n
    BY <1>2, <1>5
  <2>2. /\ Become(p, Loose(Cache_wbInv(Cache_wbInv(
                       Store(s3, n, Opposite(link), Val(s3, elem)[Opposite(link)]),
                       n), Head_), elem))
        /\ result' = elem /\ owner' = [owner EXCEPT ![elem] = p]
    BY <1>1, <2>1 DEF GetEnd
  <2>3. QED
    BY <1>8, <2>2
<1> HIDE DEF s2, i2
<1>10. /\ Sees(i2, p, {Head_, n, elem}) /\ Fresh(i2, Head_) /\ Fresh(i2, n)
       /\ Val(i2, Head_) = mem[Head_] /\ Val(i2, n) = mem[n]
  BY <1>1, <1>5, <1>6 DEF InvTo, T
<1> HIDE DEF n
<1>11. ListTypeOK
  BY DEF ListInv
<1>12. /\ link = "next" => TakenOut(p, Head_, elem, n)
       /\ link = "prev" => TakenOut(p, n, elem, Head_)
  BY <1>1, <1>9, <1>10, <1>11, LinkOut
<1>13. QED
  BY <1>9, <1>12 DEF n

-----------------------------------------------------------------------------
\* The sequence of the elements on the list.
LEMMA SeqOfFacts ==
  ASSUME NEW S, NEW n \in Nat
  PROVE  \A s : s \in SeqOf(S, n) <=> s \in Seq(S) /\ Len(s) <= n
<1>1. ASSUME NEW s \in SeqOf(S, n) PROVE s \in Seq(S) /\ Len(s) <= n
  <2>1. PICK m \in 0..n : s \in [1..m -> S]
    BY DEF SeqOf
  <2>2. QED
    BY <2>1
<1>2. ASSUME NEW s \in Seq(S), Len(s) <= n PROVE s \in SeqOf(S, n)
  <2>1. s \in [1..Len(s) -> S] /\ Len(s) \in 0..n
    BY <1>2
  <2>2. QED
    BY <2>1 DEF SeqOf
<1>3. QED
  BY <1>1, <1>2

LEMMA OnListFinite ==
  IsFiniteSet(OnList) /\ Cardinality(OnList) \in Nat /\ OnList \subseteq Elem
  BY LineAssumption, FS_Subset, FS_CardinalityType DEF OnList

LEMMA ChainFacts ==
  ASSUME NEW s \in Chains
  PROVE  /\ s \in Seq(OnList) /\ Len(s) \in Nat /\ DOMAIN s = 1..Len(s) /\ Chain(s)
         /\ \A i \in 1..Len(s) : At(s, i) = s[i] /\ s[i] \in OnList
         /\ At(s, 0) = Head_ /\ At(s, Len(s) + 1) = Head_
         /\ \A i \in Int : At(s, i) \in OnLine
<1>1. s \in Seq(OnList) /\ Chain(s)
  BY OnListFinite, SeqOfFacts DEF Chains
<1>2. QED
  BY <1>1 DEF At, OnLine

\* From the head to the last, and from the first to the head, every position has
\* a line of its own.
LEMMA Distinct ==
  ASSUME NEW s \in Chains
  PROVE  /\ \A i, j \in 0..Len(s) : At(s, i) = At(s, j) => i = j
         /\ \A i, j \in 1..(Len(s) + 1) : At(s, i) = At(s, j) => i = j
<1>1. /\ Len(s) \in Nat /\ DOMAIN s = 1..Len(s)
      /\ \A i \in 1..Len(s) : At(s, i) = s[i] /\ s[i] \in OnList
      /\ At(s, 0) = Head_ /\ At(s, Len(s) + 1) = Head_
  BY ChainFacts
<1>2. \A i, j \in 1..Len(s) : s[i] = s[j] => i = j
  BY <1>1, ChainFacts DEF Chain
<1>3. Head_ \notin OnList
  BY HeadLine DEF OnList
<1>4. \A i \in 0..Len(s) : i = 0 \/ i \in 1..Len(s)
  BY <1>1
<1>5. \A i \in 1..(Len(s) + 1) : i = Len(s) + 1 \/ i \in 1..Len(s)
  BY <1>1
<1>6. QED
  BY <1>1, <1>2, <1>3, <1>4, <1>5

LEMMA ChainLinks ==
  ASSUME NEW s \in Chains
  PROVE  /\ \A i \in 0..Len(s) : mem[At(s, i)]["next"] = At(s, i + 1)
         /\ \A i \in 1..(Len(s) + 1) : mem[At(s, i)]["prev"] = At(s, i - 1)
<1>1. \A i \in 0..Len(s) :
        mem[At(s, i)]["next"] = At(s, i + 1) /\ mem[At(s, i + 1)]["prev"] = At(s, i)
  BY ChainFacts DEF Chain
<1>2. ASSUME NEW i \in 1..(Len(s) + 1) PROVE mem[At(s, i)]["prev"] = At(s, i - 1)
  <2>1. i - 1 \in 0..Len(s) /\ (i - 1) + 1 = i
    BY ChainFacts
  <2>2. mem[At(s, (i - 1) + 1)]["prev"] = At(s, i - 1)
    BY <1>1, <2>1
  <2>3. QED
    BY <2>1, <2>2
<1>3. QED
  BY <1>1, <1>2

LEMMA LeastIndex ==
  ASSUME NEW S, S \subseteq Nat, S # {}
  PROVE  \E x \in S : \A y \in S : x <= y
<1> DEFINE R == {ss \in Nat \X Nat : ss[1] < ss[2]}
<1>1. IsWellFoundedOn(R, Nat)
  BY NatLessThanWellFounded, Zenon DEF OpToRel
<1> HIDE DEF R
<1>2. \E x \in S : \A y \in S : ~(<<y, x>> \in R)
  BY <1>1, WFMin
<1>3. \A x, y \in S : ~(<<y, x>> \in R) => x <= y
  BY DEF R
<1>4. QED
  BY <1>2, <1>3

\* The links determine the sequence.
LEMMA ChainUnique ==
  ASSUME NEW s \in Chains, NEW t \in Chains
  PROVE  s = t
<1>1. /\ Len(s) \in Nat /\ Len(t) \in Nat /\ s \in Seq(OnList) /\ t \in Seq(OnList)
      /\ At(s, 0) = Head_ /\ At(t, 0) = Head_
      /\ At(s, Len(s) + 1) = Head_ /\ At(t, Len(t) + 1) = Head_
      /\ \A i \in 1..Len(s) : At(s, i) = s[i] /\ s[i] \in OnList
      /\ \A i \in 1..Len(t) : At(t, i) = t[i] /\ t[i] \in OnList
  BY ChainFacts
<1> DEFINE Differ == {i \in Nat : i <= Len(s) + 1 /\ i <= Len(t) + 1 /\ At(s, i) # At(t, i)}
<1>2. Differ = {}
  <2> SUFFICES ASSUME Differ # {} PROVE FALSE
    OBVIOUS
  <2>1. PICK i \in Differ : \A j \in Differ : i <= j
    BY LeastIndex
  <2>2. i \in Nat /\ i # 0 /\ i <= Len(s) + 1 /\ i <= Len(t) + 1 /\ At(s, i) # At(t, i)
    BY <1>1
  <2>3. i - 1 \notin Differ /\ i - 1 \in Nat /\ i - 1 \in 0..Len(s) /\ i - 1 \in 0..Len(t)
        /\ (i - 1) + 1 = i
    BY <1>1, <2>1, <2>2
  <2>4. At(s, i - 1) = At(t, i - 1)
    BY <1>1, <2>3
  <2> HIDE DEF Differ
  <2>5. At(s, i) = mem[At(s, i - 1)]["next"] /\ At(t, i) = mem[At(t, i - 1)]["next"]
    <3>1. mem[At(s, i - 1)]["next"] = At(s, (i - 1) + 1)
      BY <2>3, ChainLinks
    <3>2. mem[At(t, i - 1)]["next"] = At(t, (i - 1) + 1)
      BY <2>3, ChainLinks
    <3>3. QED
      BY <2>3, <3>1, <3>2
  <2>6. QED
    BY <2>2, <2>4, <2>5
<1>3. \A i \in Nat : i <= Len(s) + 1 /\ i <= Len(t) + 1 => At(s, i) = At(t, i)
  BY <1>2
<1> HIDE DEF Differ
<1>4. Head_ \notin OnList
  BY HeadLine DEF OnList
<1>5. Len(s) = Len(t)
  <2>1. ~(Len(s) < Len(t))
    <3> SUFFICES ASSUME Len(s) < Len(t) PROVE FALSE
      OBVIOUS
    <3>1. At(s, Len(s) + 1) = At(t, Len(s) + 1) /\ Len(s) + 1 \in 1..Len(t)
      BY <1>1, <1>3
    <3>2. QED
      BY <1>1, <1>4, <3>1
  <2>2. ~(Len(t) < Len(s))
    <3> SUFFICES ASSUME Len(t) < Len(s) PROVE FALSE
      OBVIOUS
    <3>1. At(s, Len(t) + 1) = At(t, Len(t) + 1) /\ Len(t) + 1 \in 1..Len(s)
      BY <1>1, <1>3
    <3>2. QED
      BY <1>1, <1>4, <3>1
  <2>3. QED
    BY <1>1, <2>1, <2>2
<1>6. \A i \in 1..Len(s) : s[i] = t[i]
  BY <1>1, <1>3, <1>5
<1>7. QED
  BY <1>1, <1>5, <1>6, SeqEqual

LEMMA ListedIs ==
  ASSUME NEW s \in Chains
  PROVE  Listed = s
<1>1. Listed \in Chains
  BY DEF Listed
<1>2. QED
  BY <1>1, ChainUnique

\* No sequence without repetitions is longer than the set of its elements.
LEMMA NoRepeat ==
  ASSUME NEW S, IsFiniteSet(S), NEW s \in Seq(S),
         \A i, j \in DOMAIN s : s[i] = s[j] => i = j
  PROVE  s \in SeqOf(S, Cardinality(S))
<1>1. Len(s) \in Nat /\ DOMAIN s = 1..Len(s) /\ s \in [1..Len(s) -> S]
  OBVIOUS
<1>2. s \in Injection(1..Len(s), S)
  BY <1>1 DEF Injection, IsInjective
<1>3. Cardinality(1..Len(s)) <= Cardinality(S) /\ Cardinality(1..Len(s)) = Len(s)
  <2>1. IsFiniteSet(1..Len(s)) /\ Cardinality(1..Len(s)) = Len(s)
    BY <1>1, FS_Interval
  <2>2. Cardinality(1..Len(s)) <= Cardinality(S)
    BY <1>2, FS_Injection
  <2>3. QED
    BY <2>1, <2>2
<1>4. QED
  BY <1>1, <1>3, SeqOfFacts, FS_CardinalityType

LEMMA InsertAtFacts ==
  ASSUME NEW S, NEW s \in Seq(S), NEW i \in 1..(Len(s) + 1), NEW x \in S
  PROVE  LET r == InsertAt(s, i, x) IN
         /\ r \in Seq(S) /\ Len(r) = Len(s) + 1
         /\ \A k \in 1..(Len(s) + 1) :
              r[k] = IF k < i THEN s[k] ELSE IF k = i THEN x ELSE s[k - 1]
<1> DEFINE l == SubSeq(s, 1, i - 1)
           m == l \o <<x>>
           r == SubSeq(s, i, Len(s))
<1>1. Len(s) \in Nat /\ i \in Int /\ \A k \in 1..Len(s) : s[k] \in S
  OBVIOUS
<1>2. /\ l \in Seq(S) /\ Len(l) = i - 1
      /\ \A k \in 1..(i - 1) : l[k] = s[k]
  <2>1. \A k \in 1..(i - 1) : s[k] \in S
    BY <1>1
  <2>2. /\ l \in Seq(S)
        /\ Len(l) = IF 1 <= i - 1 THEN (i - 1) - 1 + 1 ELSE 0
        /\ \A k \in 1..((i - 1) - 1 + 1) : l[k] = s[1 + k - 1]
    BY <1>1, <2>1, SubSeqProperties
  <2> HIDE DEF l
  <2>3. QED
    BY <1>1, <2>2
<1>3. /\ r \in Seq(S) /\ Len(r) = Len(s) - i + 1
      /\ \A k \in 1..(Len(s) - i + 1) : r[k] = s[i + k - 1]
  <2>1. \A k \in i..Len(s) : s[k] \in S
    BY <1>1
  <2>2. /\ r \in Seq(S)
        /\ Len(r) = IF i <= Len(s) THEN Len(s) - i + 1 ELSE 0
        /\ \A k \in 1..(Len(s) - i + 1) : r[k] = s[i + k - 1]
    BY <1>1, <2>1, SubSeqProperties
  <2> HIDE DEF r
  <2>3. QED
    BY <1>1, <2>2
<1> HIDE DEF l, r
<1>4. /\ m \in Seq(S) /\ Len(m) = i
      /\ \A k \in 1..i : m[k] = IF k < i THEN s[k] ELSE x
  BY <1>1, <1>2
<1> HIDE DEF m
<1>5. /\ m \o r \in Seq(S) /\ Len(m \o r) = Len(s) + 1
      /\ \A k \in 1..(Len(s) + 1) : (m \o r)[k] = IF k <= i THEN m[k] ELSE r[k - i]
  <2>1. m \in Seq(S) /\ r \in Seq(S)
    BY <1>3, <1>4
  <2>2. /\ m \o r \in Seq(S) /\ Len(m \o r) = Len(m) + Len(r)
        /\ \A k \in 1..(Len(m) + Len(r)) :
             (m \o r)[k] = IF k <= Len(m) THEN m[k] ELSE r[k - Len(m)]
    BY <2>1, ConcatProperties
  <2>3. Len(m) + Len(r) = Len(s) + 1
    BY <1>1, <1>3, <1>4
  <2>4. QED
    BY <1>4, <2>2, <2>3
<1>6. \A k \in 1..(Len(s) + 1) :
        (m \o r)[k] = IF k < i THEN s[k] ELSE IF k = i THEN x ELSE s[k - 1]
  BY <1>1, <1>3, <1>4, <1>5
<1>7. InsertAt(s, i, x) = m \o r
  BY DEF InsertAt, m, l, r
<1>8. QED
  BY <1>5, <1>6, <1>7

LEMMA RemoveAtFacts ==
  ASSUME NEW S, NEW s \in Seq(S), NEW i \in 1..Len(s)
  PROVE  LET r == RemoveAt(s, i) IN
         /\ r \in Seq(S) /\ Len(r) = Len(s) - 1
         /\ \A k \in 1..(Len(s) - 1) : r[k] = IF k < i THEN s[k] ELSE s[k + 1]
<1> DEFINE l == SubSeq(s, 1, i - 1)
           r == SubSeq(s, i + 1, Len(s))
<1>1. Len(s) \in Nat /\ i \in Int /\ i + 1 \in Int /\ \A k \in 1..Len(s) : s[k] \in S
  OBVIOUS
<1>2. /\ l \in Seq(S) /\ Len(l) = i - 1
      /\ \A k \in 1..(i - 1) : l[k] = s[k]
  <2>1. \A k \in 1..(i - 1) : s[k] \in S
    BY <1>1
  <2>2. /\ l \in Seq(S)
        /\ Len(l) = IF 1 <= i - 1 THEN (i - 1) - 1 + 1 ELSE 0
        /\ \A k \in 1..((i - 1) - 1 + 1) : l[k] = s[1 + k - 1]
    BY <1>1, <2>1, SubSeqProperties
  <2> HIDE DEF l
  <2>3. QED
    BY <1>1, <2>2
<1>3. /\ r \in Seq(S) /\ Len(r) = Len(s) - i
      /\ \A k \in 1..(Len(s) - i) : r[k] = s[i + k]
  <2>1. \A k \in (i + 1)..Len(s) : s[k] \in S
    BY <1>1
  <2>2. /\ r \in Seq(S)
        /\ Len(r) = IF i + 1 <= Len(s) THEN Len(s) - (i + 1) + 1 ELSE 0
        /\ \A k \in 1..(Len(s) - (i + 1) + 1) : r[k] = s[(i + 1) + k - 1]
    BY <1>1, <2>1, SubSeqProperties
  <2> HIDE DEF r
  <2>3. QED
    BY <1>1, <2>2
<1> HIDE DEF l, r
<1>4. /\ l \o r \in Seq(S) /\ Len(l \o r) = Len(s) - 1
      /\ \A k \in 1..(Len(s) - 1) :
           (l \o r)[k] = IF k <= i - 1 THEN l[k] ELSE r[k - (i - 1)]
  <2>1. l \in Seq(S) /\ r \in Seq(S)
    BY <1>2, <1>3
  <2>2. /\ l \o r \in Seq(S) /\ Len(l \o r) = Len(l) + Len(r)
        /\ \A k \in 1..(Len(l) + Len(r)) :
             (l \o r)[k] = IF k <= Len(l) THEN l[k] ELSE r[k - Len(l)]
    BY <2>1, ConcatProperties
  <2>3. Len(l) + Len(r) = Len(s) - 1
    BY <1>1, <1>2, <1>3
  <2>4. QED
    BY <1>2, <2>2, <2>3
<1>5. \A k \in 1..(Len(s) - 1) : (l \o r)[k] = IF k < i THEN s[k] ELSE s[k + 1]
  <2> TAKE k \in 1..(Len(s) - 1)
  <2>1. CASE k < i
    BY <1>1, <1>2, <1>4, <2>1
  <2>2. CASE k >= i
    <3> ~(k <= i - 1)
      BY <1>1, <2>2
    <3>1. (l \o r)[k] = r[k - (i - 1)]
      BY <1>4
    <3>2. k - (i - 1) \in 1..(Len(s) - i) /\ i + (k - (i - 1)) = k + 1
      BY <1>1, <2>2
    <3>3. r[k - (i - 1)] = s[i + (k - (i - 1))]
      BY <1>3, <3>2
    <3>4. QED
      BY <1>1, <2>2, <3>1, <3>2, <3>3
  <2>3. k < i \/ k >= i
    BY <1>1
  <2>4. QED
    BY <2>1, <2>2, <2>3, Zenon
<1>6. RemoveAt(s, i) = l \o r
  BY DEF RemoveAt, l, r
<1>7. QED
  BY <1>4, <1>5, <1>6

\* An element put between two neighbours is in the list at that position.
LEMMA ChainInsert ==
  ASSUME NEW s \in Chains, NEW i \in 1..(Len(s) + 1), NEW x \in Elem, NEW p,
         owner \in [Elem -> Proc \cup {"list"}], owner[x] # "list",
         LinkedIn(p, At(s, i - 1), x, At(s, i)), owner' = [owner EXCEPT ![x] = "list"]
  PROVE  InsertAt(s, i, x) \in Chains'
<1> DEFINE r == InsertAt(s, i, x)
           a == At(s, i - 1)
           b == At(s, i)
<1>1. /\ Len(s) \in Nat /\ s \in Seq(OnList) /\ Chain(s)
      /\ DOMAIN s = 1..Len(s)
      /\ \A k \in 1..Len(s) : At(s, k) = s[k] /\ s[k] \in OnList
      /\ At(s, 0) = Head_ /\ At(s, Len(s) + 1) = Head_
      /\ \A k \in Int : At(s, k) \in OnLine
  BY ChainFacts
<1>2. OnList' = OnList \cup {x} /\ x \notin OnList
  BY DEF OnList
<1>3. s \in Seq(OnList \cup {x})
  BY <1>1
<1>4. /\ r \in Seq(OnList \cup {x}) /\ Len(r) = Len(s) + 1
      /\ \A k \in 1..(Len(s) + 1) :
           r[k] = IF k < i THEN s[k] ELSE IF k = i THEN x ELSE s[k - 1]
  BY <1>3, InsertAtFacts
<1> HIDE DEF r
<1>5. \A k \in 0..(Len(s) + 2) :
        At(r, k) = IF k < i THEN At(s, k) ELSE IF k = i THEN x ELSE At(s, k - 1)
  <2> TAKE k \in 0..(Len(s) + 2)
  <2>1. CASE k = 0
    BY <1>1, <1>4, <2>1 DEF At
  <2>2. CASE k = Len(s) + 2
    BY <1>1, <1>4, <2>2 DEF At
  <2>3. CASE k \in 1..(Len(s) + 1)
    <3>1. At(r, k) = r[k]
      BY <1>4, <2>3 DEF At
    <3>2. k < i => At(s, k) = s[k]
      BY <1>1, <2>3
    <3>3. k > i => At(s, k - 1) = s[k - 1]
      BY <1>1, <2>3
    <3>4. QED
      BY <1>1, <1>4, <2>3, <3>1, <3>2, <3>3
  <2>4. QED
    BY <1>1, <2>1, <2>2, <2>3
<1>6. x \in Line /\ x \notin OnLine /\ OnLine \subseteq Line
  BY <1>2, HeadLine, OnLineFacts DEF OnLine
<1>7. /\ \A m \in Line :
           /\ mem'[m]["next"] = IF m = x THEN b ELSE IF m = a THEN x ELSE mem[m]["next"]
           /\ mem'[m]["prev"] = IF m = x THEN a ELSE IF m = b THEN x ELSE mem[m]["prev"]
      /\ a \in OnLine /\ b \in OnLine
  BY <1>1 DEF LinkedIn
<1>8. \A j, k \in 0..Len(s) : At(s, j) = At(s, k) => j = k
  BY Distinct
<1>9. \A j, k \in 1..(Len(s) + 1) : At(s, j) = At(s, k) => j = k
  BY Distinct
<1>10. \A k \in 0..(Len(s) + 1) : mem'[At(r, k)]["next"] = At(r, k + 1)
  <2> TAKE k \in 0..(Len(s) + 1)
  <2>1. CASE k < i - 1
    <3>1. At(r, k) = At(s, k) /\ At(r, k + 1) = At(s, k + 1)
      BY <1>1, <1>5, <2>1
    <3>2. At(s, k) # a
      BY <1>1, <1>8, <2>1
    <3>3. mem[At(s, k)]["next"] = At(s, k + 1)
      BY <1>1, <2>1, ChainLinks
    <3>4. At(s, k) \in OnLine
      BY <1>1
    <3>5. QED
      BY <1>6, <1>7, <3>1, <3>2, <3>3, <3>4
  <2>2. CASE k = i - 1
    <3>1. At(r, k) = a /\ At(r, k + 1) = x
      BY <1>1, <1>5, <2>2
    <3>2. QED
      BY <1>6, <1>7, <3>1
  <2>3. CASE k = i
    <3>1. At(r, k) = x /\ At(r, k + 1) = b
      BY <1>1, <1>5, <2>3
    <3>2. QED
      BY <1>6, <1>7, <3>1
  <2>4. CASE k > i
    <3>1. At(r, k) = At(s, k - 1) /\ At(r, k + 1) = At(s, k) /\ k - 1 \in 0..Len(s)
          /\ (k - 1) + 1 = k
      BY <1>1, <1>5, <2>4
    <3>2. At(s, k - 1) # a
      BY <1>1, <1>8, <2>4
    <3>3. mem[At(s, k - 1)]["next"] = At(s, (k - 1) + 1)
      BY <3>1, ChainLinks
    <3>4. At(s, k - 1) \in OnLine
      BY <1>1
    <3>5. QED
      BY <1>6, <1>7, <3>1, <3>2, <3>3, <3>4
  <2>5. QED
    BY <1>1, <2>1, <2>2, <2>3, <2>4
<1>11. \A k \in 0..(Len(s) + 1) : mem'[At(r, k + 1)]["prev"] = At(r, k)
  <2> TAKE k \in 0..(Len(s) + 1)
  <2>1. CASE k < i - 1
    <3>1. At(r, k) = At(s, k) /\ At(r, k + 1) = At(s, k + 1)
      BY <1>1, <1>5, <2>1
    <3>2. At(s, k + 1) # b
      BY <1>1, <1>9, <2>1
    <3>3. mem[At(s, k + 1)]["prev"] = At(s, k)
      <4>1. k + 1 \in 1..(Len(s) + 1) /\ (k + 1) - 1 = k
        BY <1>1, <2>1
      <4>2. mem[At(s, k + 1)]["prev"] = At(s, (k + 1) - 1)
        BY <4>1, ChainLinks
      <4>3. QED
        BY <4>1, <4>2
    <3>4. At(s, k + 1) \in OnLine
      BY <1>1
    <3>5. QED
      BY <1>6, <1>7, <3>1, <3>2, <3>3, <3>4
  <2>2. CASE k = i - 1
    <3>1. At(r, k) = a /\ At(r, k + 1) = x
      BY <1>1, <1>5, <2>2
    <3>2. QED
      BY <1>6, <1>7, <3>1
  <2>3. CASE k = i
    <3>1. At(r, k) = x /\ At(r, k + 1) = b
      BY <1>1, <1>5, <2>3
    <3>2. QED
      BY <1>6, <1>7, <3>1
  <2>4. CASE k > i
    <3>1. At(r, k) = At(s, k - 1) /\ At(r, k + 1) = At(s, k) /\ k \in 1..(Len(s) + 1)
      BY <1>1, <1>5, <2>4
    <3>2. At(s, k) # b
      BY <1>1, <1>9, <2>4
    <3>3. mem[At(s, k)]["prev"] = At(s, k - 1)
      BY <3>1, ChainLinks
    <3>4. At(s, k) \in OnLine
      BY <1>1
    <3>5. QED
      BY <1>6, <1>7, <3>1, <3>2, <3>3, <3>4
  <2>5. QED
    BY <1>1, <2>1, <2>2, <2>3, <2>4
<1>12. DOMAIN r = 1..(Len(s) + 1)
  BY <1>1, <1>4
<1>13. \A j, k \in DOMAIN r : r[j] = r[k] => j = k
  <2>1. \A j, k \in 1..Len(s) : s[j] = s[k] => j = k
    BY <1>1 DEF Chain
  <2>2. ASSUME NEW j \in DOMAIN r, NEW k \in DOMAIN r, r[j] = r[k], j < k PROVE FALSE
    <3>1. j \in 1..(Len(s) + 1) /\ k \in 1..(Len(s) + 1)
      BY <1>12, <2>2
    <3>2. CASE k < i
      BY <1>1, <1>4, <2>1, <2>2, <3>1, <3>2
    <3>3. CASE k = i
      <4>1. r[k] = x /\ r[j] = s[j] /\ s[j] \in OnList
        BY <1>1, <1>4, <2>2, <3>1, <3>3
      <4>2. QED
        BY <1>2, <2>2, <4>1
    <3>4. CASE k > i /\ j = i
      <4>1. r[j] = x /\ r[k] = s[k - 1] /\ s[k - 1] \in OnList
        BY <1>1, <1>4, <3>1, <3>4
      <4>2. QED
        BY <1>2, <2>2, <4>1
    <3>5. CASE k > i /\ j < i
      <4>1. r[j] = s[j] /\ r[k] = s[k - 1] /\ j \in 1..Len(s) /\ k - 1 \in 1..Len(s)
            /\ j # k - 1
        BY <1>1, <1>4, <3>1, <3>5
      <4>2. QED
        BY <2>1, <2>2, <4>1
    <3>6. CASE k > i /\ j > i
      <4>1. r[j] = s[j - 1] /\ r[k] = s[k - 1] /\ j - 1 \in 1..Len(s)
            /\ k - 1 \in 1..Len(s) /\ j - 1 # k - 1
        BY <1>1, <1>4, <2>2, <3>1, <3>6
      <4>2. QED
        BY <2>1, <2>2, <4>1
    <3>7. QED
      BY <1>1, <3>1, <3>2, <3>3, <3>4, <3>5, <3>6
  <2>3. QED
    <3>1. \A j, k \in DOMAIN r : j < k \/ j = k \/ k < j
      BY <1>1, <1>12
    <3>2. QED
      BY <2>2, <3>1
<1>14. ToSet(r) = OnList \cup {x}
  <2>1. ToSet(s) = OnList
    BY <1>1 DEF Chain
  <2>2. \A e \in OnList : \E k \in DOMAIN r : r[k] = e
    <3> TAKE e \in OnList
    <3>1. PICK j \in 1..Len(s) : s[j] = e
      BY <1>1, <2>1 DEF ToSet
    <3>2. CASE j < i
      BY <1>1, <1>4, <1>12, <3>1, <3>2
    <3>3. CASE j >= i
      <4>1. j + 1 \in DOMAIN r /\ r[j + 1] = s[(j + 1) - 1] /\ (j + 1) - 1 = j
        BY <1>1, <1>4, <1>12, <3>3
      <4>2. QED
        BY <3>1, <4>1
    <3>4. QED
      BY <1>1, <3>2, <3>3
  <2>3. r[i] = x /\ i \in DOMAIN r
    BY <1>1, <1>4, <1>12
  <2>4. \A k \in DOMAIN r : r[k] \in OnList \cup {x}
    BY <1>4
  <2>5. QED
    BY <2>2, <2>3, <2>4 DEF ToSet
<1>15. Chain(r)'
  BY <1>1, <1>2, <1>4, <1>10, <1>11, <1>13, <1>14 DEF Chain
<1>16. r \in SeqOf(OnList', Cardinality(OnList'))
  <2>1. IsFiniteSet(OnList \cup {x})
    BY OnListFinite, FS_AddElement
  <2>2. QED
    BY <1>2, <1>4, <1>13, <2>1, NoRepeat
<1>17. QED
  BY <1>15, <1>16 DEF Chains, r

LEMMA SeqWithin ==
  ASSUME NEW S, NEW R, NEW r \in Seq(S), \A k \in 1..Len(r) : r[k] \in R
  PROVE  r \in Seq(R)
<1>1. Len(r) \in Nat /\ r \in [1..Len(r) -> S]
  BY LenProperties
<1>2. r \in [1..Len(r) -> R]
  BY <1>1
<1>3. QED
  BY <1>1, <1>2, SeqDef

\* An element taken from between two neighbours leaves its position.
LEMMA ChainRemove ==
  ASSUME NEW s \in Chains, NEW i \in 1..Len(s), NEW p \in Proc,
         owner \in [Elem -> Proc \cup {"list"}],
         TakenOut(p, At(s, i - 1), s[i], At(s, i + 1)), owner' = [owner EXCEPT ![s[i]] = p]
  PROVE  RemoveAt(s, i) \in Chains'
<1> DEFINE r == RemoveAt(s, i)
           x == s[i]
           a == At(s, i - 1)
           b == At(s, i + 1)
<1>1. /\ Len(s) \in Nat /\ s \in Seq(OnList) /\ Chain(s)
      /\ DOMAIN s = 1..Len(s)
      /\ \A k \in 1..Len(s) : At(s, k) = s[k] /\ s[k] \in OnList
      /\ At(s, 0) = Head_ /\ At(s, Len(s) + 1) = Head_
      /\ \A k \in Int : At(s, k) \in OnLine
  BY ChainFacts
<1>2. x \in OnList /\ x = At(s, i) /\ OnList' = OnList \ {x}
  <2>1. x \in OnList /\ x = At(s, i)
    BY <1>1
  <2>2. OnList' = OnList \ {x}
    BY <2>1, LineAssumption DEF OnList
  <2>3. QED
    BY <2>1, <2>2
<1>3. \A j, k \in 1..Len(s) : s[j] = s[k] => j = k
  BY <1>1 DEF Chain
<1>4. /\ r \in Seq(OnList) /\ Len(r) = Len(s) - 1
      /\ \A k \in 1..(Len(s) - 1) : r[k] = IF k < i THEN s[k] ELSE s[k + 1]
  BY <1>1, RemoveAtFacts
<1> HIDE DEF r
<1>5. \A k \in 0..Len(s) : At(r, k) = IF k < i THEN At(s, k) ELSE At(s, k + 1)
  <2> TAKE k \in 0..Len(s)
  <2>1. CASE k = 0
    BY <1>1, <1>4, <2>1 DEF At
  <2>2. CASE k = Len(s)
    BY <1>1, <1>4, <2>2 DEF At
  <2>3. CASE k \in 1..(Len(s) - 1)
    <3>1. At(r, k) = r[k]
      BY <1>4, <2>3 DEF At
    <3>2. k < i => At(s, k) = s[k]
      BY <1>1, <2>3
    <3>3. At(s, k + 1) = s[k + 1]
      BY <1>1, <2>3
    <3>4. QED
      BY <1>1, <1>4, <2>3, <3>1, <3>2, <3>3
  <2>4. k = 0 \/ k = Len(s) \/ k \in 1..(Len(s) - 1)
    <3>1. \A n \in Nat : \A j \in 0..n : j = 0 \/ j = n \/ j \in 1..(n - 1)
      OBVIOUS
    <3>2. Len(s) \in Nat
      BY <1>1
    <3>3. QED
      BY <3>1, <3>2
  <2>5. QED
    BY <2>1, <2>2, <2>3, <2>4, Zenon
<1>6. OnLine \subseteq Line
  BY OnLineFacts
<1>7. /\ \A m \in Line \ {x} :
           /\ mem'[m]["next"] = IF m = a THEN b ELSE mem[m]["next"]
           /\ mem'[m]["prev"] = IF m = b THEN a ELSE mem[m]["prev"]
      /\ a \in OnLine /\ b \in OnLine
  BY <1>1 DEF TakenOut
<1> HIDE DEF x
<1>8. \A j, k \in 0..Len(s) : At(s, j) = At(s, k) => j = k
  BY Distinct
<1>9. \A j, k \in 1..(Len(s) + 1) : At(s, j) = At(s, k) => j = k
  BY Distinct
<1>10. \A k \in 0..(Len(s) - 1) : mem'[At(r, k)]["next"] = At(r, k + 1)
  <2> TAKE k \in 0..(Len(s) - 1)
  <2>1. CASE k < i - 1
    <3>1. At(r, k) = At(s, k) /\ At(r, k + 1) = At(s, k + 1)
      BY <1>1, <1>5, <2>1
    <3>2. At(s, k) # a /\ At(s, k) # x
      BY <1>1, <1>2, <1>8, <2>1
    <3>3. mem[At(s, k)]["next"] = At(s, k + 1)
      BY <1>1, <2>1, ChainLinks
    <3>4. At(s, k) \in OnLine
      BY <1>1
    <3>5. QED
      BY <1>6, <1>7, <3>1, <3>2, <3>3, <3>4
  <2>2. CASE k = i - 1
    <3>1. At(r, k) = a /\ At(r, k + 1) = b
      BY <1>1, <1>5, <2>2
    <3>2. a # x
      BY <1>1, <1>2, <1>8, <2>2
    <3>3. QED
      BY <1>6, <1>7, <3>1, <3>2
  <2>3. CASE k >= i
    <3>1. At(r, k) = At(s, k + 1) /\ At(r, k + 1) = At(s, (k + 1) + 1) /\ k + 1 \in 0..Len(s)
      BY <1>1, <1>5, <2>3
    <3>2. At(s, k + 1) # a /\ At(s, k + 1) # x
      BY <1>1, <1>2, <1>8, <2>3
    <3>3. mem[At(s, k + 1)]["next"] = At(s, (k + 1) + 1)
      BY <3>1, ChainLinks
    <3>4. At(s, k + 1) \in OnLine
      BY <1>1
    <3>5. QED
      BY <1>6, <1>7, <3>1, <3>2, <3>3, <3>4
  <2>4. QED
    BY <1>1, <2>1, <2>2, <2>3
<1>11. \A k \in 0..(Len(s) - 1) : mem'[At(r, k + 1)]["prev"] = At(r, k)
  <2> TAKE k \in 0..(Len(s) - 1)
  <2>1. CASE k < i - 1
    <3>1. At(r, k) = At(s, k) /\ At(r, k + 1) = At(s, k + 1)
      BY <1>1, <1>5, <2>1
    <3>2. At(s, k + 1) # b /\ At(s, k + 1) # x
      BY <1>1, <1>2, <1>9, <2>1
    <3>3. mem[At(s, k + 1)]["prev"] = At(s, k)
      <4>1. k + 1 \in 1..(Len(s) + 1) /\ (k + 1) - 1 = k
        BY <1>1, <2>1
      <4>2. mem[At(s, k + 1)]["prev"] = At(s, (k + 1) - 1)
        BY <4>1, ChainLinks
      <4>3. QED
        BY <4>1, <4>2
    <3>4. At(s, k + 1) \in OnLine
      BY <1>1
    <3>5. QED
      BY <1>6, <1>7, <3>1, <3>2, <3>3, <3>4
  <2>2. CASE k = i - 1
    <3>1. At(r, k) = a /\ At(r, k + 1) = b
      BY <1>1, <1>5, <2>2
    <3>2. b # x
      BY <1>1, <1>2, <1>9, <2>2
    <3>3. QED
      BY <1>6, <1>7, <3>1, <3>2
  <2>3. CASE k >= i
    <3>1. At(r, k) = At(s, k + 1) /\ At(r, k + 1) = At(s, k + 2)
      BY <1>1, <1>5, <2>3
    <3>2. At(s, k + 2) # b /\ At(s, k + 2) # x
      BY <1>1, <1>2, <1>9, <2>3
    <3>3. mem[At(s, k + 2)]["prev"] = At(s, k + 1)
      <4>1. k + 2 \in 1..(Len(s) + 1) /\ (k + 2) - 1 = k + 1
        BY <1>1, <2>3
      <4>2. mem[At(s, k + 2)]["prev"] = At(s, (k + 2) - 1)
        BY <4>1, ChainLinks
      <4>3. QED
        BY <4>1, <4>2
    <3>4. At(s, k + 2) \in OnLine
      BY <1>1
    <3>5. QED
      BY <1>6, <1>7, <3>1, <3>2, <3>3, <3>4
  <2>4. QED
    BY <1>1, <2>1, <2>2, <2>3
<1>12. DOMAIN r = 1..(Len(s) - 1)
  BY <1>1, <1>4
<1> DEFINE idx(k) == IF k < i THEN k ELSE k + 1
<1>13. \A k \in DOMAIN r : idx(k) \in 1..Len(s) /\ idx(k) # i /\ r[k] = s[idx(k)]
  <2>1. \A k \in 1..(Len(s) - 1) : idx(k) \in 1..Len(s) /\ idx(k) # i
    BY <1>1
  <2>2. \A k \in 1..(Len(s) - 1) : r[k] = s[idx(k)]
    BY <1>4
  <2>3. QED
    BY <1>12, <2>1, <2>2
<1>14. \A j, k \in DOMAIN r : r[j] = r[k] => j = k
  <2>1. \A j, k \in 1..(Len(s) - 1) : idx(j) = idx(k) => j = k
    BY <1>1
  <2> HIDE DEF idx
  <2>2. QED
    BY <1>3, <1>12, <1>13, <2>1
<1>15. ToSet(r) = OnList \ {x}
  <2>1. ToSet(s) = OnList
    BY <1>1 DEF Chain
  <2>2. \A e \in OnList \ {x} : \E k \in DOMAIN r : r[k] = e
    <3> TAKE e \in OnList \ {x}
    <3>1. PICK j \in 1..Len(s) : s[j] = e
      BY <1>1, <2>1 DEF ToSet
    <3>2. j # i
      BY <3>1 DEF x
    <3>3. CASE j < i
      <4>1. j \in 1..(Len(s) - 1) /\ idx(j) = j
        BY <1>1, <3>3
      <4> HIDE DEF idx
      <4>2. QED
        BY <1>12, <1>13, <3>1, <4>1
    <3>4. CASE j > i
      <4>1. j - 1 \in 1..(Len(s) - 1) /\ idx(j - 1) = j
        BY <1>1, <3>4
      <4> HIDE DEF idx
      <4>2. QED
        BY <1>12, <1>13, <3>1, <4>1
    <3>5. j < i \/ j > i
      BY <1>1, <3>2
    <3>6. QED
      BY <3>3, <3>4, <3>5, Zenon
  <2>3. \A k \in DOMAIN r : r[k] \in OnList \ {x}
    <3> HIDE DEF idx
    <3>1. QED
      BY <1>1, <1>3, <1>13 DEF x
  <2>4. QED
    BY <2>2, <2>3 DEF ToSet
<1>16. r \in Seq(OnList \ {x})
  <2> HIDE DEF idx
  <2>1. \A k \in 1..Len(r) : r[k] \in OnList \ {x}
    BY <1>1, <1>3, <1>4, <1>12, <1>13 DEF x
  <2>2. QED
    BY <1>4, <2>1, SeqWithin
<1>17. Chain(r)'
  BY <1>1, <1>2, <1>4, <1>10, <1>11, <1>14, <1>15 DEF Chain
<1>18. r \in SeqOf(OnList', Cardinality(OnList'))
  <2>1. IsFiniteSet(OnList \ {x})
    BY OnListFinite, FS_Subset
  <2>2. QED
    BY <1>2, <1>14, <1>16, <2>1, NoRepeat
<1>19. QED
  BY <1>17, <1>18 DEF Chains, r

\* A step that changes no link of a line on the list keeps the list.
LEMMA ChainStays ==
  ASSUME NEW s \in Chains, owner' = owner, \A m \in OnLine : mem'[m] = mem[m]
  PROVE  s \in Chains'
<1>1. OnList' = OnList
  BY DEF OnList
<1>2. Chain(s) /\ Len(s) \in Nat /\ \A i \in Int : At(s, i) \in OnLine
  BY ChainFacts
<1>3. Chain(s)'
  BY <1>1, <1>2 DEF Chain
<1>4. QED
  BY <1>1, <1>3 DEF Chains

LEMMA ListedAlways == \A s : s \in Chains => Listed = s
  BY ListedIs

LEMMA ListedNext == \A s : s \in Chains' => Listed' = s
<1>1. (\A s : s \in Chains => Listed = s)'
  BY ListedAlways, PTL
<1>2. QED
  BY <1>1

-----------------------------------------------------------------------------
\* The calls, in terms of the sequence s.
Taken(p, s, i) ==
  /\ TakenOut(p, At(s, i - 1), s[i], At(s, i + 1))
  /\ owner' = [owner EXCEPT ![s[i]] = p]
  /\ result' = s[i]

Placed(p, s, i, x) ==
  /\ owner[x] = p
  /\ LinkedIn(p, At(s, i - 1), x, At(s, i))
  /\ owner' = [owner EXCEPT ![x] = "list"]
  /\ result' = "SUCCESS"

\* The neighbours of a position.
LEMMA Around ==
  ASSUME NEW s \in Chains, NEW i \in 1..Len(s)
  PROVE  /\ s[i] \in OnList /\ s[i] = At(s, i)
         /\ mem[s[i]]["next"] = At(s, i + 1) /\ mem[s[i]]["prev"] = At(s, i - 1)
         /\ At(s, i + 1) \in OnLine \ {s[i]} /\ At(s, i - 1) \in OnLine \ {s[i]}
<1>1. /\ Len(s) \in Nat /\ s[i] \in OnList /\ s[i] = At(s, i)
      /\ \A k \in Int : At(s, k) \in OnLine
  BY ChainFacts
<1>2. i \in 0..Len(s) /\ i \in 1..(Len(s) + 1) /\ i - 1 \in 0..Len(s)
      /\ i + 1 \in 1..(Len(s) + 1) /\ i # i - 1 /\ i # i + 1
      /\ i - 1 \in Int /\ i + 1 \in Int
  BY <1>1
<1>3. mem[s[i]]["next"] = At(s, i + 1) /\ mem[s[i]]["prev"] = At(s, i - 1)
  BY <1>1, <1>2, ChainLinks
<1>4. At(s, i + 1) # At(s, i) /\ At(s, i - 1) # At(s, i)
  BY <1>2, Distinct
<1>5. QED
  BY <1>1, <1>2, <1>3, <1>4

LEMMA Ends ==
  ASSUME NEW s \in Chains
  PROVE  /\ mem[Head_]["next"] = At(s, 1) /\ mem[Head_]["prev"] = At(s, Len(s))
         /\ At(s, 1) \in OnLine /\ At(s, Len(s)) \in OnLine
         /\ At(s, 0) = Head_ /\ At(s, Len(s) + 1) = Head_
         /\ (s = <<>>) = (At(s, 1) = Head_) /\ (s = <<>>) = (At(s, Len(s)) = Head_)
         /\ Len(s) \in Nat /\ (s # <<>> => 1 \in 1..Len(s) /\ Len(s) \in 1..Len(s))
<1>1. /\ Len(s) \in Nat /\ s \in Seq(OnList) /\ DOMAIN s = 1..Len(s)
      /\ \A k \in 1..Len(s) : At(s, k) = s[k] /\ s[k] \in OnList
      /\ At(s, 0) = Head_ /\ At(s, Len(s) + 1) = Head_
      /\ \A k \in Int : At(s, k) \in OnLine
  BY ChainFacts
<1>2. 0 \in 0..Len(s) /\ Len(s) + 1 \in 1..(Len(s) + 1) /\ (Len(s) + 1) - 1 = Len(s)
      /\ 0 + 1 = 1
  BY <1>1
<1>3. mem[At(s, 0)]["next"] = At(s, 0 + 1)
      /\ mem[At(s, Len(s) + 1)]["prev"] = At(s, (Len(s) + 1) - 1)
  BY <1>2, ChainLinks
<1>4. Head_ \notin OnList
  BY HeadLine DEF OnList
<1>5. s = <<>> => Len(s) = 0
  OBVIOUS
<1>6. s # <<>> => Len(s) # 0
  BY <1>1, EmptySeq
<1>7. Len(s) # 0 => 1 \in 1..Len(s) /\ Len(s) \in 1..Len(s)
  BY <1>1
<1>8. Len(s) = 0 => At(s, 1) = Head_ /\ At(s, Len(s)) = Head_
  BY <1>1
<1>9. Len(s) # 0 => At(s, 1) # Head_ /\ At(s, Len(s)) # Head_
  BY <1>1, <1>4, <1>7
<1>10. (s = <<>>) = (Len(s) = 0)
  BY <1>5, <1>6
<1>11. (s = <<>>) = (At(s, 1) = Head_) /\ (s = <<>>) = (At(s, Len(s)) = Head_)
  BY <1>8, <1>9, <1>10
<1>12. QED
  BY <1>1, <1>2, <1>3, <1>7, <1>10, <1>11

LEMMA GetHeadIs ==
  ASSUME ListInv, NEW p \in Proc, NEW s \in Chains, getHead(p)
  PROVE  IF s = <<>> THEN Looked(p, Head_) /\ owner' = owner /\ result' = NULL
         ELSE 1 \in 1..Len(s) /\ Taken(p, s, 1)
<1>1. "next" \in Link /\ Opposite("next") = "prev" /\ GetEnd(p, "next")
  BY DEF Link, Opposite, getHead
<1>2. CASE s = <<>>
  BY <1>1, <1>2, Ends, GetNothingLinks
<1>3. CASE s # <<>>
  <2>1. /\ 1 \in 1..Len(s) /\ s[1] \in OnList /\ mem[Head_]["next"] = s[1]
        /\ mem[s[1]]["next"] = At(s, 1 + 1) /\ mem[s[1]]["prev"] = At(s, 1 - 1)
        /\ At(s, 1 + 1) \in OnLine \ {s[1]} /\ At(s, 1 - 1) = Head_
    BY <1>3, Ends, Around
  <2>2. TakenOut(p, Head_, s[1], mem[s[1]]["next"])
        /\ result' = s[1] /\ owner' = [owner EXCEPT ![s[1]] = p]
    BY <1>1, <2>1, GetEndLinks
  <2>3. QED
    BY <1>3, <2>1, <2>2 DEF Taken
<1>4. QED
  BY <1>2, <1>3

LEMMA GetTailIs ==
  ASSUME ListInv, NEW p \in Proc, NEW s \in Chains, getTail(p)
  PROVE  IF s = <<>> THEN Looked(p, Head_) /\ owner' = owner /\ result' = NULL
         ELSE Len(s) \in 1..Len(s) /\ Taken(p, s, Len(s))
<1>1. "prev" \in Link /\ Opposite("prev") = "next" /\ GetEnd(p, "prev")
  BY DEF Link, Opposite, getTail
<1>2. CASE s = <<>>
  BY <1>1, <1>2, Ends, GetNothingLinks
<1>3. CASE s # <<>>
  <2> DEFINE n == Len(s)
  <2>1. /\ n \in 1..n /\ At(s, n + 1) = Head_ /\ mem[Head_]["prev"] = At(s, n)
    BY <1>3, Ends
  <2>2. /\ s[n] \in OnList /\ s[n] = At(s, n)
        /\ mem[s[n]]["next"] = At(s, n + 1) /\ mem[s[n]]["prev"] = At(s, n - 1)
        /\ At(s, n - 1) \in OnLine \ {s[n]}
    BY <2>1, Around
  <2> HIDE DEF n
  <2>3. TakenOut(p, mem[s[n]]["prev"], s[n], Head_)
        /\ result' = s[n] /\ owner' = [owner EXCEPT ![s[n]] = p]
    BY <1>1, <2>1, <2>2, GetEndLinks
  <2>4. Taken(p, s, n)
    BY <2>1, <2>2, <2>3 DEF Taken
  <2>5. QED
    BY <1>3, <2>1, <2>4 DEF n
<1>4. QED
  BY <1>2, <1>3

\* An element on the list has a position.
LEMMA PositionOf ==
  ASSUME NEW s \in Chains, NEW e \in OnList
  PROVE  \E i \in 1..Len(s) : s[i] = e
<1>1. ToSet(s) = OnList /\ DOMAIN s = 1..Len(s)
  BY ChainFacts DEF Chain
<1>2. QED
  BY <1>1 DEF ToSet

LEMMA RemoveIs ==
  ASSUME ListInv, NEW p \in Proc, NEW s \in Chains, NEW e \in Elem, remove(p, e)
  PROVE  \E i \in 1..Len(s) : s[i] = e /\ Taken(p, s, i)
<1>1. e \in OnList /\ owner' = [owner EXCEPT ![e] = p] /\ result' = e
  BY DEF remove, OnList
<1>2. PICK i \in 1..Len(s) : s[i] = e
  BY <1>1, PositionOf
<1>3. /\ mem[e]["next"] = At(s, i + 1) /\ mem[e]["prev"] = At(s, i - 1)
      /\ At(s, i + 1) \in OnLine \ {e} /\ At(s, i - 1) \in OnLine \ {e}
  BY <1>2, Around
<1>4. TakenOut(p, mem[e]["prev"], e, mem[e]["next"])
  BY <1>1, <1>3, RemoveLinks
<1>5. Taken(p, s, i)
  BY <1>1, <1>2, <1>3, <1>4 DEF Taken
<1>6. QED
  BY <1>2, <1>5

LEMMA PutHeadIs ==
  ASSUME ListInv, NEW p \in Proc, NEW s \in Chains, NEW e \in Elem, putHead(p, e)
  PROVE  1 \in 1..(Len(s) + 1) /\ Placed(p, s, 1, e)
<1>1. "next" \in Link /\ PutEnd(p, e, "next")
  BY DEF Link, putHead
<1>2. /\ mem[Head_]["next"] = At(s, 1) /\ At(s, 1) \in OnLine
      /\ At(s, 1 - 1) = Head_ /\ 1 \in 1..(Len(s) + 1)
  BY Ends
<1>3. LinkedIn(p, Head_, e, mem[Head_]["next"])
  BY <1>1, <1>2, PutEndLinks
<1>4. owner[e] = p /\ owner' = [owner EXCEPT ![e] = "list"] /\ result' = "SUCCESS"
  BY <1>1 DEF PutEnd
<1>5. QED
  BY <1>2, <1>3, <1>4 DEF Placed

LEMMA PutTailIs ==
  ASSUME ListInv, NEW p \in Proc, NEW s \in Chains, NEW e \in Elem, putTail(p, e)
  PROVE  Len(s) + 1 \in 1..(Len(s) + 1) /\ Placed(p, s, Len(s) + 1, e)
<1>1. "prev" \in Link /\ PutEnd(p, e, "prev")
  BY DEF Link, putTail
<1>2. /\ mem[Head_]["prev"] = At(s, Len(s)) /\ At(s, Len(s)) \in OnLine
      /\ At(s, Len(s) + 1) = Head_ /\ Len(s) + 1 \in 1..(Len(s) + 1)
      /\ (Len(s) + 1) - 1 = Len(s)
  BY Ends
<1>3. LinkedIn(p, mem[Head_]["prev"], e, Head_)
  BY <1>1, <1>2, PutEndLinks
<1>4. owner[e] = p /\ owner' = [owner EXCEPT ![e] = "list"] /\ result' = "SUCCESS"
  BY <1>1 DEF PutEnd
<1>5. QED
  BY <1>2, <1>3, <1>4 DEF Placed

LEMMA InsertIs ==
  ASSUME ListInv, NEW p \in Proc, NEW s \in Chains, NEW e \in Elem, NEW cur \in Elem,
         insert(p, e, cur)
  PROVE  \E i \in 1..Len(s) : s[i] = cur /\ Placed(p, s, i, e)
<1>1. /\ cur \in OnList /\ owner[e] = p
      /\ owner' = [owner EXCEPT ![e] = "list"] /\ result' = "SUCCESS"
  BY DEF insert, OnList
<1>2. PICK i \in 1..Len(s) : s[i] = cur
  BY <1>1, PositionOf
<1>3. /\ mem[cur]["prev"] = At(s, i - 1) /\ At(s, i - 1) \in OnLine /\ At(s, i) = cur
  BY <1>2, Around
<1>4. LinkedIn(p, mem[cur]["prev"], e, cur)
  BY <1>1, <1>3, InsertLinks
<1>5. Placed(p, s, i, e)
  BY <1>1, <1>3, <1>4 DEF Placed
<1>6. QED
  BY <1>2, <1>5

\* A call of p that is over leaves the caches as CacheInv asks.
LEMMA TakenKeeps ==
  ASSUME ListInv, NEW p \in Proc, NEW s \in Chains, NEW i \in 1..Len(s), Taken(p, s, i)
  PROVE  ListInv' /\ RemoveAt(s, i) \in Chains'
<1> DEFINE a == At(s, i - 1)
           b == At(s, i + 1)
           x == s[i]
<1>1. /\ mem \in [Line -> Links] /\ cache \in [Proc -> [Line -> CacheLine]]
      /\ owner \in [Elem -> Proc \cup {"list"}]
  BY DEF ListInv, ListTypeOK
<1>2. TakenOut(p, a, x, b) /\ owner' = [owner EXCEPT ![x] = p] /\ result' = x
  BY DEF Taken
<1>3. RemoveAt(s, i) \in Chains'
  BY <1>1, <1>2, ChainRemove
<1>4. x \in Elem /\ x \in OnList
  BY ChainFacts DEF OnList
<1> HIDE DEF a, b, x
<1>5. mem' \in [Line -> Links]
  BY <1>2 DEF TakenOut
<1>6. PICK held \in [Line -> CacheLine] :
        /\ cache' = [cache EXCEPT ![p] = held]
        /\ \A m \in Line \ {x} : held[m] = IF m \in {a, b} THEN NoLine ELSE cache[p][m]
        /\ x \notin CachedLine => held[x] = NoLine
  BY <1>2 DEF TakenOut
<1>7. cache' \in [Proc -> [Line -> CacheLine]]
  BY <1>1, <1>6
<1>8. owner' \in [Elem -> Proc \cup {"list"}]
  BY <1>1, <1>2
<1>9. ListTypeOK'
  BY <1>2, <1>4, <1>5, <1>7, <1>8 DEF ListTypeOK
<1>10. CacheInv'
  <2> SUFFICES ASSUME NEW q \in Proc, NEW l \in Line, cache'[q][l] # NoLine
               PROVE  /\ l \in CachedLine
                      /\ l \in Elem => owner'[l] = q
                      /\ l = Head_ => q \in Arm /\ cache'[q][l].state = "clean"
    BY DEF CacheInv
  <2>1. CASE q = p /\ l = x
    BY <1>1, <1>2, <1>4, <1>6, <2>1, HeadLine
  <2>2. CASE q # p \/ l # x
    <3>1. cache'[q][l] = cache[q][l]
      BY <1>1, <1>6, <2>2
    <3>2. /\ l \in CachedLine
          /\ l \in Elem => owner[l] = q
          /\ l = Head_ => q \in Arm /\ cache[q][l].state = "clean"
      BY <3>1 DEF ListInv, CacheInv
    <3>3. l # x
      BY <1>4, <2>2, <3>2, LineAssumption DEF OnList
    <3>4. QED
      BY <1>1, <1>2, <3>1, <3>2, <3>3
  <2>3. QED
    BY <2>1, <2>2
<1>11. QED
  BY <1>3, <1>9, <1>10 DEF ListInv, LinksAgree

LEMMA PlacedKeeps ==
  ASSUME ListInv, NEW p \in Proc, NEW s \in Chains, NEW i \in 1..(Len(s) + 1),
         NEW x \in Elem, Placed(p, s, i, x)
  PROVE  ListInv' /\ InsertAt(s, i, x) \in Chains'
<1> DEFINE a == At(s, i - 1)
           b == At(s, i)
<1>1. /\ mem \in [Line -> Links] /\ cache \in [Proc -> [Line -> CacheLine]]
      /\ owner \in [Elem -> Proc \cup {"list"}]
  BY DEF ListInv, ListTypeOK
<1>2. /\ owner[x] = p /\ owner[x] # "list"
      /\ LinkedIn(p, a, x, b) /\ owner' = [owner EXCEPT ![x] = "list"]
      /\ result' = "SUCCESS"
  BY LineAssumption DEF Placed
<1>3. InsertAt(s, i, x) \in Chains'
  BY <1>1, <1>2, ChainInsert
<1> HIDE DEF a, b
<1> DEFINE held == [m \in Line |-> IF m \in {a, x, b} THEN NoLine ELSE cache[p][m]]
<1>4. mem' \in [Line -> Links] /\ cache' = [cache EXCEPT ![p] = held]
  BY <1>2 DEF LinkedIn
<1>5. held \in [Line -> CacheLine]
  BY <1>1 DEF CacheLine
<1>6. \A m \in Line : held[m] = IF m \in {a, x, b} THEN NoLine ELSE cache[p][m]
  OBVIOUS
<1> HIDE DEF held
<1>7. ListTypeOK'
  BY <1>1, <1>2, <1>4, <1>5 DEF ListTypeOK
<1>8. CacheInv'
  <2> SUFFICES ASSUME NEW q \in Proc, NEW l \in Line, cache'[q][l] # NoLine
               PROVE  /\ l \in CachedLine
                      /\ l \in Elem => owner'[l] = q
                      /\ l = Head_ => q \in Arm /\ cache'[q][l].state = "clean"
    BY DEF CacheInv
  <2>1. cache'[q][l] = cache[q][l] /\ (q = p => l # x)
    BY <1>1, <1>4, <1>6
  <2>2. /\ l \in CachedLine
        /\ l \in Elem => owner[l] = q
        /\ l = Head_ => q \in Arm /\ cache[q][l].state = "clean"
    BY <2>1 DEF ListInv, CacheInv
  <2>3. l # x
    BY <1>2, <2>1, <2>2
  <2>4. QED
    BY <1>1, <1>2, <2>1, <2>2, <2>3
<1>9. QED
  BY <1>3, <1>7, <1>8 DEF ListInv, LinksAgree

\* A step that changes neither the links of the list nor an owner, and adds
\* no line to a cache that may not be there.
Quiet ==
  /\ mem' \in [Line -> Links] /\ \A m \in OnLine : mem'[m] = mem[m]
  /\ cache' \in [Proc -> [Line -> CacheLine]]
  /\ \A q \in Proc, l \in Line : cache'[q][l] # NoLine =>
       /\ l \in CachedLine
       /\ l \in Elem => owner[l] = q
       /\ l = Head_ => q \in Arm /\ cache'[q][l].state = "clean"
  /\ owner' = owner

LEMMA QuietKeeps ==
  ASSUME ListInv, NEW s \in Chains, Quiet,
         result' \in Elem \cup {NULL, "SUCCESS", "TRUE", "FALSE"}
  PROVE  ListInv' /\ s \in Chains'
<1>1. s \in Chains'
  BY ChainStays DEF Quiet
<1>2. ListTypeOK'
  BY DEF ListInv, ListTypeOK, Quiet
<1>3. CacheInv'
  BY DEF CacheInv, Quiet
<1>4. QED
  BY <1>1, <1>2, <1>3 DEF ListInv, LinksAgree

LEMMA LookedQuiet ==
  ASSUME ListInv, NEW p \in Proc, NEW l \in Line, Looked(p, l), owner' = owner
  PROVE  Quiet
<1> DEFINE held == [m \in Line |-> IF m = l THEN NoLine ELSE cache[p][m]]
<1>1. /\ mem \in [Line -> Links] /\ cache \in [Proc -> [Line -> CacheLine]]
  BY DEF ListInv, ListTypeOK
<1>2. mem' = mem /\ cache' = [cache EXCEPT ![p] = held]
  BY DEF Looked
<1>3. held \in [Line -> CacheLine]
  BY <1>1 DEF CacheLine
<1>4. \A m \in Line : held[m] = IF m = l THEN NoLine ELSE cache[p][m]
  OBVIOUS
<1> HIDE DEF held
<1>5. cache' \in [Proc -> [Line -> CacheLine]]
  BY <1>1, <1>2, <1>3
<1>6. \A q \in Proc, m \in Line : cache'[q][m] # NoLine => cache'[q][m] = cache[q][m]
  BY <1>1, <1>2, <1>4
<1>7. QED
  BY <1>1, <1>2, <1>5, <1>6 DEF ListInv, CacheInv, Quiet

LEMMA UseQuiet ==
  ASSUME ListInv, NEW p \in Proc, NEW e \in Elem, Use(p, e)
  PROVE  Quiet /\ result' = result
<1> DEFINE v == View(p)
           r == Cached(v, e, Val(v, e), "dirty")
<1>1. /\ ViewOK(v) /\ v.line = cache[p]
  BY StartView
<1>2. /\ owner[e] = p /\ e \in CachedLine /\ cache' = [cache EXCEPT ![p] = r.line]
      /\ mem' = mem /\ owner' = owner /\ result' = result
  BY DEF Use
<1>3. e \in Line /\ e # Head_
  BY HeadLine
<1> HIDE DEF v
<1>4. Val(v, e) \in Links
  BY <1>1, <1>3, ValType
<1>5. ViewOK(r) /\ \A m \in Line : m # e => r.line[m] = cache[p][m]
  BY <1>1, <1>2, <1>4, CachedView
<1> HIDE DEF r
<1>6. /\ mem \in [Line -> Links] /\ cache \in [Proc -> [Line -> CacheLine]]
  BY DEF ListInv, ListTypeOK
<1>7. cache' \in [Proc -> [Line -> CacheLine]]
  BY <1>2, <1>5, <1>6 DEF ViewOK
<1>8. \A q \in Proc, m \in Line : cache'[q][m] = cache[q][m] \/ (q = p /\ m = e)
  BY <1>2, <1>5, <1>6
<1>9. QED
  BY <1>2, <1>3, <1>6, <1>7, <1>8 DEF ListInv, CacheInv, Quiet

LEMMA EvictQuiet ==
  ASSUME ListInv, NEW p \in Proc, NEW l \in Line, Evict(p, l)
  PROVE  Quiet /\ result' = result
<1> DEFINE v == View(p)
           r == Cache_wbInv(v, l)
<1>1. /\ ViewOK(v) /\ v.mem = mem /\ v.line = cache[p]
  BY StartView
<1>2. /\ cache[p][l] # NoLine /\ mem' = r.mem /\ cache' = [cache EXCEPT ![p] = r.line]
      /\ owner' = owner /\ result' = result
  BY DEF Evict, Become
<1> HIDE DEF v
<1>3. /\ l \in CachedLine
      /\ l \in Elem => owner[l] = p
      /\ l = Head_ => p \in Arm /\ cache[p][l].state = "clean"
  BY <1>2 DEF ListInv, CacheInv
<1> DEFINE t == IF v.line[l].state = "dirty" THEN [v EXCEPT !.mem[l] = Val(v, l)] ELSE v
<1>4. ViewOK(t) /\ t.line = cache[p] /\ \A m \in OnLine : t.mem[m] = mem[m]
  <2>1. CASE v.line[l].state = "dirty"
    <3> DEFINE w == [v EXCEPT !.mem[l] = Val(v, l)]
    <3>1. /\ w.mem = [v.mem EXCEPT ![l] = Val(v, l)]
          /\ w.line = v.line
          /\ w \in [mem : [Line -> Links], line : [Line -> CacheLine]]
      BY <1>1, ValType DEF ViewOK
    <3>2. l \notin OnLine
      BY <1>1, <1>3, <2>1, OnLineFacts DEF Line
    <3> HIDE DEF w
    <3>3. ViewOK(w) /\ w.line = cache[p] /\ \A m \in OnLine : w.mem[m] = mem[m]
      BY <1>1, <3>1, <3>2, OnLineFacts DEF ViewOK
    <3>4. QED
      BY <2>1, <3>3 DEF w
  <2>2. CASE v.line[l].state # "dirty"
    BY <1>1, <2>2
  <2>3. QED
    BY <2>1, <2>2
<1>5. r = Cache_inv(t, l)
  BY DEF Cache_wbInv
<1> HIDE DEF t, r
<1>6. ViewOK(r) /\ r.mem = t.mem /\ r.line[l] = NoLine
      /\ \A m \in Line : m # l => r.line[m] = cache[p][m]
  BY <1>4, <1>5, InvView
<1>7. /\ mem \in [Line -> Links] /\ cache \in [Proc -> [Line -> CacheLine]]
  BY DEF ListInv, ListTypeOK
<1>8. mem' \in [Line -> Links] /\ cache' \in [Proc -> [Line -> CacheLine]]
  BY <1>2, <1>6, <1>7 DEF ViewOK
<1>9. \A m \in OnLine : mem'[m] = mem[m]
  BY <1>2, <1>4, <1>6
<1>10. \A q \in Proc, m \in Line : cache'[q][m] # NoLine => cache'[q][m] = cache[q][m]
  BY <1>2, <1>6, <1>7
<1>11. QED
  BY <1>2, <1>8, <1>9, <1>10 DEF ListInv, CacheInv, Quiet

\* ListMP.c: "ARM speculative execution might have pulled attrs into cache".
OnlyHeadSpeculated == Speculated \subseteq {Head_}

LEMMA SpeculateQuiet ==
  ASSUME ListInv, OnlyHeadSpeculated, NEW p \in Proc, NEW l \in Line, Speculate(p, l)
  PROVE  Quiet /\ result' = result
<1> DEFINE v == View(p)
<1>1. /\ ViewOK(v) /\ v.mem = mem /\ v.line = cache[p]
  BY StartView
<1>2. /\ p \in Arm /\ l = Head_ /\ l \in CachedLine /\ cache[p][l] = NoLine
      /\ Become(p, Read(v, l))
      /\ owner' = owner /\ result' = result
  BY LineAssumption DEF Speculate, OnlyHeadSpeculated
<1>3. mem[l] \in Links
  BY DEF ListInv, ListTypeOK
<1> HIDE DEF v
<1> DEFINE r == Cached(v, l, mem[l], "clean")
<1>4. Read(v, l) = r
  BY <1>1, <1>2 DEF Read
<1>5. /\ ViewOK(r) /\ r.mem = mem /\ r.line[l].state = "clean"
      /\ \A m \in Line : m # l => r.line[m] = cache[p][m]
  BY <1>1, <1>2, <1>3, CachedView
<1> HIDE DEF r
<1>6. mem' = mem /\ cache' = [cache EXCEPT ![p] = r.line]
  BY <1>2, <1>4, <1>5 DEF Become
<1>7. /\ mem \in [Line -> Links] /\ cache \in [Proc -> [Line -> CacheLine]]
  BY DEF ListInv, ListTypeOK
<1>8. cache' \in [Proc -> [Line -> CacheLine]]
  BY <1>5, <1>6, <1>7 DEF ViewOK
<1>9. \A q \in Proc, m \in Line : (q # p \/ m # l) => cache'[q][m] = cache[q][m]
  BY <1>5, <1>6, <1>7
<1>10. cache'[p][l].state = "clean"
  BY <1>5, <1>6, <1>7
<1>11. QED
  BY <1>2, <1>6, <1>7, <1>8, <1>9, <1>10, HeadLine DEF ListInv, CacheInv, Quiet

\* next and prev give the neighbours in the sequence, NULL at its ends.
LEMMA NextIs ==
  ASSUME ListInv, NEW p \in Proc, NEW s \in Chains, NEW l \in Line, next(p, l)
  PROVE  /\ Looked(p, l) /\ owner' = owner
         /\ \/ result' = IF s = <<>> THEN NULL ELSE Head(s)
            \/ \E i \in DOMAIN s : result' = IF i = Len(s) THEN NULL ELSE s[i + 1]
         /\ result' \in Elem \cup {NULL}
<1>1. "next" \in Link /\ Neighbour(p, l, "next")
  BY DEF Link, next
<1>2. l \in OnLine
  BY <1>1 DEF Neighbour, Line, OnLine, OnList
<1>3. /\ Looked(p, l) /\ owner' = owner
      /\ result' = IF mem[l]["next"] = Head_ THEN NULL ELSE mem[l]["next"]
  BY <1>1, <1>2, NeighbourLinks
<1>4. /\ Len(s) \in Nat /\ DOMAIN s = 1..Len(s)
      /\ \A k \in 1..Len(s) : At(s, k) = s[k] /\ s[k] \in OnList
      /\ At(s, Len(s) + 1) = Head_
  BY ChainFacts
<1>5. OnList \subseteq Elem /\ Head_ \notin OnList
  BY HeadLine DEF OnList
<1>6. CASE l = Head_
  <2>1. /\ mem[l]["next"] = At(s, 1) /\ (s = <<>>) = (At(s, 1) = Head_)
        /\ s # <<>> => 1 \in 1..Len(s)
    BY <1>6, Ends
  <2>2. s # <<>> => Head(s) = At(s, 1) /\ At(s, 1) \in Elem
    BY <1>4, <1>5, <2>1
  <2>3. result' = IF s = <<>> THEN NULL ELSE Head(s)
    BY <1>3, <2>1, <2>2
  <2>4. QED
    BY <1>3, <2>1, <2>2, <2>3
<1>7. CASE l # Head_
  <2>1. PICK i \in 1..Len(s) : s[i] = l
    BY <1>2, <1>7, PositionOf DEF OnLine
  <2>2. mem[l]["next"] = At(s, i + 1)
    BY <2>1, Around
  <2>3. i = Len(s) \/ i + 1 \in 1..Len(s)
    <3>1. \A n \in Nat : \A k \in 1..n : k = n \/ k + 1 \in 1..n
      OBVIOUS
    <3>2. QED
      BY <1>4, <3>1
  <2>4. CASE i = Len(s)
    BY <1>3, <1>4, <2>1, <2>2, <2>4
  <2>5. CASE i # Len(s)
    <3>1. mem[l]["next"] = s[i + 1] /\ s[i + 1] \in Elem /\ s[i + 1] # Head_
      BY <1>4, <1>5, <2>2, <2>3, <2>5
    <3>2. QED
      BY <1>3, <1>4, <2>1, <2>5, <3>1
  <2>6. QED
    BY <2>4, <2>5
<1>8. QED
  BY <1>6, <1>7

LEMMA PrevIs ==
  ASSUME ListInv, NEW p \in Proc, NEW s \in Chains, NEW l \in Line, prev(p, l)
  PROVE  /\ Looked(p, l) /\ owner' = owner
         /\ \/ result' = IF s = <<>> THEN NULL ELSE Last(s)
            \/ \E i \in DOMAIN s : result' = IF i = 1 THEN NULL ELSE s[i - 1]
         /\ result' \in Elem \cup {NULL}
<1>1. "prev" \in Link /\ Neighbour(p, l, "prev")
  BY DEF Link, prev
<1>2. l \in OnLine
  BY <1>1 DEF Neighbour, Line, OnLine, OnList
<1>3. /\ Looked(p, l) /\ owner' = owner
      /\ result' = IF mem[l]["prev"] = Head_ THEN NULL ELSE mem[l]["prev"]
  BY <1>1, <1>2, NeighbourLinks
<1>4. /\ Len(s) \in Nat /\ DOMAIN s = 1..Len(s)
      /\ \A k \in 1..Len(s) : At(s, k) = s[k] /\ s[k] \in OnList
      /\ At(s, 0) = Head_
  BY ChainFacts
<1>5. OnList \subseteq Elem /\ Head_ \notin OnList
  BY HeadLine DEF OnList
<1>6. CASE l = Head_
  <2>1. /\ mem[l]["prev"] = At(s, Len(s)) /\ (s = <<>>) = (At(s, Len(s)) = Head_)
        /\ s # <<>> => Len(s) \in 1..Len(s)
    BY <1>6, Ends
  <2>2. s # <<>> => Last(s) = At(s, Len(s)) /\ At(s, Len(s)) \in Elem
    BY <1>4, <1>5, <2>1 DEF Last
  <2>3. result' = IF s = <<>> THEN NULL ELSE Last(s)
    BY <1>3, <2>1, <2>2
  <2>4. QED
    BY <1>3, <2>1, <2>2, <2>3
<1>7. CASE l # Head_
  <2>1. PICK i \in 1..Len(s) : s[i] = l
    BY <1>2, <1>7, PositionOf DEF OnLine
  <2>2. mem[l]["prev"] = At(s, i - 1)
    BY <2>1, Around
  <2>3. i = 1 \/ i - 1 \in 1..Len(s)
    BY <1>4, <2>1
  <2>4. CASE i = 1
    <3>1. mem[l]["prev"] = Head_
      BY <1>4, <2>2, <2>4
    <3>2. QED
      BY <1>3, <1>4, <2>1, <2>4, <3>1
  <2>5. CASE i # 1
    <3>1. mem[l]["prev"] = s[i - 1] /\ s[i - 1] \in Elem /\ s[i - 1] # Head_
      BY <1>4, <1>5, <2>2, <2>3, <2>5
    <3>2. QED
      BY <1>3, <1>4, <2>1, <2>5, <3>1
  <2>6. QED
    BY <2>4, <2>5
<1>8. QED
  BY <1>6, <1>7

\* Elements go on and off the list in memory as in the sequence.
LEMMA TakenStep ==
  ASSUME ListInv, NEW p \in Proc, NEW s \in Chains, NEW i \in 1..Len(s), Taken(p, s, i)
  PROVE  ListInv' /\ i \in DOMAIN Listed /\ Listed = s /\ Abstract!Take(p, i)
<1>1. ListInv' /\ RemoveAt(s, i) \in Chains'
  BY TakenKeeps
<1>2. Listed = s /\ Listed' = RemoveAt(s, i)
  BY <1>1, ListedIs, ListedNext
<1>3. QED
  BY <1>1, <1>2, ChainFacts DEF Taken, Abstract!Take, RemoveAt, Abstract!RemoveAt

LEMMA PlacedStep ==
  ASSUME ListInv, NEW p \in Proc, NEW s \in Chains, NEW i \in 1..(Len(s) + 1),
         NEW x \in Elem, Placed(p, s, i, x)
  PROVE  ListInv' /\ Listed = s /\ Abstract!Put(p, x, i)
<1>1. ListInv' /\ InsertAt(s, i, x) \in Chains'
  BY PlacedKeeps
<1>2. Listed = s /\ Listed' = InsertAt(s, i, x)
  BY <1>1, ListedIs, ListedNext
<1>3. QED
  BY <1>1, <1>2 DEF Placed, Abstract!Put, InsertAt, Abstract!InsertAt

LEMMA QuietStep ==
  ASSUME ListInv, NEW s \in Chains, Quiet,
         result' \in Elem \cup {NULL, "SUCCESS", "TRUE", "FALSE"}
  PROVE  ListInv' /\ Listed = s /\ Listed' = s /\ owner' = owner
<1>1. ListInv' /\ s \in Chains'
  BY QuietKeeps
<1>2. QED
  BY <1>1, ListedIs, ListedNext DEF Quiet

\* A step keeps the invariant, and is one of the abstract list or is not seen.
Simulated == ListInv' /\ (Abstract!Next \/ UNCHANGED <<Listed, owner, result>>)

LEMMA GetStep ==
  ASSUME ListInv, NEW p \in Proc, getHead(p) \/ getTail(p)
  PROVE  Simulated
<1>1. PICK s \in Chains : TRUE
  BY DEF ListInv, LinksAgree
<1>2. Listed = s
  BY ListedIs
<1>3. \A i \in 1..Len(s) : Taken(p, s, i) => ListInv' /\ Abstract!Take(p, i)
  BY TakenStep
<1>4. ASSUME s = <<>>, Looked(p, Head_), owner' = owner, result' = NULL
      PROVE  Simulated
  <2>1. ListInv' /\ Listed' = s
    BY <1>4, LookedQuiet, QuietStep, HeadLine
  <2>2. Abstract!getHead(p)
    BY <1>2, <1>4, <2>1 DEF Abstract!getHead, Abstract!GetNothing
  <2>3. QED
    BY <2>1, <2>2 DEF Simulated, Abstract!Next
<1>5. CASE getHead(p)
  <2>1. IF s = <<>> THEN Looked(p, Head_) /\ owner' = owner /\ result' = NULL
        ELSE 1 \in 1..Len(s) /\ Taken(p, s, 1)
    BY <1>5, GetHeadIs
  <2>2. CASE s = <<>>
    BY <1>4, <2>1, <2>2
  <2>3. CASE s # <<>>
    <3>1. ListInv' /\ Abstract!Take(p, 1)
      BY <1>3, <2>1, <2>3
    <3>2. Abstract!getHead(p)
      BY <1>2, <2>3, <3>1 DEF Abstract!getHead
    <3>3. QED
      BY <3>1, <3>2 DEF Simulated, Abstract!Next
  <2>4. QED
    BY <2>2, <2>3
<1>6. CASE getTail(p)
  <2>1. IF s = <<>> THEN Looked(p, Head_) /\ owner' = owner /\ result' = NULL
        ELSE Len(s) \in 1..Len(s) /\ Taken(p, s, Len(s))
    BY <1>6, GetTailIs
  <2>2. CASE s = <<>>
    BY <1>4, <2>1, <2>2
  <2>3. CASE s # <<>>
    <3>1. ListInv' /\ Abstract!Take(p, Len(s))
      BY <1>3, <2>1, <2>3
    <3>2. Abstract!getTail(p)
      BY <1>2, <2>3, <3>1 DEF Abstract!getTail
    <3>3. QED
      BY <3>1, <3>2 DEF Simulated, Abstract!Next
  <2>4. QED
    BY <2>2, <2>3
<1>7. QED
  BY <1>5, <1>6

LEMMA PutStep ==
  ASSUME ListInv, NEW p \in Proc, NEW e \in Elem, putHead(p, e) \/ putTail(p, e)
  PROVE  Simulated
<1>1. PICK s \in Chains : TRUE
  BY DEF ListInv, LinksAgree
<1>2. CASE putHead(p, e)
  <2>1. ListInv' /\ Abstract!Put(p, e, 1)
    BY <1>2, PutHeadIs, PlacedStep
  <2>2. QED
    BY <2>1 DEF Simulated, Abstract!Next, Abstract!putHead
<1>3. CASE putTail(p, e)
  <2>1. ListInv' /\ Listed = s /\ Abstract!Put(p, e, Len(s) + 1)
    BY <1>3, PutTailIs, PlacedStep
  <2>2. QED
    BY <2>1 DEF Simulated, Abstract!Next, Abstract!putTail
<1>4. QED
  BY <1>2, <1>3

LEMMA InsertStep ==
  ASSUME ListInv, NEW p \in Proc, NEW e \in Elem, NEW cur \in Elem, insert(p, e, cur)
  PROVE  Simulated
<1>1. PICK s \in Chains : TRUE
  BY DEF ListInv, LinksAgree
<1>2. PICK i \in 1..Len(s) : s[i] = cur /\ Placed(p, s, i, e)
  BY InsertIs
<1>3. i \in 1..(Len(s) + 1) /\ i \in DOMAIN s
  BY ChainFacts
<1>4. ListInv' /\ Listed = s /\ Abstract!Put(p, e, i)
  BY <1>2, <1>3, PlacedStep
<1>5. Abstract!insert(p, e, cur)
  BY <1>2, <1>3, <1>4 DEF Abstract!insert
<1>6. QED
  BY <1>4, <1>5 DEF Simulated, Abstract!Next

LEMMA RemoveStep ==
  ASSUME ListInv, NEW p \in Proc, NEW e \in Elem, remove(p, e)
  PROVE  Simulated
<1>1. PICK s \in Chains : TRUE
  BY DEF ListInv, LinksAgree
<1>2. PICK i \in 1..Len(s) : s[i] = e /\ Taken(p, s, i)
  BY RemoveIs
<1>3. ListInv' /\ Listed = s /\ i \in DOMAIN Listed /\ Abstract!Take(p, i)
  BY <1>2, TakenStep
<1>4. Abstract!remove(p, e)
  BY <1>2, <1>3 DEF Abstract!remove
<1>5. QED
  BY <1>3, <1>4 DEF Simulated, Abstract!Next

LEMMA LookStep ==
  ASSUME ListInv, NEW p \in Proc, NEW l \in Line, empty(p) \/ next(p, l) \/ prev(p, l)
  PROVE  Simulated
<1>1. PICK s \in Chains : TRUE
  BY DEF ListInv, LinksAgree
<1>2. Listed = s
  BY ListedIs
<1>3. CASE empty(p)
  <2>1. /\ Looked(p, Head_) /\ owner' = owner
        /\ result' = IF s = <<>> THEN "TRUE" ELSE "FALSE"
    BY <1>3, EmptyLinks, Ends
  <2>2. ListInv' /\ Listed' = s
    BY <2>1, LookedQuiet, QuietStep, HeadLine
  <2>3. Abstract!empty
    BY <1>2, <2>1, <2>2 DEF Abstract!empty, Abstract!Answer
  <2>4. QED
    BY <2>2, <2>3 DEF Simulated, Abstract!Next
<1>4. CASE next(p, l)
  <2>1. /\ Looked(p, l) /\ owner' = owner /\ result' \in Elem \cup {NULL}
        /\ \/ result' = IF s = <<>> THEN NULL ELSE Head(s)
           \/ \E i \in DOMAIN s : result' = IF i = Len(s) THEN NULL ELSE s[i + 1]
    BY <1>4, NextIs
  <2>2. ListInv' /\ Listed' = s
    BY <2>1, LookedQuiet, QuietStep
  <2>3. Abstract!next
    BY <1>2, <2>1, <2>2 DEF Abstract!next, Abstract!Answer
  <2>4. QED
    BY <2>2, <2>3 DEF Simulated, Abstract!Next
<1>5. CASE prev(p, l)
  <2>1. /\ Looked(p, l) /\ owner' = owner /\ result' \in Elem \cup {NULL}
        /\ \/ result' = IF s = <<>> THEN NULL ELSE Last(s)
           \/ \E i \in DOMAIN s : result' = IF i = 1 THEN NULL ELSE s[i - 1]
    BY <1>5, PrevIs
  <2>2. ListInv' /\ Listed' = s
    BY <2>1, LookedQuiet, QuietStep
  <2>3. Abstract!prev
    BY <1>2, <2>1, <2>2 DEF Abstract!prev, Abstract!Answer, Last, Abstract!Last
  <2>4. QED
    BY <2>2, <2>3 DEF Simulated, Abstract!Next
<1>6. QED
  BY <1>3, <1>4, <1>5

\* The caches' own steps and the use of an element are not seen.
LEMMA OtherStep ==
  ASSUME ListInv, OnlyHeadSpeculated, NEW p \in Proc,
         \/ \E e \in Elem : Use(p, e)
         \/ \E l \in Line : Evict(p, l) \/ Speculate(p, l)
  PROVE  Simulated
<1>1. PICK s \in Chains : TRUE
  BY DEF ListInv, LinksAgree
<1>2. Quiet /\ result' = result
  BY UseQuiet, EvictQuiet, SpeculateQuiet
<1>3. result' \in Elem \cup {NULL, "SUCCESS", "TRUE", "FALSE"}
  BY <1>2 DEF ListInv, ListTypeOK
<1>4. QED
  BY <1>2, <1>3, QuietStep DEF Simulated

LEMMA ListStep ==
  ASSUME ListInv, OnlyHeadSpeculated, ListNext
  PROVE  Simulated
<1>1. PICK p \in Proc :
        \/ Call(p)
        \/ \E e \in Elem : Use(p, e)
        \/ \E l \in Line : Evict(p, l) \/ Speculate(p, l)
  BY DEF ListNext
<1>2. CASE Call(p)
  <2>1. CASE getHead(p) \/ getTail(p)
    BY <2>1, GetStep
  <2>2. CASE empty(p)
    BY <2>2, LookStep, HeadLine
  <2>3. ASSUME NEW e \in Elem,
               \/ putHead(p, e) \/ putTail(p, e) \/ remove(p, e)
               \/ \E cur \in Elem : insert(p, e, cur)
        PROVE  Simulated
    BY <2>3, PutStep, RemoveStep, InsertStep
  <2>4. ASSUME NEW l \in Line, next(p, l) \/ prev(p, l)
        PROVE  Simulated
    BY <2>4, LookStep
  <2>5. QED
    BY <1>2, <2>1, <2>2, <2>3, <2>4, Zenon DEF Call
<1>3. CASE \/ \E e \in Elem : Use(p, e)
           \/ \E l \in Line : Evict(p, l) \/ Speculate(p, l)
  BY <1>3, OtherStep
<1>4. QED
  BY <1>1, <1>2, <1>3, Zenon

\* The new list has a head that leads to itself.
LEMMA ListStart ==
  ASSUME ListInit
  PROVE  ListInv /\ Listed = <<>>
<1>1. /\ mem \in [Line -> Links] /\ cache \in [Proc -> [Line -> CacheLine]]
      /\ \A p \in Proc, l \in Line : cache[p][l] = NoLine
      /\ \A l \in Line : mem[l]["next"] = l /\ mem[l]["prev"] = l
  BY DEF ListInit, Links, Link, CacheLine
<1>2. ListTypeOK
  BY <1>1 DEF ListInit, ListTypeOK
<1>3. CacheInv
  BY <1>1 DEF CacheInv
<1>4. OnList = {}
  BY LineAssumption DEF ListInit, OnList
<1>5. <<>> \in Chains
  <2>1. \A i \in 0..0 : At(<<>>, i) = Head_ /\ At(<<>>, i + 1) = Head_
    BY DEF At
  <2>2. ToSet(<<>>) = {}
    BY DEF ToSet
  <2>3. Chain(<<>>)
    BY <1>1, <1>4, <2>1, <2>2, HeadLine DEF Chain
  <2>4. <<>> \in Seq(OnList) /\ IsFiniteSet(OnList) /\ DOMAIN <<>> = {}
    BY OnListFinite
  <2>5. <<>> \in SeqOf(OnList, Cardinality(OnList))
    BY <2>4, NoRepeat
  <2>6. QED
    BY <2>3, <2>5 DEF Chains
<1>6. QED
  BY <1>2, <1>3, <1>5, ListedIs DEF ListInv, LinksAgree

LEMMA ListKeeps ==
  ASSUME ListInv, OnlyHeadSpeculated, [ListNext]_listVars
  PROVE  ListInv' /\ (Abstract!Next \/ UNCHANGED <<Listed, owner, result>>)
<1>1. CASE ListNext
  BY <1>1, ListStep DEF Simulated
<1>2. CASE UNCHANGED listVars
  <2>1. PICK s \in Chains : TRUE
    BY DEF ListInv, LinksAgree
  <2>2. Quiet /\ result' = result
    BY <1>2 DEF Quiet, ListInv, ListTypeOK, CacheInv, listVars
  <2>3. result' \in Elem \cup {NULL, "SUCCESS", "TRUE", "FALSE"}
    BY <2>2 DEF ListInv, ListTypeOK
  <2>4. QED
    BY <2>2, <2>3, QuietStep
<1>3. QED
  BY <1>1, <1>2

\* ListMP.c: after any calls, from any number of processors and whatever the
\* caches evict and the ARM cores fetch of the head, the links of the elements on
\* the list agree in both directions, and no cache holds a line that a later call
\* would read or write back wrongly.
THEOREM ListInvHolds ==
  ASSUME OnlyHeadSpeculated
  PROVE  ListSpec => []ListInv
<1>1. ListInit => ListInv
  BY ListStart
<1>2. ListInv /\ [ListNext]_listVars => ListInv'
  BY ListKeeps
<1>3. QED
  BY <1>1, <1>2, PTL DEF ListSpec

\* ListMP.c: no cache can evict an old line over the links that another
\* processor has changed.
THEOREM NothingToWriteBackHolds ==
  ASSUME OnlyHeadSpeculated
  PROVE  ListSpec => []NothingToWriteBack
<1>1. ListInv => NothingToWriteBack
  <2> SUFFICES ASSUME ListInv, NEW p \in Proc, NEW l \in Line,
                      l = Head_ \/ owner[l] = "list", cache[p][l].state = "dirty"
               PROVE  FALSE
    BY DEF NothingToWriteBack
  <2>1. cache[p][l] # NoLine
    BY DEF NoLine
  <2>2. QED
    BY <2>1, LineAssumption DEF ListInv, CacheInv, Line
<1>2. QED
  BY <1>1, ListInvHolds, PTL

\* ListMP.c implements the atomic sequence that ListMP.h promises: every call
\* takes, puts or reports the elements as they are in the order of the links.
THEOREM ImplementsIListMPHolds ==
  ASSUME OnlyHeadSpeculated
  PROVE  ListSpec => ImplementsIListMP
<1>1. ListInit => Abstract!Init
  BY ListStart DEF ListInit, Abstract!Init
<1>2. ListInv /\ [ListNext]_listVars => [Abstract!Next]_<<Listed, owner, result>>
  BY ListKeeps
<1>3. QED
  BY <1>1, <1>2, ListInvHolds, PTL DEF ListSpec, ImplementsIListMP, Abstract!Spec, Abstract!vars
=============================================================================
