------------------------- MODULE TransportShmProofs -------------------------
(***************************************************************************)
(* Proofs about TransportShm and the queues of MessageQ under it, for any  *)
(* number of processors, queues, threads and messages: no thread sleeps in *)
(* MessageQ_get next to a message, no message lies on a shared list that   *)
(* its processor will not look at, every message is at one place, and what *)
(* a thread puts stays in order.                                           *)
(***************************************************************************)
EXTENDS TransportShm, FiniteSetTheorems, TLAPS

USE DEF At, Goto, NoHeader, Dst

\* The calls of MessageQ, without when they may run.
LocalStep(t) ==
  /\ \/ MessageQ_alloc(t) \/ MessageQ_free(t)
     \/ \E q \in Queue : \E pri \in Priority : MessageQ_put(t, q, pri)
     \/ PutLocal(t) \/ Signal(t)
     \/ MessageQ_get(t) \/ GetHigh(t) \/ GetNormal(t)
     \/ Wait(t) \/ Timeout(t) \/ Woken(t)
     \/ \E q \in Queue : MessageQ_unblock(t, q)
  /\ UNCHANGED <<linkVars, swiVars>>

LEMMA Steps ==
  ASSUME Next
  PROVE  \/ \E t \in Thread :
              LocalStep(t) \/ PutEnter(t) \/ PutTail(t) \/ SendEvent(t) \/ PutRemove(t)
                \/ PutLeave(t)
         \/ \E p \in Proc :
              \/ Instance_init(p) \/ TransportShm_notifyFxn(p)
              \/ SwiStart(p) \/ SwiGet(p) \/ SwiPut(p) \/ SwiSignal(p)
  BY Zenon DEF Next, Local, Remote, Swi, LocalStep

\* MessageQ_put changes the lists of the destination only, and they stay lists.
LEMMA EnqueueType ==
  ASSUME TypeOK, NEW m \in Msg, Enqueue(m)
  PROVE  /\ highList' \in [Queue -> Seq(Msg)] /\ normalList' \in [Queue -> Seq(Msg)]
         /\ \A q \in Queue : q # Dst(m) =>
              highList'[q] = highList[q] /\ normalList'[q] = normalList[q]
<1>1. ASSUME NEW q \in Queue
      PROVE  /\ Append(highList[q], m) \in Seq(Msg)
             /\ <<m>> \o highList[q] \in Seq(Msg)
             /\ Append(normalList[q], m) \in Seq(Msg)
  <2>1. highList[q] \in Seq(Msg) /\ normalList[q] \in Seq(Msg) /\ <<m>> \in Seq(Msg)
    BY DEF TypeOK
  <2>2. QED
    BY <2>1
<1>2. CASE header[m].pri = "normal"
  <2>1. /\ normalList' = [normalList EXCEPT ![Dst(m)] = Append(@, m)]
        /\ highList' = highList
    BY <1>2 DEF Enqueue
  <2>2. QED
    BY <1>1, <2>1 DEF TypeOK
<1>3. CASE header[m].pri # "normal"
  <2>1. /\ highList' = [highList EXCEPT ![Dst(m)] = IF header[m].pri = "urgent"
                                                    THEN <<m>> \o @ ELSE Append(@, m)]
        /\ normalList' = normalList
    BY <1>3 DEF Enqueue
  <2>2. QED
    BY <1>1, <2>1 DEF TypeOK
<1>4. QED
  BY <1>2, <1>3

LEMMA HeadTail ==
  ASSUME NEW S, NEW s \in Seq(S), s # <<>>
  PROVE  Head(s) \in S /\ Tail(s) \in Seq(S)
  OBVIOUS

-----------------------------------------------------------------------------
\* Types, and who owns what: every step of a thread or of a processor.
LEMMA OwnStep ==
  ASSUME TypeOK, OwnInv, Next
  PROVE  TypeOK' /\ OwnInv'
<1> USE MessageQAssumption, OtherAssumption DEF linkVars, swiVars, heapVars, queueVars,
      threadVars, PutLabel, GetLabel, InGate
<1>1. ASSUME NEW t \in Thread, MessageQ_alloc(t), UNCHANGED <<linkVars, swiVars>>
      PROVE  TypeOK' /\ OwnInv'
  <2>1. TypeOK'
    BY <1>1 DEF MessageQ_alloc, TypeOK, OwnInv, Header
  <2>2. OwnInv'
    BY <1>1 DEF MessageQ_alloc, TypeOK, OwnInv
  <2>3. QED
    BY <2>1, <2>2
<1>2. ASSUME NEW t \in Thread, MessageQ_free(t), UNCHANGED <<linkVars, swiVars>>
      PROVE  TypeOK' /\ OwnInv'
  <2>1. TypeOK'
    BY <1>2 DEF MessageQ_free, TypeOK, OwnInv, Header
  <2>2. OwnInv'
    BY <1>2 DEF MessageQ_free, TypeOK, OwnInv
  <2>3. QED
    BY <2>1, <2>2
<1>3. ASSUME NEW t \in Thread, NEW q \in Queue, NEW pri \in Priority, MessageQ_put(t, q, pri),
             UNCHANGED <<linkVars, swiVars>>
      PROVE  TypeOK' /\ OwnInv'
  <2>1. TypeOK'
    BY <1>3 DEF MessageQ_put, TypeOK, OwnInv, Header
  <2>2. OwnInv'
    BY <1>3 DEF MessageQ_put, TypeOK, OwnInv
  <2>3. QED
    BY <2>1, <2>2
<1>4. ASSUME NEW t \in Thread, PutLocal(t), UNCHANGED <<linkVars, swiVars>>
      PROVE  TypeOK' /\ OwnInv'
  <2>1. msg[t] \in Msg /\ Enqueue(msg[t])
    BY <1>4 DEF PutLocal, TypeOK, OwnInv
  <2>2. Dst(msg[t]) \in Queue \cup {None}
    BY <2>1 DEF TypeOK, Header
  <2>3. TypeOK'
    BY <1>4, <2>1, <2>2, EnqueueType DEF PutLocal, TypeOK
  <2>4. OwnInv'
    BY <1>4 DEF PutLocal, TypeOK, OwnInv
  <2>5. QED
    BY <2>3, <2>4
<1>5. ASSUME NEW t \in Thread, Signal(t), UNCHANGED <<linkVars, swiVars>>
      PROVE  TypeOK' /\ OwnInv'
  <2>1. TypeOK'
    BY <1>5 DEF Signal, ISync_signal, TypeOK, OwnInv
  <2>2. OwnInv'
    BY <1>5 DEF Signal, ISync_signal, TypeOK, OwnInv
  <2>3. QED
    BY <2>1, <2>2
<1>6. ASSUME NEW t \in Thread, MessageQ_get(t), UNCHANGED <<linkVars, swiVars>>
      PROVE  TypeOK' /\ OwnInv'
  <2>1. TypeOK'
    BY <1>6 DEF MessageQ_get, TypeOK, OwnInv
  <2>2. OwnInv'
    BY <1>6 DEF MessageQ_get, TypeOK, OwnInv
  <2>3. QED
    BY <2>1, <2>2
<1>7. ASSUME NEW t \in Thread, GetHigh(t), UNCHANGED <<linkVars, swiVars>>
      PROVE  TypeOK' /\ OwnInv'
  <2>1. TypeOK'
    <3>1. reads[t] \in Queue /\ highList[reads[t]] \in Seq(Msg)
      BY <1>7 DEF GetHigh, TypeOK, OwnInv
    <3>2. CASE highList[reads[t]] = <<>>
      <4>1. /\ pc' = [pc EXCEPT ![t] = "getNormal"]
            /\ UNCHANGED <<highList, header, msg, heapVars, normalList, signalled, unblocked, queue>>
        BY <1>7, <3>2 DEF GetHigh
      <4>2. QED
        BY <1>7, <4>1 DEF TypeOK
    <3>3. CASE highList[reads[t]] # <<>>
      <4>1. /\ pc' = [pc EXCEPT ![t] = "idle"]
            /\ msg' = [msg EXCEPT ![t] = Head(highList[reads[t]])]
            /\ header' = [header EXCEPT ![Head(highList[reads[t]])] = NoHeader]
            /\ highList' = [highList EXCEPT ![reads[t]] = Tail(@)]
            /\ UNCHANGED <<heapVars, normalList, signalled, unblocked, queue>>
        BY <1>7, <3>3 DEF GetHigh, Got
      <4>2. QED
        BY <1>7, <3>1, <3>3, <4>1, HeadTail DEF TypeOK, Header
    <3>4. QED
      BY <3>2, <3>3
  <2>2. OwnInv'
    BY <1>7 DEF GetHigh, Got, TypeOK, OwnInv
  <2>3. QED
    BY <2>1, <2>2
<1>8. ASSUME NEW t \in Thread, GetNormal(t), UNCHANGED <<linkVars, swiVars>>
      PROVE  TypeOK' /\ OwnInv'
  <2>1. TypeOK'
    <3>1. reads[t] \in Queue /\ normalList[reads[t]] \in Seq(Msg)
      BY <1>8 DEF GetNormal, TypeOK, OwnInv
    <3>2. CASE normalList[reads[t]] = <<>>
      <4>1. /\ pc' = [pc EXCEPT ![t] = "wait"]
            /\ UNCHANGED <<normalList, header, msg, heapVars, highList, signalled, unblocked, queue>>
        BY <1>8, <3>2 DEF GetNormal
      <4>2. QED
        BY <1>8, <4>1 DEF TypeOK
    <3>3. CASE normalList[reads[t]] # <<>>
      <4>1. /\ pc' = [pc EXCEPT ![t] = "idle"]
            /\ msg' = [msg EXCEPT ![t] = Head(normalList[reads[t]])]
            /\ header' = [header EXCEPT ![Head(normalList[reads[t]])] = NoHeader]
            /\ normalList' = [normalList EXCEPT ![reads[t]] = Tail(@)]
            /\ UNCHANGED <<heapVars, highList, signalled, unblocked, queue>>
        BY <1>8, <3>3 DEF GetNormal, Got
      <4>2. QED
        BY <1>8, <3>1, <3>3, <4>1, HeadTail DEF TypeOK, Header
    <3>4. QED
      BY <3>2, <3>3
  <2>2. OwnInv'
    BY <1>8 DEF GetNormal, Got, TypeOK, OwnInv
  <2>3. QED
    BY <2>1, <2>2
<1>9. ASSUME NEW t \in Thread, Wait(t), UNCHANGED <<linkVars, swiVars>>
      PROVE  TypeOK' /\ OwnInv'
  <2>1. TypeOK'
    BY <1>9 DEF Wait, TypeOK, OwnInv
  <2>2. OwnInv'
    BY <1>9 DEF Wait, TypeOK, OwnInv
  <2>3. QED
    BY <2>1, <2>2
<1>10. ASSUME NEW t \in Thread, Timeout(t), UNCHANGED <<linkVars, swiVars>>
      PROVE  TypeOK' /\ OwnInv'
  <2>1. TypeOK'
    BY <1>10 DEF Timeout, TypeOK, OwnInv
  <2>2. OwnInv'
    BY <1>10 DEF Timeout, TypeOK, OwnInv
  <2>3. QED
    BY <2>1, <2>2
<1>11. ASSUME NEW t \in Thread, Woken(t), UNCHANGED <<linkVars, swiVars>>
      PROVE  TypeOK' /\ OwnInv'
  <2>1. TypeOK'
    BY <1>11 DEF Woken, TypeOK, OwnInv
  <2>2. OwnInv'
    BY <1>11 DEF Woken, TypeOK, OwnInv
  <2>3. QED
    BY <2>1, <2>2
<1>12. ASSUME NEW t \in Thread, NEW q \in Queue, MessageQ_unblock(t, q),
             UNCHANGED <<linkVars, swiVars>>
      PROVE  TypeOK' /\ OwnInv'
  <2>1. TypeOK'
    BY <1>12 DEF MessageQ_unblock, TypeOK, OwnInv
  <2>2. OwnInv'
    BY <1>12 DEF MessageQ_unblock, TypeOK, OwnInv
  <2>3. QED
    BY <2>1, <2>2
<1>13. ASSUME NEW t \in Thread, PutEnter(t)
      PROVE  TypeOK' /\ OwnInv'
  <2>1. TypeOK'
    BY <1>13 DEF PutEnter, TypeOK, OwnInv
  <2>2. OwnInv'
    BY <1>13 DEF PutEnter, TypeOK, OwnInv
  <2>3. QED
    BY <2>1, <2>2
<1>14. ASSUME NEW t \in Thread, PutTail(t)
      PROVE  TypeOK' /\ OwnInv'
  <2>1. TypeOK'
    BY <1>14 DEF PutTail, TypeOK, OwnInv
  <2>2. OwnInv'
    BY <1>14 DEF PutTail, TypeOK, OwnInv
  <2>3. QED
    BY <2>1, <2>2
<1>15. ASSUME NEW t \in Thread, SendEvent(t)
      PROVE  TypeOK' /\ OwnInv'
  <2>1. TypeOK'
    <3>1. CASE Other(procOf[t]) \in registered
      <4>1. /\ event' = [event EXCEPT ![Other(procOf[t])] = "up"]
            /\ msg' = [msg EXCEPT ![t] = None] /\ pc' = [pc EXCEPT ![t] = "putLeave"]
            /\ UNCHANGED <<heapVars, header, queueVars, queue, registered, list, gate, swiVars>>
        BY <1>15, <3>1 DEF SendEvent
      <4>2. QED
        BY <4>1 DEF TypeOK
    <3>2. CASE Other(procOf[t]) \notin registered
      <4>1. /\ pc' = [pc EXCEPT ![t] = "putRemove"]
            /\ UNCHANGED <<event, msg, heapVars, header, queueVars, queue, registered, list,
                           gate, swiVars>>
        BY <1>15, <3>2 DEF SendEvent
      <4>2. QED
        BY <4>1 DEF TypeOK
    <3>3. QED
      BY <3>1, <3>2
  <2>2. OwnInv'
    BY <1>15 DEF SendEvent, TypeOK, OwnInv
  <2>3. QED
    BY <2>1, <2>2
<1>16. ASSUME NEW t \in Thread, PutRemove(t)
      PROVE  TypeOK' /\ OwnInv'
  <2>1. TypeOK'
    BY <1>16 DEF PutRemove, TypeOK, OwnInv, Without
  <2>2. OwnInv'
    BY <1>16 DEF PutRemove, TypeOK, OwnInv
  <2>3. QED
    BY <2>1, <2>2
<1>17. ASSUME NEW t \in Thread, PutLeave(t)
      PROVE  TypeOK' /\ OwnInv'
  <2>1. TypeOK'
    BY <1>17 DEF PutLeave, TypeOK, OwnInv
  <2>2. OwnInv'
    BY <1>17 DEF PutLeave, TypeOK, OwnInv
  <2>3. QED
    BY <2>1, <2>2
<1>18. ASSUME NEW p \in Proc, Instance_init(p)
      PROVE  TypeOK' /\ OwnInv'
  <2>1. TypeOK'
    BY <1>18 DEF Instance_init, mqVars, TypeOK, OwnInv
  <2>2. OwnInv'
    BY <1>18 DEF Instance_init, mqVars, TypeOK, OwnInv
  <2>3. QED
    BY <2>1, <2>2
<1>19. ASSUME NEW p \in Proc, TransportShm_notifyFxn(p)
      PROVE  TypeOK' /\ OwnInv'
  <2>1. TypeOK'
    BY <1>19 DEF TransportShm_notifyFxn, mqVars, TypeOK, OwnInv
  <2>2. OwnInv'
    BY <1>19 DEF TransportShm_notifyFxn, mqVars, TypeOK, OwnInv
  <2>3. QED
    BY <2>1, <2>2
<1>20. ASSUME NEW p \in Proc, SwiStart(p)
      PROVE  TypeOK' /\ OwnInv'
  <2>1. TypeOK'
    BY <1>20 DEF SwiStart, mqVars, TypeOK, OwnInv
  <2>2. OwnInv'
    BY <1>20 DEF SwiStart, mqVars, TypeOK, OwnInv
  <2>3. QED
    BY <2>1, <2>2
<1>21. ASSUME NEW p \in Proc, SwiGet(p)
      PROVE  TypeOK' /\ OwnInv'
  <2>1. TypeOK'
    <3>1. CASE list[p] = <<>>
      <4>1. /\ swi' = [swi EXCEPT ![p] = "idle"]
            /\ UNCHANGED <<list, swiMsg, mqVars, registered, gate, event, posted, swiQueue>>
        BY <1>21, <3>1 DEF SwiGet
      <4>2. QED
        BY <4>1 DEF mqVars, TypeOK
    <3>2. CASE list[p] # <<>>
      <4>1. list[p] \in Seq(Msg) /\ Head(list[p]) \in Msg /\ Tail(list[p]) \in Seq(Msg)
        BY <3>2, HeadTail DEF TypeOK
      <4>2. /\ swiMsg' = [swiMsg EXCEPT ![p] = Head(list[p])]
            /\ list' = [list EXCEPT ![p] = Tail(@)]
            /\ swi' = [swi EXCEPT ![p] = "put"]
            /\ UNCHANGED <<mqVars, registered, gate, event, posted, swiQueue>>
        BY <1>21, <3>2 DEF SwiGet
      <4>3. QED
        BY <4>1, <4>2 DEF mqVars, TypeOK
    <3>3. QED
      BY <3>1, <3>2
  <2>2. OwnInv'
    BY <1>21 DEF SwiGet, mqVars, TypeOK, OwnInv
  <2>3. QED
    BY <2>1, <2>2
<1>22. ASSUME NEW p \in Proc, SwiPut(p)
      PROVE  TypeOK' /\ OwnInv'
  <2>1. swiMsg[p] \in Msg /\ Enqueue(swiMsg[p])
    BY <1>22 DEF SwiPut, TypeOK, OwnInv
  <2>2. Dst(swiMsg[p]) \in Queue \cup {None}
    BY <2>1 DEF TypeOK, Header
  <2>3. TypeOK'
    BY <1>22, <2>1, <2>2, EnqueueType DEF SwiPut, TypeOK
  <2>4. OwnInv'
    BY <1>22 DEF SwiPut, TypeOK, OwnInv
  <2>5. QED
    BY <2>3, <2>4
<1>23. ASSUME NEW p \in Proc, SwiSignal(p)
      PROVE  TypeOK' /\ OwnInv'
  <2>1. TypeOK'
    BY <1>23 DEF SwiSignal, ISync_signal, SwiNext, TypeOK, OwnInv
  <2>2. OwnInv'
    BY <1>23 DEF SwiSignal, ISync_signal, SwiNext, TypeOK, OwnInv
  <2>3. QED
    BY <2>1, <2>2
<1>24. QED
  BY ONLY Steps, Next, <1>1, <1>2, <1>3, <1>4, <1>5, <1>6, <1>7, <1>8, <1>9,
    <1>10, <1>11, <1>12, <1>13, <1>14, <1>15, <1>16, <1>17, <1>18, <1>19, <1>20,
    <1>21, <1>22, <1>23 DEF LocalStep

-----------------------------------------------------------------------------
\* What the calls of MessageQ leave alone: the threads in the gate of the lists.
LEMMA LocalFrame ==
  ASSUME TypeOK, NEW t \in Thread, LocalStep(t)
  PROVE  /\ pc[t] \notin InGate /\ pc'[t] \notin InGate
         /\ \A u \in Thread : u # t => pc'[u] = pc[u] /\ msg'[u] = msg[u]
         /\ UNCHANGED <<linkVars, swiVars>>
<1> USE DEF InGate, TypeOK
<1>1. CASE MessageQ_alloc(t) \/ MessageQ_free(t)
  BY <1>1 DEF MessageQ_alloc, MessageQ_free, LocalStep
<1>2. CASE \E q \in Queue : \E pri \in Priority : MessageQ_put(t, q, pri)
  BY <1>2 DEF MessageQ_put, LocalStep
<1>3. CASE PutLocal(t) \/ Signal(t)
  BY <1>3 DEF PutLocal, Signal, LocalStep
<1>4. CASE MessageQ_get(t) \/ Wait(t) \/ Timeout(t) \/ Woken(t)
  BY <1>4 DEF MessageQ_get, Wait, Timeout, Woken, LocalStep
<1>5. CASE GetHigh(t) \/ GetNormal(t)
  BY <1>5 DEF GetHigh, GetNormal, Got, LocalStep
<1>6. CASE \E q \in Queue : MessageQ_unblock(t, q)
  BY <1>6 DEF MessageQ_unblock, LocalStep
<1>7. QED
  BY ONLY <1>1, <1>2, <1>3, <1>4, <1>5, <1>6, LocalStep(t) DEF LocalStep

\* The list from which an only element is taken is empty.
LEMMA TakenOut ==
  ASSUME NEW m, NEW i \in DOMAIN <<m>>
  PROVE  Without(<<m>>, i) = <<>>
BY DEF Without

LEMMA RemovedLast ==
  ASSUME AloneInv, NEW t \in Thread, PutRemove(t)
  PROVE  list' = [list EXCEPT ![Other(procOf[t])] = <<>>]
<1> DEFINE p == Other(procOf[t])
<1>1. list[p] = <<msg[t]>>
  BY DEF PutRemove, AloneInv
<1>2. PICK i \in DOMAIN list[p] : list' = [list EXCEPT ![p] = Without(@, i)]
  BY DEF PutRemove
<1>3. i \in DOMAIN <<msg[t]>> /\ list' = [list EXCEPT ![p] = Without(<<msg[t]>>, i)]
  BY <1>1, <1>2
<1>4. Without(<<msg[t]>>, i) = <<>>
  BY <1>3, TakenOut
<1>5. QED
  BY <1>3, <1>4

LEMMA PutAlone ==
  ASSUME NEW m
  PROVE  Append(<<>>, m) = <<m>>
OBVIOUS

\* The gate: who holds it, and what it protects.
LEMMA GateStep ==
  ASSUME TypeOK, OwnInv, GateInv, Next
  PROVE  GateInv'
<1> USE MessageQAssumption, OtherAssumption DEF linkVars, swiVars, heapVars, queueVars,
      threadVars, InGate, GateInv, HolderInv, AloneInv, UnheardInv
<1>1. ASSUME NEW t \in Thread, LocalStep(t)
      PROVE  GateInv'
  BY <1>1, LocalFrame
<1>2. ASSUME NEW t \in Thread, PutEnter(t)
      PROVE  GateInv'
  BY <1>2, SMTT(40) DEF PutEnter, TypeOK
<1>3. ASSUME NEW t \in Thread, PutTail(t)
      PROVE  GateInv'
  <2> DEFINE p == Other(procOf[t])
  <2>1. /\ p \in Proc /\ pc[t] = "putTail" /\ gate = t
        /\ list' = [list EXCEPT ![p] = Append(@, msg[t])]
        /\ pc' = [pc EXCEPT ![t] = "sendEvent"]
        /\ UNCHANGED <<gate, registered, msg>>
    BY <1>3 DEF PutTail
  <2>2. \A u \in Thread : u # t => pc[u] \notin InGate
    BY <2>1
  <2>3. HolderInv'
    BY <2>1 DEF TypeOK
  <2>4. \A r \in Proc \ registered : list[r] = <<>>
    BY <2>1, <2>2
  <2>5. AloneInv'
    <3>1. p \notin registered => list'[p] = <<msg[t]>>
      <4>1. list'[p] = Append(list[p], msg[t])
        BY <2>1 DEF TypeOK
      <4>2. QED
        BY <2>1, <2>4, <4>1, PutAlone
    <3>2. QED
      BY <2>1, <2>2, <3>1 DEF TypeOK
  <2>6. UnheardInv'
    <3>1. ASSUME NEW r \in Proc \ registered, list'[r] # <<>>
          PROVE  r = p
      BY <2>1, <2>4, <3>1 DEF TypeOK
    <3>2. pc'[t] = "sendEvent"
      BY <2>1 DEF TypeOK
    <3>3. QED
      BY <2>1, <3>1, <3>2
  <2>7. QED
    BY <2>3, <2>5, <2>6
<1>4. ASSUME NEW t \in Thread, SendEvent(t)
      PROVE  GateInv'
  <2> DEFINE p == Other(procOf[t])
  <2>1. /\ p \in Proc /\ pc[t] = "sendEvent" /\ gate = t
        /\ UNCHANGED <<gate, registered, list>>
    BY <1>4 DEF SendEvent
  <2>2. \A u \in Thread : u # t => pc[u] \notin InGate
    BY <2>1
  <2>3. CASE p \in registered
    <3>1. msg' = [msg EXCEPT ![t] = None] /\ pc' = [pc EXCEPT ![t] = "putLeave"]
      BY <1>4, <2>3 DEF SendEvent
    <3>2. QED
      BY <2>1, <2>2, <2>3, <3>1 DEF TypeOK
  <2>4. CASE p \notin registered
    <3>1. msg' = msg /\ pc' = [pc EXCEPT ![t] = "putRemove"]
      BY <1>4, <2>4 DEF SendEvent
    <3>2. QED
      <4>1. HolderInv'
        BY <2>1, <3>1 DEF TypeOK
      <4>2. AloneInv'
        BY <2>1, <2>2, <2>4, <3>1 DEF TypeOK
      <4>3. UnheardInv'
        <5>1. ASSUME NEW r \in Proc \ registered, list[r] # <<>>
              PROVE  r = p
          BY <2>1, <2>2, <5>1
        <5>2. pc'[t] = "putRemove"
          BY <3>1 DEF TypeOK
        <5>3. QED
          BY <2>1, <5>1, <5>2
      <4>4. QED
        BY <4>1, <4>2, <4>3
  <2>5. QED
    BY <2>3, <2>4
<1>5. ASSUME NEW t \in Thread, PutRemove(t)
      PROVE  GateInv'
  <2> DEFINE p == Other(procOf[t])
  <2>1. /\ p \in Proc /\ pc[t] = "putRemove" /\ gate = t
        /\ pc' = [pc EXCEPT ![t] = "putLeave"]
        /\ UNCHANGED <<gate, registered, msg>>
    BY <1>5 DEF PutRemove
  <2>2. \A u \in Thread : u # t => pc[u] \notin InGate
    BY <2>1
  <2>3. list' = [list EXCEPT ![p] = <<>>]
    BY <1>5, RemovedLast
  <2>4. HolderInv'
    BY <2>1 DEF TypeOK
  <2>5. AloneInv'
    BY <2>1, <2>2 DEF TypeOK
  <2>6. UnheardInv'
    <3>1. ASSUME NEW r \in Proc \ registered, r # p
          PROVE  list'[r] = <<>>
      <4>1. list[r] = <<>>
        BY <2>1, <2>2, <3>1
      <4>2. list'[r] = list[r]
        BY <2>1, <2>3, <3>1 DEF TypeOK
      <4>3. QED
        BY <4>1, <4>2
    <3>2. list'[p] = <<>>
      BY <2>1, <2>3 DEF TypeOK
    <3>3. QED
      BY <2>1, <3>1, <3>2
  <2>7. QED
    BY <2>4, <2>5, <2>6
<1>6. ASSUME NEW t \in Thread, PutLeave(t)
      PROVE  GateInv'
  <2>1. /\ pc[t] = "putLeave" /\ gate = t /\ gate' = None
        /\ pc' = [pc EXCEPT ![t] = "idle"]
        /\ UNCHANGED <<registered, msg, list>>
    BY <1>6 DEF PutLeave
  <2>2. HolderInv'
    BY <2>1 DEF TypeOK
  <2>3. AloneInv' /\ UnheardInv'
    BY <2>1, SMTT(40) DEF TypeOK
  <2>4. QED
    BY <2>2, <2>3
<1>7. ASSUME NEW p \in Proc, Instance_init(p)
      PROVE  GateInv'
  BY <1>7 DEF Instance_init, mqVars, TypeOK
<1>8. ASSUME NEW p \in Proc, TransportShm_notifyFxn(p) \/ SwiStart(p)
      PROVE  GateInv'
  BY <1>8 DEF TransportShm_notifyFxn, SwiStart, mqVars, TypeOK
<1>9. ASSUME NEW p \in Proc, SwiGet(p)
      PROVE  GateInv'
  BY <1>9 DEF SwiGet, mqVars, TypeOK
<1>10. ASSUME NEW p \in Proc, SwiPut(p) \/ SwiSignal(p)
       PROVE  GateInv'
  BY <1>10 DEF SwiPut, SwiSignal, mqVars, TypeOK
<1>11. QED
  BY ONLY Steps, Next, <1>1, <1>2, <1>3, <1>4, <1>5, <1>6, <1>7, <1>8, <1>9, <1>10
     DEF LocalStep

-----------------------------------------------------------------------------
\* The wake-up of the other processor.
LEMMA DoorbellStep ==
  ASSUME TypeOK, OwnInv, GateInv, DoorbellRung, Next
  PROVE  DoorbellRung'
<1> USE MessageQAssumption, OtherAssumption DEF linkVars, swiVars, DoorbellRung
<1>1. ASSUME NEW t \in Thread, LocalStep(t)
      PROVE  DoorbellRung'
  BY <1>1, LocalFrame DEF InGate
<1>2. ASSUME NEW t \in Thread, PutEnter(t)
      PROVE  DoorbellRung'
  BY <1>2 DEF PutEnter, TypeOK
<1>3. ASSUME NEW t \in Thread, PutTail(t)
      PROVE  DoorbellRung'
  <2> DEFINE p == Other(procOf[t])
  <2>1. /\ p \in Proc /\ pc[t] = "putTail"
        /\ list' = [list EXCEPT ![p] = Append(@, msg[t])]
        /\ pc' = [pc EXCEPT ![t] = "sendEvent"]
        /\ UNCHANGED <<event, posted, swi>>
    BY <1>3 DEF PutTail
  <2>2. pc'[t] = "sendEvent" /\ \A u \in Thread : u # t => pc'[u] = pc[u]
    BY <2>1 DEF TypeOK
  <2>3. \A r \in Proc : r # p => list'[r] = list[r]
    BY <2>1 DEF TypeOK
  <2>4. QED
    BY <2>1, <2>2, <2>3
<1>4. ASSUME NEW t \in Thread, SendEvent(t)
      PROVE  DoorbellRung'
  <2> DEFINE p == Other(procOf[t])
  <2>1. /\ p \in Proc /\ pc[t] = "sendEvent" /\ gate = t
        /\ UNCHANGED <<list, posted, swi>>
    BY <1>4 DEF SendEvent, GateInv, HolderInv, InGate
  <2>2. CASE p \in registered
    <3>1. /\ event' = [event EXCEPT ![p] = "up"]
          /\ pc' = [pc EXCEPT ![t] = "putLeave"]
      BY <1>4, <2>2 DEF SendEvent
    <3>2. QED
      <4>1. event'[p] = "up" /\ \A r \in Proc : r # p => event'[r] = event[r]
        BY <2>1, <3>1 DEF TypeOK
      <4>2. \A u \in Thread : u # t => pc'[u] = pc[u]
        BY <3>1 DEF TypeOK
      <4>3. QED
        BY <2>1, <4>1, <4>2
  <2>3. CASE p \notin registered
    <3>1. event' = event /\ pc' = [pc EXCEPT ![t] = "putRemove"]
      BY <1>4, <2>3 DEF SendEvent
    <3>2. QED
      BY <2>1, <3>1 DEF TypeOK
  <2>4. QED
    BY <2>2, <2>3
<1>5. ASSUME NEW t \in Thread, PutRemove(t)
      PROVE  DoorbellRung'
  <2> DEFINE p == Other(procOf[t])
  <2>1. /\ p \in Proc /\ pc[t] = "putRemove"
        /\ pc' = [pc EXCEPT ![t] = "putLeave"]
        /\ UNCHANGED <<event, posted, swi>>
    BY <1>5 DEF PutRemove
  <2>2. list' = [list EXCEPT ![p] = <<>>]
    BY <1>5, RemovedLast DEF GateInv, AloneInv
  <2>3. list'[p] = <<>> /\ \A r \in Proc : r # p => list'[r] = list[r]
    BY <2>1, <2>2 DEF TypeOK
  <2>4. \A u \in Thread : u # t => pc'[u] = pc[u]
    BY <2>1 DEF TypeOK
  <2>5. QED
    BY <2>1, <2>3, <2>4
<1>6. ASSUME NEW t \in Thread, PutLeave(t)
      PROVE  DoorbellRung'
  BY <1>6 DEF PutLeave, TypeOK
<1>7. ASSUME NEW p \in Proc, Instance_init(p) \/ TransportShm_notifyFxn(p)
      PROVE  DoorbellRung'
  BY <1>7 DEF Instance_init, TransportShm_notifyFxn, mqVars, threadVars, TypeOK
<1>8. ASSUME NEW p \in Proc, SwiStart(p) \/ SwiPut(p) \/ SwiSignal(p)
      PROVE  DoorbellRung'
  BY <1>8 DEF SwiStart, SwiPut, SwiSignal, SwiNext, mqVars, threadVars, TypeOK
<1>9. ASSUME NEW p \in Proc, SwiGet(p)
      PROVE  DoorbellRung'
  <2>1. CASE list[p] = <<>>
    <3>1. /\ swi' = [swi EXCEPT ![p] = "idle"]
          /\ UNCHANGED <<list, pc, event, posted>>
      BY <1>9, <2>1 DEF SwiGet, mqVars, threadVars
    <3>2. QED
      BY <2>1, <3>1 DEF TypeOK
  <2>2. CASE list[p] # <<>>
    <3>1. /\ list' = [list EXCEPT ![p] = Tail(@)] /\ swi' = [swi EXCEPT ![p] = "put"]
          /\ UNCHANGED <<pc, event, posted>>
      BY <1>9, <2>2 DEF SwiGet, mqVars, threadVars
    <3>2. swi'[p] = "put" /\ \A r \in Proc : r # p => swi'[r] = swi[r] /\ list'[r] = list[r]
      BY <3>1 DEF TypeOK
    <3>3. QED
      BY <3>1, <3>2
  <2>3. QED
    BY <2>1, <2>2
<1>10. QED
  BY ONLY Steps, Next, <1>1, <1>2, <1>3, <1>4, <1>5, <1>6, <1>7, <1>8, <1>9

-----------------------------------------------------------------------------
\* The wake-up of a reader.  Steps that touch no queue, and no thread that reads.
LEMMA WakeFrame ==
  ASSUME WakeInv, UNCHANGED <<queueVars, queue, swiQueue>>, NEW t \in Thread,
         \A u \in Thread : u # t => pc'[u] = pc[u],
         pc[t] \notin {"woken", "done"}, pc'[t] \notin {"getNormal", "wait"}
  PROVE  WakeInv'
BY DEF WakeInv, Covered, queueVars

LEMMA WakeStep ==
  ASSUME TypeOK, OwnInv, WakeInv, Next
  PROVE  WakeInv'
<1> USE MessageQAssumption, OtherAssumption DEF linkVars, swiVars, heapVars, queueVars,
      threadVars
<1>1. ASSUME NEW t \in Thread,
             \/ MessageQ_alloc(t) \/ MessageQ_free(t) \/ MessageQ_get(t)
             \/ \E q \in Queue : \E pri \in Priority : MessageQ_put(t, q, pri),
             UNCHANGED <<linkVars, swiVars>>
      PROVE  WakeInv'
  <2>1. /\ UNCHANGED <<queueVars, queue, swiQueue>>
        /\ \A u \in Thread : u # t => pc'[u] = pc[u]
        /\ pc[t] = "idle" /\ pc'[t] \in {"idle", "getHigh", "putLocal", "putRemote"}
    BY <1>1 DEF MessageQ_alloc, MessageQ_free, MessageQ_get, MessageQ_put, TypeOK
  <2>2. QED
    BY <2>1, WakeFrame
<1>2. ASSUME NEW t \in Thread, PutLocal(t), UNCHANGED <<linkVars, swiVars>>
      PROVE  WakeInv'
  <2> DEFINE d == Dst(msg[t])
  <2>1. /\ pc[t] = "putLocal" /\ queue[t] = None /\ msg[t] \in Msg /\ Enqueue(msg[t])
        /\ queue' = [queue EXCEPT ![t] = d] /\ pc' = [pc EXCEPT ![t] = "signal"]
        /\ UNCHANGED <<signalled, unblocked, swiQueue>>
    BY <1>2 DEF PutLocal, OwnInv, TypeOK, PutLabel
  <2>2. \A q \in Queue : q # d => highList'[q] = highList[q] /\ normalList'[q] = normalList[q]
    BY <2>1, EnqueueType
  <2>3. \A q \in Queue : q = d => Covered(q)'
    BY <2>1 DEF Covered, TypeOK
  <2>4. \A q \in Queue : Covered(q) => Covered(q)'
    BY <2>1 DEF Covered, TypeOK
  <2>5. pc'[t] = "signal" /\ \A u \in Thread : u # t => pc'[u] = pc[u]
    BY <2>1 DEF TypeOK
  <2>6. QED
    BY <2>1, <2>2, <2>3, <2>4, <2>5 DEF WakeInv
<1>3. ASSUME NEW t \in Thread, Signal(t), UNCHANGED <<linkVars, swiVars>>
      PROVE  WakeInv'
  <2>1. /\ pc[t] = "signal" /\ pc' = [pc EXCEPT ![t] = "idle"]
        /\ signalled' = [signalled EXCEPT ![queue[t]] = "yes"]
        /\ queue' = [queue EXCEPT ![t] = None]
        /\ UNCHANGED <<highList, normalList, unblocked, swiQueue>>
    BY <1>3 DEF Signal, ISync_signal
  <2>2. \A q \in Queue : Covered(q) => Covered(q)'
    BY <2>1 DEF Covered, TypeOK
  <2>3. pc'[t] = "idle" /\ \A u \in Thread : u # t => pc'[u] = pc[u]
    BY <2>1 DEF TypeOK
  <2>4. QED
    BY <2>1, <2>2, <2>3 DEF WakeInv
<1>4. ASSUME NEW t \in Thread, GetHigh(t) \/ GetNormal(t), UNCHANGED <<linkVars, swiVars>>
      PROVE  WakeInv'
  <2> DEFINE q0 == reads[t]
  <2>1. /\ q0 \in Queue /\ pc[t] \in {"getHigh", "getNormal"}
        /\ \A u \in Thread : u # t => pc'[u] = pc[u] /\ reads[u] # q0
        /\ \A q \in Queue \ {q0} : highList'[q] = highList[q] /\ normalList'[q] = normalList[q]
        /\ UNCHANGED <<signalled, unblocked, queue, swiQueue>>
    <3>1. q0 \in Queue /\ pc[t] \in {"getHigh", "getNormal"}
      BY <1>4 DEF GetHigh, GetNormal, OwnInv, TypeOK, GetLabel
    <3>2. \A u \in Thread : u # t => reads[u] # q0
      BY <3>1
    <3>3. /\ \A u \in Thread : u # t => pc'[u] = pc[u]
          /\ \A q \in Queue \ {q0} : highList'[q] = highList[q] /\ normalList'[q] = normalList[q]
      BY <1>4 DEF GetHigh, GetNormal, Got, TypeOK
    <3>4. UNCHANGED <<signalled, unblocked, queue, swiQueue>>
      BY <1>4 DEF GetHigh, GetNormal
    <3>5. QED
      BY <3>1, <3>2, <3>3, <3>4
  <2>2. \A q \in Queue : Covered(q) <=> Covered(q)'
    BY <2>1 DEF Covered
  <2>3. \/ pc'[t] = "idle"
        \/ pc'[t] = "getNormal" /\ highList'[q0] = <<>>
        \/ /\ pc[t] = "getNormal" /\ pc'[t] = "wait" /\ normalList'[q0] = <<>>
           /\ highList' = highList
    <3>1. CASE GetHigh(t)
      BY <3>1, <2>1 DEF GetHigh, Got, TypeOK
    <3>2. CASE GetNormal(t)
      BY <3>2, <2>1 DEF GetNormal, Got, TypeOK
    <3>3. QED
      BY <1>4, <3>1, <3>2
  <2>4. QED
    BY <2>1, <2>2, <2>3 DEF WakeInv
<1>5. ASSUME NEW t \in Thread, Wait(t), UNCHANGED <<linkVars, swiVars>>
      PROVE  WakeInv'
  <2> DEFINE q0 == reads[t]
  <2>1. /\ pc' = [pc EXCEPT ![t] = "woken"]
        /\ signalled' = [signalled EXCEPT ![q0] = "no"]
        /\ UNCHANGED <<highList, normalList, unblocked, queue, swiQueue>>
    BY <1>5 DEF Wait
  <2>2. \A u \in Thread : u # t => pc'[u] = pc[u] /\ reads[u] # q0
    BY <1>5, <2>1 DEF Wait, OwnInv, TypeOK, GetLabel
  <2>3. \A q \in Queue : q # q0 /\ Covered(q) => Covered(q)'
    BY <2>1 DEF Covered, TypeOK
  <2>4. pc'[t] = "woken"
    BY <2>1 DEF TypeOK
  <2>5. QED
    BY <2>1, <2>2, <2>3, <2>4 DEF WakeInv
<1>6. ASSUME NEW t \in Thread, Timeout(t) \/ Woken(t), UNCHANGED <<linkVars, swiVars>>
      PROVE  WakeInv'
  <2>1. /\ UNCHANGED <<queueVars, queue, swiQueue>>
        /\ \A u \in Thread : u # t => pc'[u] = pc[u]
        /\ \/ pc[t] = "wait" /\ pc'[t] = "idle"
           \/ pc'[t] = "done"
           \/ unblocked[reads[t]] # "yes" /\ pc'[t] = "getHigh"
    BY <1>6 DEF Timeout, Woken, TypeOK
  <2>2. QED
    BY <2>1 DEF WakeInv, Covered
<1>7. ASSUME NEW t \in Thread, NEW q \in Queue, MessageQ_unblock(t, q),
             UNCHANGED <<linkVars, swiVars>>
      PROVE  WakeInv'
  <2>1. /\ pc[t] = "idle" /\ queue[t] = None
        /\ unblocked' = [unblocked EXCEPT ![q] = "yes"]
        /\ queue' = [queue EXCEPT ![t] = q] /\ pc' = [pc EXCEPT ![t] = "signal"]
        /\ UNCHANGED <<highList, normalList, signalled, swiQueue>>
    BY <1>7 DEF MessageQ_unblock, OwnInv
  <2>2. Covered(q)'
    BY <2>1 DEF Covered, TypeOK
  <2>3. \A r \in Queue : Covered(r) => Covered(r)'
    BY <2>1 DEF Covered, TypeOK
  <2>4. pc'[t] = "signal" /\ \A u \in Thread : u # t => pc'[u] = pc[u]
    BY <2>1 DEF TypeOK
  <2>5. \A r \in Queue : r # q => unblocked'[r] = unblocked[r]
    BY <2>1 DEF TypeOK
  <2>6. QED
    BY <2>1, <2>2, <2>3, <2>4, <2>5 DEF WakeInv
<1>8. ASSUME NEW t \in Thread,
             PutEnter(t) \/ PutTail(t) \/ SendEvent(t) \/ PutRemove(t) \/ PutLeave(t)
      PROVE  WakeInv'
  <2>1. /\ UNCHANGED <<queueVars, queue, swiQueue>>
        /\ \A u \in Thread : u # t => pc'[u] = pc[u]
        /\ pc[t] \in InGate \cup {"putRemote"} /\ pc'[t] \in InGate \cup {"idle"}
    BY <1>8 DEF PutEnter, PutTail, SendEvent, PutRemove, PutLeave, TypeOK, InGate
  <2>2. QED
    BY <2>1, WakeFrame DEF InGate
<1>9. ASSUME NEW p \in Proc,
             Instance_init(p) \/ TransportShm_notifyFxn(p) \/ SwiStart(p) \/ SwiGet(p)
      PROVE  WakeInv'
  <2>1. UNCHANGED <<queueVars, queue, swiQueue, pc>>
    BY <1>9 DEF Instance_init, TransportShm_notifyFxn, SwiStart, SwiGet, mqVars
  <2>2. QED
    BY <2>1 DEF WakeInv, Covered
<1>10. ASSUME NEW p \in Proc, SwiPut(p)
       PROVE  WakeInv'
  <2> DEFINE d == Dst(swiMsg[p])
  <2>1. /\ swiQueue[p] = None /\ swiMsg[p] \in Msg /\ Enqueue(swiMsg[p])
        /\ swiQueue' = [swiQueue EXCEPT ![p] = d]
        /\ UNCHANGED <<signalled, unblocked, queue, pc>>
    BY <1>10 DEF SwiPut, OwnInv, TypeOK
  <2>2. \A q \in Queue : q # d => highList'[q] = highList[q] /\ normalList'[q] = normalList[q]
    BY <2>1, EnqueueType
  <2>3. \A q \in Queue : q = d => Covered(q)'
    BY <2>1 DEF Covered, TypeOK
  <2>4. \A q \in Queue : Covered(q) => Covered(q)'
    BY <2>1 DEF Covered, TypeOK
  <2>5. QED
    BY <2>1, <2>2, <2>3, <2>4 DEF WakeInv
<1>11. ASSUME NEW p \in Proc, SwiSignal(p)
       PROVE  WakeInv'
  <2>1. /\ signalled' = [signalled EXCEPT ![swiQueue[p]] = "yes"]
        /\ swiQueue' = [swiQueue EXCEPT ![p] = None]
        /\ UNCHANGED <<highList, normalList, unblocked, queue, pc>>
    BY <1>11 DEF SwiSignal, ISync_signal
  <2>2. \A q \in Queue : Covered(q) => Covered(q)'
    BY <2>1 DEF Covered, TypeOK
  <2>3. QED
    BY <2>1, <2>2 DEF WakeInv
<1>12. QED
  BY ONLY Steps, Next, <1>1, <1>2, <1>3, <1>4, <1>5, <1>6, <1>7, <1>8, <1>9, <1>10,
     <1>11 DEF LocalStep

-----------------------------------------------------------------------------
LEMMA InitIInv ==
  ASSUME Init
  PROVE  IInv
<1> USE MessageQAssumption DEF Init, MessageQInit
<1>1. TypeOK
  BY DEF TypeOK, Header
<1>2. OwnInv
  BY DEF OwnInv, PutLabel, GetLabel
<1>3. GateInv
  BY DEF GateInv, HolderInv, AloneInv, UnheardInv, InGate
<1>4. DoorbellRung
  BY DEF DoorbellRung
<1>5. WakeInv
  BY DEF WakeInv
<1>6. QED
  BY <1>1, <1>2, <1>3, <1>4, <1>5 DEF IInv

LEMMA NextIInv ==
  ASSUME IInv, [Next]_vars
  PROVE  IInv'
<1>1. CASE Next
  BY <1>1, OwnStep, GateStep, DoorbellStep, WakeStep DEF IInv
<1>2. CASE UNCHANGED vars
  <2> USE <1>2 DEF IInv, vars, mqVars, linkVars, swiVars, heapVars, queueVars, threadVars
  <2>1. TypeOK'
    BY DEF TypeOK
  <2>2. OwnInv'
    BY DEF OwnInv
  <2>3. GateInv'
    BY DEF GateInv, HolderInv, AloneInv, UnheardInv
  <2>4. DoorbellRung'
    BY DEF DoorbellRung
  <2>5. WakeInv'
    BY DEF WakeInv, Covered
  <2>6. QED
    BY <2>1, <2>2, <2>3, <2>4, <2>5
<1>3. QED
  BY <1>1, <1>2

\* The inductive invariant holds in every reachable state: types, ownership, the
\* gate of the lists, and both wake-ups (TransportShm_put, TransportShm_swiFxn,
\* MessageQ_put, MessageQ_get, MessageQ_unblock).
THEOREM IInvHolds == Spec => []IInv
<1>1. Init => IInv
  BY InitIInv
<1>2. IInv /\ [Next]_vars => IInv'
  BY NextIInv
<1>3. QED
  BY <1>1, <1>2, PTL DEF Spec

\* The processor of a shared list with messages will look at it
\* (TransportShm_put, TransportShm_notifyFxn, TransportShm_swiFxn).
THEOREM DoorbellRungHolds == Spec => []DoorbellRung
<1>1. IInv => DoorbellRung
  BY DEF IInv
<1>2. QED
  BY <1>1, IInvHolds, PTL

\* No thread sleeps in MessageQ_get next to a message of its queue, or after
\* MessageQ_unblock, without a signal on its way.
THEOREM ReaderWokenHolds == Spec => []ReaderWoken
<1>1. ASSUME IInv
      PROVE  ReaderWoken
  <2>1. SUFFICES ASSUME NEW t \in Thread, pc[t] = "wait",
                        \/ highList[reads[t]] # <<>> \/ normalList[reads[t]] # <<>>
                        \/ unblocked[reads[t]] = "yes"
                 PROVE  Covered(reads[t])
    BY DEF ReaderWoken, Covered
  <2>2. reads[t] # None
    BY <1>1, <2>1 DEF IInv, OwnInv, GetLabel
  <2>3. QED
    BY <1>1, <2>1, <2>2 DEF IInv, WakeInv
<1>2. QED
  BY <1>1, IInvHolds, PTL

-----------------------------------------------------------------------------
\* Every message at one place, in a form that a step changes little of: who
\* holds a message (the heap, a thread, a swi or a list), and that a list holds
\* it once.
Carries(t, m) == msg[t] = m /\ pc[t] \notin {"sendEvent", "putRemove"}

Holds(kind, x, m) ==
  \/ kind = "heap" /\ x = None /\ m \in freeList
  \/ kind = "thread" /\ x \in Thread /\ Carries(x, m)
  \/ kind = "swi" /\ x \in Proc /\ swiMsg[x] = m
  \/ kind = "list" /\ x \in Proc /\ InSeq(m, list[x])
  \/ kind = "high" /\ x \in Queue /\ InSeq(m, highList[x])
  \/ kind = "normal" /\ x \in Queue /\ InSeq(m, normalList[x])

HeldBy(m, kind, x) ==
  Holds(kind, x, m) /\ \A l, y : Holds(l, y, m) => l = kind /\ y = x

HeldOnce == \A m \in Msg : \E kind, x : HeldBy(m, kind, x)

NoRepeat(s) == \A i, j \in DOMAIN s : s[i] = s[j] => i = j

ListsInv ==
  /\ \A p \in Proc : NoRepeat(list[p])
  /\ \A q \in Queue : NoRepeat(highList[q]) /\ NoRepeat(normalList[q])

PlaceInv == HeldOnce /\ ListsInv /\ AddressInv /\ HandsInv

\* What the operations on a list do to what it holds.
LEMMA AppendHolds ==
  ASSUME NEW S, NEW s \in Seq(S), NEW x \in S
  PROVE  /\ \A m : InSeq(m, Append(s, x)) <=> InSeq(m, s) \/ m = x
         /\ NoRepeat(s) /\ ~InSeq(x, s) => NoRepeat(Append(s, x))
<1>1. /\ DOMAIN Append(s, x) = 1 .. Len(s) + 1 /\ DOMAIN s = 1 .. Len(s)
      /\ Len(s) \in Nat
      /\ \A i \in 1 .. Len(s) : Append(s, x)[i] = s[i]
      /\ Append(s, x)[Len(s) + 1] = x
  OBVIOUS
<1>2. \A m : InSeq(m, Append(s, x)) <=> InSeq(m, s) \/ m = x
  <2> TAKE m
  <2>1. ASSUME InSeq(m, Append(s, x)) PROVE InSeq(m, s) \/ m = x
    <3>1. PICK i \in 1 .. Len(s) + 1 : Append(s, x)[i] = m
      BY <1>1, <2>1 DEF InSeq
    <3>2. i \in 1 .. Len(s) \/ i = Len(s) + 1
      BY <1>1
    <3>3. QED
      BY <1>1, <3>1, <3>2 DEF InSeq
  <2>2. ASSUME InSeq(m, s) PROVE InSeq(m, Append(s, x))
    <3>1. PICK i \in 1 .. Len(s) : s[i] = m
      BY <1>1, <2>2 DEF InSeq
    <3>2. i \in DOMAIN Append(s, x) /\ Append(s, x)[i] = m
      BY <1>1, <3>1
    <3>3. QED
      BY <3>2 DEF InSeq
  <2>3. ASSUME m = x PROVE InSeq(m, Append(s, x))
    <3>1. Len(s) + 1 \in DOMAIN Append(s, x)
      BY <1>1
    <3>2. QED
      BY <1>1, <2>3, <3>1 DEF InSeq
  <2>4. QED
    BY <2>1, <2>2, <2>3
<1>3. ASSUME NoRepeat(s), ~InSeq(x, s) PROVE NoRepeat(Append(s, x))
  <2> SUFFICES ASSUME NEW i \in 1 .. Len(s) + 1, NEW j \in 1 .. Len(s) + 1,
                      Append(s, x)[i] = Append(s, x)[j]
               PROVE  i = j
    BY <1>1 DEF NoRepeat
  <2>1. CASE i \in 1 .. Len(s) /\ j \in 1 .. Len(s)
    BY <1>1, <1>3, <2>1 DEF NoRepeat
  <2>2. CASE i = Len(s) + 1 \/ j = Len(s) + 1
    BY <1>1, <1>3, <2>2 DEF InSeq
  <2>3. QED
    BY <1>1, <2>1, <2>2
<1>4. QED
  BY <1>2, <1>3

LEMMA PrependHolds ==
  ASSUME NEW S, NEW s \in Seq(S), NEW x \in S
  PROVE  /\ \A m : InSeq(m, <<x>> \o s) <=> InSeq(m, s) \/ m = x
         /\ NoRepeat(s) /\ ~InSeq(x, s) => NoRepeat(<<x>> \o s)
<1> DEFINE c == <<x>> \o s
<1>1. /\ DOMAIN c = 1 .. Len(s) + 1 /\ DOMAIN s = 1 .. Len(s) /\ Len(s) \in Nat
      /\ \A i \in 1 .. Len(s) : c[i + 1] = s[i]
      /\ c[1] = x
  OBVIOUS
<1>2. \A i \in 1 .. Len(s) + 1 : i = 1 \/ (i - 1 \in 1 .. Len(s) /\ c[i] = s[i - 1])
  <2> TAKE i \in 1 .. Len(s) + 1
  <2>1. CASE i # 1
    <3>1. i - 1 \in 1 .. Len(s) /\ i = (i - 1) + 1
      BY <1>1, <2>1
    <3>2. QED
      BY <1>1, <3>1
  <2>2. QED
    BY <2>1
<1> HIDE DEF c
<1>3. \A m : InSeq(m, c) <=> InSeq(m, s) \/ m = x
  <2> TAKE m
  <2>1. ASSUME InSeq(m, c) PROVE InSeq(m, s) \/ m = x
    BY <1>1, <1>2, <2>1 DEF InSeq
  <2>2. ASSUME InSeq(m, s) PROVE InSeq(m, c)
    <3>1. PICK i \in 1 .. Len(s) : s[i] = m
      BY <1>1, <2>2 DEF InSeq
    <3>2. i + 1 \in DOMAIN c /\ c[i + 1] = m
      BY <1>1, <3>1
    <3>3. QED
      BY <3>2 DEF InSeq
  <2>3. ASSUME m = x PROVE InSeq(m, c)
    <3>1. 1 \in DOMAIN c
      BY <1>1
    <3>2. QED
      BY <1>1, <2>3, <3>1 DEF InSeq
  <2>4. QED
    BY <2>1, <2>2, <2>3
<1>4. ASSUME NoRepeat(s), ~InSeq(x, s) PROVE NoRepeat(c)
  <2> SUFFICES ASSUME NEW i \in 1 .. Len(s) + 1, NEW j \in 1 .. Len(s) + 1, c[i] = c[j]
               PROVE  i = j
    BY <1>1 DEF NoRepeat
  <2>1. CASE i # 1 /\ j # 1
    <3>1. i - 1 \in DOMAIN s /\ j - 1 \in DOMAIN s /\ s[i - 1] = s[j - 1]
      BY <1>1, <1>2, <2>1
    <3>2. i - 1 = j - 1
      BY <1>4, <3>1 DEF NoRepeat
    <3>3. QED
      BY <3>2
  <2>2. \A k \in 1 .. Len(s) + 1 : c[k] = x => k = 1
    <3> SUFFICES ASSUME NEW k \in 1 .. Len(s) + 1, c[k] = x, k # 1
                 PROVE  FALSE
      OBVIOUS
    <3>1. k - 1 \in DOMAIN s /\ s[k - 1] = x
      BY <1>1, <1>2
    <3>2. QED
      BY <1>4, <3>1 DEF InSeq
  <2>3. c[1] = x
    BY <1>1
  <2>4. CASE i = 1 \/ j = 1
    BY <2>2, <2>3, <2>4
  <2>5. QED
    BY <2>1, <2>4
<1>5. QED
  BY <1>3, <1>4 DEF c

LEMMA TailHolds ==
  ASSUME NEW S, NEW s \in Seq(S), s # <<>>, NoRepeat(s)
  PROVE  /\ \A m : InSeq(m, Tail(s)) <=> InSeq(m, s) /\ m # Head(s)
         /\ InSeq(Head(s), s)
         /\ NoRepeat(Tail(s))
<1> DEFINE r == Tail(s)
<1>1. /\ Len(s) \in Nat /\ Len(s) > 0
      /\ DOMAIN s = 1 .. Len(s) /\ DOMAIN r = 1 .. Len(s) - 1
      /\ \A i \in 1 .. Len(s) - 1 : r[i] = s[i + 1]
      /\ Head(s) = s[1] /\ 1 \in DOMAIN s
  OBVIOUS
<1> HIDE DEF r
<1>2. InSeq(Head(s), s)
  BY <1>1 DEF InSeq
<1>3. \A m : InSeq(m, r) <=> InSeq(m, s) /\ m # Head(s)
  <2> TAKE m
  <2>1. ASSUME InSeq(m, r) PROVE InSeq(m, s) /\ m # Head(s)
    <3>1. PICK i \in 1 .. Len(s) - 1 : r[i] = m
      BY <1>1, <2>1 DEF InSeq
    <3>2. i + 1 \in DOMAIN s /\ s[i + 1] = m /\ i + 1 # 1
      BY <1>1, <3>1
    <3>3. QED
      BY <1>1, <3>2 DEF InSeq, NoRepeat
  <2>2. ASSUME InSeq(m, s), m # Head(s) PROVE InSeq(m, r)
    <3>1. PICK i \in 1 .. Len(s) : s[i] = m
      BY <1>1, <2>2 DEF InSeq
    <3>2. i # 1
      BY <1>1, <2>2, <3>1
    <3>3. i - 1 \in 1 .. Len(s) - 1 /\ i = (i - 1) + 1
      BY <1>1, <3>2
    <3>4. r[i - 1] = m
      BY <1>1, <3>1, <3>3
    <3>5. QED
      BY <1>1, <3>3, <3>4 DEF InSeq
  <2>3. QED
    BY <2>1, <2>2
<1>4. NoRepeat(r)
  <2> SUFFICES ASSUME NEW i \in 1 .. Len(s) - 1, NEW j \in 1 .. Len(s) - 1, r[i] = r[j]
               PROVE  i = j
    BY <1>1 DEF NoRepeat
  <2>1. i + 1 \in DOMAIN s /\ j + 1 \in DOMAIN s /\ s[i + 1] = s[j + 1]
    BY <1>1
  <2>2. i + 1 = j + 1
    BY <2>1 DEF NoRepeat
  <2>3. QED
    BY <2>2
<1>5. QED
  BY <1>2, <1>3, <1>4 DEF r

\* A step that moves message n, and no other, from one holder to another.
Move(n, a, x, b, y) ==
  /\ Holds(a, x, n)
  /\ \A kind, z : \A m \in Msg :
       Holds(kind, z, m)' <=>
         \/ kind = b /\ z = y /\ m = n
         \/ Holds(kind, z, m) /\ ~(kind = a /\ z = x /\ m = n)

\* A message that changes hands still has one holder, and so have the others.
LEMMA Moved ==
  ASSUME HeldOnce, NEW n \in Msg, NEW a, NEW x, NEW b, NEW y, Move(n, a, x, b, y)
  PROVE  HeldOnce'
<1> SUFFICES ASSUME NEW m \in Msg
             PROVE  \E kind, z : /\ Holds(kind, z, m)'
                                 /\ \A l, w : Holds(l, w, m)' => l = kind /\ w = z
  BY DEF HeldOnce, HeldBy
<1>1. PICK kind, z : HeldBy(m, kind, z)
  BY DEF HeldOnce
<1>2. CASE m = n
  <2>1. kind = a /\ z = x
    BY <1>1, <1>2 DEF HeldBy, Move
  <2>2. /\ Holds(b, y, m)'
        /\ \A l, w : Holds(l, w, m)' => l = b /\ w = y
    BY <1>1, <1>2, <2>1 DEF HeldBy, Move
  <2>3. QED
    BY <2>2
<1>3. CASE m # n
  BY <1>1, <1>3 DEF HeldBy, Move
<1>4. QED
  BY <1>2, <1>3

\* Of two holders one is the other.
LEMMA OneHolder ==
  ASSUME HeldOnce, NEW m \in Msg, NEW a, NEW x, NEW b, NEW y,
         Holds(a, x, m), Holds(b, y, m)
  PROVE  a = b /\ x = y
  BY DEF HeldOnce, HeldBy

\* A message whose header a step may write is not on its way to a queue.
LEMMA Unaddressed ==
  ASSUME HeldOnce, NEW n \in Msg, NEW a, NEW x, Holds(a, x, n), a \notin {"list", "swi"}
  PROVE  /\ \A p \in Proc : \A i \in DOMAIN list[p] : list[p][i] # n
         /\ \A p \in Proc : swiMsg[p] # n
         /\ \A t \in Thread : ~(a = "thread" /\ x = t) => ~Carries(t, n)
<1>1. ASSUME NEW p \in Proc, NEW i \in DOMAIN list[p], list[p][i] = n
      PROVE  FALSE
  BY <1>1, OneHolder DEF Holds, InSeq
<1>2. ASSUME NEW p \in Proc, swiMsg[p] = n
      PROVE  FALSE
  BY <1>2, OneHolder DEF Holds
<1>3. ASSUME NEW t \in Thread, Carries(t, n)
      PROVE  a = "thread" /\ x = t
  BY <1>3, OneHolder DEF Holds
<1>4. QED
  BY <1>1, <1>2, <1>3

\* Steps that write the header of the message n that x holds, and put nothing
\* on a shared list.
WriteHeader(n, a, x, h) ==
  /\ header' = [header EXCEPT ![n] = h]
  /\ UNCHANGED <<list, swiMsg>>
  /\ \A u \in Thread : pc'[u] \in {"putLocal", "putRemote", "putTail"} =>
       \/ msg'[u] = n /\ h.dst \in Queue
       \/ /\ pc[u] \in {"putLocal", "putRemote", "putTail"} /\ msg'[u] = msg[u]
          /\ ~(a = "thread" /\ x = u)

LEMMA Readdressed ==
  ASSUME TypeOK, PlaceInv, NEW n \in Msg, NEW a, NEW x, Holds(a, x, n),
         a \notin {"list", "swi"}, NEW h, WriteHeader(n, a, x, h)
  PROVE  AddressInv'
<1> USE DEF WriteHeader
<1>1. header'[n] = h /\ \A m \in Msg : m # n => header'[m] = header[m]
  BY DEF TypeOK
<1>2. header'[None] = header[None]
  BY MessageQAssumption DEF TypeOK
<1>3. /\ \A p \in Proc : \A i \in DOMAIN list[p] : list[p][i] # n
      /\ \A p \in Proc : swiMsg[p] # n
      /\ \A t \in Thread : ~(a = "thread" /\ x = t) => ~Carries(t, n)
  BY Unaddressed DEF PlaceInv
<1>4. ASSUME NEW u \in Thread, pc'[u] \in {"putLocal", "putRemote", "putTail"}
      PROVE  header'[msg'[u]].dst \in Queue
  <2>1. CASE msg'[u] = n /\ h.dst \in Queue
    BY <1>1, <2>1
  <2>2. CASE /\ pc[u] \in {"putLocal", "putRemote", "putTail"} /\ msg'[u] = msg[u]
             /\ ~(a = "thread" /\ x = u)
    <3>1. msg[u] # n
      BY <1>3, <2>2 DEF Carries
    <3>2. header'[msg[u]] = header[msg[u]]
      BY <1>1, <1>2, <3>1 DEF TypeOK
    <3>3. QED
      BY <2>2, <3>2 DEF PlaceInv, AddressInv
  <2>3. QED
    BY <1>4, <2>1, <2>2
<1>5. ASSUME NEW p \in Proc, NEW i \in DOMAIN list[p]
      PROVE  header'[list[p][i]].dst \in Queue
  <2>1. list[p][i] \in Msg
    BY DEF TypeOK
  <2>2. QED
    BY <1>1, <1>3, <2>1 DEF PlaceInv, AddressInv
<1>6. ASSUME NEW p \in Proc, swiMsg[p] # None
      PROVE  header'[swiMsg[p]].dst \in Queue
  BY <1>1, <1>3, <1>6 DEF PlaceInv, AddressInv, TypeOK
<1>7. QED
  BY <1>4, <1>5, <1>6 DEF AddressInv

\* Steps that move no message and write no header.
LEMMA StayPut ==
  ASSUME TypeOK, PlaceInv,
         UNCHANGED <<freeList, header, highList, normalList, list, swiMsg>>,
         \A t \in Thread : \A m \in Msg :
           Carries(t, m)' <=> Carries(t, m),
         \A t \in Thread :
           /\ pc'[t] \in {"putLocal", "putRemote", "putTail"} =>
                pc[t] \in {"putLocal", "putRemote", "putTail"} /\ msg'[t] = msg[t]
           /\ pc'[t] \in GetLabel => msg'[t] = None,
         \A p \in Proc : swi[p] = "put" => swi'[p] = "put"
  PROVE  PlaceInv'
<1>1. \A kind, x : \A m \in Msg : Holds(kind, x, m)' <=> Holds(kind, x, m)
  BY DEF Holds, InSeq
<1>2. HeldOnce'
  BY <1>1 DEF PlaceInv, HeldOnce, HeldBy
<1>3. ListsInv' /\ AddressInv'
  BY DEF PlaceInv, ListsInv, NoRepeat, AddressInv
<1>4. HandsInv'
  BY DEF PlaceInv, HandsInv
<1>5. QED
  BY <1>2, <1>3, <1>4 DEF PlaceInv

\* MessageQ_alloc: from the heap to the thread.
LEMMA AllocPlace ==
  ASSUME TypeOK, PlaceInv, NEW t \in Thread, MessageQ_alloc(t), UNCHANGED <<linkVars, swiVars>>
  PROVE  PlaceInv'
<1> USE MessageQAssumption
<1>1. PICK n \in Msg : /\ n \in freeList /\ freeList' = freeList \ {n}
                       /\ msg' = [msg EXCEPT ![t] = n]
                       /\ header' = [header EXCEPT ![n] = NoHeader]
  BY DEF MessageQ_alloc, TypeOK
<1>2. /\ pc[t] = "idle" /\ msg[t] = None
      /\ UNCHANGED <<highList, normalList, pc, list, swi, swiMsg>>
  BY DEF MessageQ_alloc, queueVars, linkVars, swiVars
<1>3. \A u \in Thread : \A m \in Msg :
        Carries(u, m)' <=> Carries(u, m) \/ (u = t /\ m = n)
  BY <1>1, <1>2 DEF TypeOK, Carries
<1>4. Holds("heap", None, n) /\ Move(n, "heap", None, "thread", t)
  BY <1>1, <1>2, <1>3 DEF Move, Holds
<1>5. HeldOnce'
  BY <1>4, Moved DEF PlaceInv
<1>6. ListsInv'
  BY <1>2 DEF PlaceInv, ListsInv, NoRepeat
<1>7. AddressInv'
  <2>1. WriteHeader(n, "heap", None, NoHeader)
    BY <1>1, <1>2 DEF TypeOK, WriteHeader
  <2>2. QED
    BY <1>1, <1>2, <1>4, <2>1, Readdressed
<1>8. HandsInv'
  BY <1>1, <1>2 DEF PlaceInv, HandsInv, TypeOK, GetLabel
<1>9. QED
  BY <1>5, <1>6, <1>7, <1>8 DEF PlaceInv

\* MessageQ_free: from the thread to the heap.
LEMMA FreePlace ==
  ASSUME TypeOK, PlaceInv, NEW t \in Thread, MessageQ_free(t), UNCHANGED <<linkVars, swiVars>>
  PROVE  PlaceInv'
<1>1. PICK n \in Msg : n = msg[t]
  BY DEF MessageQ_free, TypeOK
<1>2. /\ freeList' = freeList \cup {n}
      /\ msg' = [msg EXCEPT ![t] = None]
      /\ header' = [header EXCEPT ![n] = NoHeader]
      /\ pc[t] = "idle"
      /\ UNCHANGED <<highList, normalList, pc, list, swi, swiMsg>>
  BY <1>1 DEF MessageQ_free, queueVars, linkVars, swiVars
<1>3. \A u \in Thread : \A m \in Msg :
        Carries(u, m)' <=> Carries(u, m) /\ ~(u = t /\ m = n)
  BY <1>1, <1>2, MessageQAssumption DEF TypeOK, Carries
<1>4. Holds("thread", t, n)
  BY <1>1, <1>2 DEF Holds, Carries
<1>5. Move(n, "thread", t, "heap", None)
  BY <1>2, <1>3, <1>4 DEF Move, Holds
<1>6. HeldOnce'
  BY <1>5, Moved DEF PlaceInv
<1>7. ListsInv'
  BY <1>2 DEF PlaceInv, ListsInv, NoRepeat
<1>8. AddressInv'
  <2>1. WriteHeader(n, "thread", t, NoHeader)
    BY <1>1, <1>2 DEF TypeOK, WriteHeader
  <2>2. QED
    BY <1>2, <1>4, <2>1, Readdressed
<1>9. HandsInv'
  BY <1>2 DEF PlaceInv, HandsInv, TypeOK, GetLabel
<1>10. QED
  BY <1>6, <1>7, <1>8, <1>9 DEF PlaceInv

\* MessageQ_put: the thread keeps the message and addresses it.
LEMMA PutPlace ==
  ASSUME TypeOK, PlaceInv, NEW t \in Thread, NEW q \in Queue, NEW pri \in Priority,
         MessageQ_put(t, q, pri), UNCHANGED <<linkVars, swiVars>>
  PROVE  PlaceInv'
<1>1. PICK n \in Msg : n = msg[t]
  BY DEF MessageQ_put, TypeOK
<1>2. /\ header' = [header EXCEPT ![n] = [dst |-> q, pri |-> pri]]
      /\ pc[t] = "idle"
      /\ UNCHANGED <<freeList, msg, highList, normalList, list, swi, swiMsg>>
  BY <1>1 DEF MessageQ_put, heapVars, queueVars, linkVars, swiVars
<1>3. PICK l \in {"putLocal", "putRemote"} : pc' = [pc EXCEPT ![t] = l]
  BY DEF MessageQ_put
<1>4. \A u \in Thread : \A m \in Msg : Carries(u, m)' <=> Carries(u, m)
  BY <1>2, <1>3 DEF TypeOK, Carries
<1>5. Holds("thread", t, n)
  BY <1>1, <1>2 DEF Holds, Carries
<1>6. \A kind, x : \A m \in Msg : Holds(kind, x, m)' <=> Holds(kind, x, m)
  BY <1>2, <1>4 DEF Holds
<1>7. HeldOnce' /\ ListsInv'
  BY <1>2, <1>6 DEF PlaceInv, HeldOnce, HeldBy, ListsInv, NoRepeat
<1>8. AddressInv'
  <2>1. WriteHeader(n, "thread", t, [dst |-> q, pri |-> pri])
    BY <1>1, <1>2, <1>3 DEF TypeOK, WriteHeader
  <2>2. QED
    BY <1>2, <1>5, <2>1, Readdressed
<1>9. HandsInv'
  BY <1>2, <1>3 DEF PlaceInv, HandsInv, TypeOK, GetLabel
<1>10. QED
  BY <1>7, <1>8, <1>9 DEF PlaceInv

\* MessageQ_get: from one of the lists of the reader's queue to the reader.
LEMMA GotPlace ==
  ASSUME TypeOK, PlaceInv, NEW t \in Thread, LocalStep(t), GetHigh(t) \/ GetNormal(t),
         reads[t] \in Queue
  PROVE  PlaceInv'
<1> DEFINE q == reads[t]
<1>0. /\ pc[t] \in {"getHigh", "getNormal"} /\ msg[t] = None
      /\ UNCHANGED <<freeList, list, swi, swiMsg>>
  BY DEF GetHigh, GetNormal, LocalStep, heapVars, linkVars, swiVars, PlaceInv, HandsInv, GetLabel
\* What taking message n off a list of the queue means for the threads.
<1>1. ASSUME NEW n \in Msg, Got(t, n), NEW a \in {"high", "normal"}, Holds(a, q, n)
      PROVE  /\ AddressInv' /\ HandsInv'
             /\ \A u \in Thread : \A m \in Msg :
                  Carries(u, m)' <=> Carries(u, m) \/ (u = t /\ m = n)
  <2>1. /\ msg' = [msg EXCEPT ![t] = n] /\ pc' = [pc EXCEPT ![t] = "idle"]
        /\ header' = [header EXCEPT ![n] = NoHeader]
    BY <1>1 DEF Got
  <2>2. WriteHeader(n, a, q, NoHeader)
    BY <1>0, <1>1, <2>1 DEF TypeOK, WriteHeader
  <2>3. AddressInv'
    BY <1>1, <2>2, Readdressed
  <2>4. HandsInv'
    BY <1>0, <2>1 DEF TypeOK, PlaceInv, HandsInv, GetLabel
  <2>5. ASSUME NEW u \in Thread, NEW m \in Msg
        PROVE  Carries(u, m)' <=> Carries(u, m) \/ (u = t /\ m = n)
    BY <1>0, <2>1, MessageQAssumption DEF TypeOK, Carries
  <2>6. QED
    BY <2>3, <2>4, <2>5
<1>2. CASE UNCHANGED <<msg, header, highList, normalList>>
  <2>1. /\ pc'[t] \in {"getNormal", "wait", "idle"}
        /\ \A u \in Thread : u # t => pc'[u] = pc[u]
    BY <1>0 DEF GetHigh, GetNormal, Got, TypeOK
  <2>2. \A u \in Thread : \A m \in Msg : Carries(u, m)' <=> Carries(u, m)
    BY <1>0, <1>2, <2>1 DEF Carries
  <2>3. \A u \in Thread : pc'[u] \in GetLabel => msg'[u] = None
    BY <1>0, <1>2, <2>1 DEF PlaceInv, HandsInv, GetLabel
  <2>4. QED
    BY <1>0, <1>2, <2>1, <2>2, <2>3, StayPut
<1>3. CASE GetHigh(t) /\ highList[q] # <<>>
  <2>0. highList[q] \in Seq(Msg) /\ NoRepeat(highList[q])
    BY DEF TypeOK, PlaceInv, ListsInv
  <2>1. PICK n \in Msg : n = Head(highList[q])
    BY <1>3, <2>0, HeadTail
  <2>2. /\ Got(t, n) /\ normalList' = normalList
        /\ highList' = [highList EXCEPT ![q] = Tail(highList[q])]
    BY <1>3, <2>1 DEF GetHigh
  <2>3. /\ \A m : InSeq(m, Tail(highList[q])) <=> InSeq(m, highList[q]) /\ m # n
        /\ InSeq(n, highList[q]) /\ NoRepeat(Tail(highList[q]))
    BY <1>3, <2>0, <2>1, TailHolds
  <2>4. Holds("high", q, n)
    BY <2>3 DEF Holds
  <2>5. \A r \in Queue : \A m \in Msg :
          InSeq(m, highList'[r]) <=> InSeq(m, highList[r]) /\ ~(r = q /\ m = n)
    BY <2>2, <2>3 DEF TypeOK
  <2>6. Move(n, "high", q, "thread", t)
    BY <1>0, <1>1, <2>2, <2>4, <2>5 DEF Move, Holds
  <2>7. HeldOnce'
    BY <2>6, Moved DEF PlaceInv
  <2>8. ListsInv'
    BY <1>0, <2>2, <2>3 DEF PlaceInv, ListsInv, TypeOK
  <2>9. QED
    BY <1>1, <2>2, <2>4, <2>7, <2>8 DEF PlaceInv
<1>4. CASE GetNormal(t) /\ normalList[q] # <<>>
  <2>0. normalList[q] \in Seq(Msg) /\ NoRepeat(normalList[q])
    BY DEF TypeOK, PlaceInv, ListsInv
  <2>1. PICK n \in Msg : n = Head(normalList[q])
    BY <1>4, <2>0, HeadTail
  <2>2. /\ Got(t, n) /\ highList' = highList
        /\ normalList' = [normalList EXCEPT ![q] = Tail(normalList[q])]
    BY <1>4, <2>1 DEF GetNormal
  <2>3. /\ \A m : InSeq(m, Tail(normalList[q])) <=> InSeq(m, normalList[q]) /\ m # n
        /\ InSeq(n, normalList[q]) /\ NoRepeat(Tail(normalList[q]))
    BY <1>4, <2>0, <2>1, TailHolds
  <2>4. Holds("normal", q, n)
    BY <2>3 DEF Holds
  <2>5. \A r \in Queue : \A m \in Msg :
          InSeq(m, normalList'[r]) <=> InSeq(m, normalList[r]) /\ ~(r = q /\ m = n)
    BY <2>2, <2>3 DEF TypeOK
  <2>6. Move(n, "normal", q, "thread", t)
    BY <1>0, <1>1, <2>2, <2>4, <2>5 DEF Move, Holds
  <2>7. HeldOnce'
    BY <2>6, Moved DEF PlaceInv
  <2>8. ListsInv'
    BY <1>0, <2>2, <2>3 DEF PlaceInv, ListsInv, TypeOK
  <2>9. QED
    BY <1>1, <2>2, <2>4, <2>7, <2>8 DEF PlaceInv
<1>5. QED
  BY <1>2, <1>3, <1>4 DEF GetHigh, GetNormal

\* The delivery of MessageQ_put puts a message that was on no list of a queue on
\* one list of its destination.
LEMMA EnqueuePlace ==
  ASSUME TypeOK, PlaceInv, NEW n \in Msg, Enqueue(n), Dst(n) \in Queue,
         NEW a, NEW x, Holds(a, x, n), a \notin {"high", "normal"}
  PROVE  \E kind \in {"high", "normal"} :
           /\ \A r \in Queue :
                /\ NoRepeat(highList'[r]) /\ NoRepeat(normalList'[r])
                /\ \A m \in Msg :
                     /\ InSeq(m, highList'[r]) <=>
                          InSeq(m, highList[r]) \/ (kind = "high" /\ r = Dst(n) /\ m = n)
                     /\ InSeq(m, normalList'[r]) <=>
                          InSeq(m, normalList[r]) \/ (kind = "normal" /\ r = Dst(n) /\ m = n)
<1> DEFINE q == Dst(n)
<1>1. \A r \in Queue : ~InSeq(n, highList[r]) /\ ~InSeq(n, normalList[r])
  BY OneHolder DEF PlaceInv, Holds
<1>2. \A r \in Queue : /\ highList[r] \in Seq(Msg) /\ normalList[r] \in Seq(Msg)
                       /\ NoRepeat(highList[r]) /\ NoRepeat(normalList[r])
  BY DEF TypeOK, PlaceInv, ListsInv
<1>3. CASE header[n].pri = "normal"
  <2>1. /\ normalList' = [normalList EXCEPT ![q] = Append(normalList[q], n)]
        /\ highList' = highList
    BY <1>3 DEF Enqueue
  <2>2. /\ \A m : InSeq(m, Append(normalList[q], n)) <=> InSeq(m, normalList[q]) \/ m = n
        /\ NoRepeat(Append(normalList[q], n))
    BY <1>1, <1>2, AppendHolds
  <2>3. /\ normalList'[q] = Append(normalList[q], n)
        /\ \A r \in Queue : r # q => normalList'[r] = normalList[r]
    BY <2>1 DEF TypeOK
  <2>4. \A r \in Queue :
          /\ NoRepeat(normalList'[r])
          /\ \A m \in Msg : InSeq(m, normalList'[r]) <=>
               InSeq(m, normalList[r]) \/ (r = q /\ m = n)
    BY <1>2, <2>2, <2>3
  <2>5. QED
    BY <1>2, <2>1, <2>4
<1>4. CASE header[n].pri # "normal"
  <2>1. PICK s \in {<<n>> \o highList[q], Append(highList[q], n)} :
          highList' = [highList EXCEPT ![q] = s] /\ normalList' = normalList
    BY <1>4 DEF Enqueue
  <2>2. /\ \A m : InSeq(m, s) <=> InSeq(m, highList[q]) \/ m = n
        /\ NoRepeat(s)
    <3>1. CASE s = <<n>> \o highList[q]
      BY <1>1, <1>2, <3>1, PrependHolds
    <3>2. CASE s = Append(highList[q], n)
      BY <1>1, <1>2, <3>2, AppendHolds
    <3>3. QED
      BY <3>1, <3>2
  <2>3. /\ highList'[q] = s
        /\ \A r \in Queue : r # q => highList'[r] = highList[r]
    BY <2>1 DEF TypeOK
  <2>4. \A r \in Queue :
          /\ NoRepeat(highList'[r])
          /\ \A m \in Msg : InSeq(m, highList'[r]) <=>
               InSeq(m, highList[r]) \/ (r = q /\ m = n)
    BY <1>2, <2>2, <2>3
  <2>5. QED
    BY <1>2, <2>1, <2>4
<1>5. QED
  BY <1>3, <1>4

\* MessageQ_put to a queue of the own processor: from the thread to a list.
LEMMA PutLocalPlace ==
  ASSUME TypeOK, OwnInv, PlaceInv, NEW t \in Thread, PutLocal(t), UNCHANGED <<linkVars, swiVars>>
  PROVE  PlaceInv'
<1>0. PICK n \in Msg : n = msg[t]
  BY DEF PutLocal, TypeOK, OwnInv, PutLabel
<1>1. /\ pc[t] = "putLocal" /\ Enqueue(n)
      /\ msg' = [msg EXCEPT ![t] = None]
      /\ pc' = [pc EXCEPT ![t] = "signal"]
      /\ UNCHANGED <<freeList, header, list, swi, swiMsg>>
  BY <1>0 DEF PutLocal, heapVars, linkVars, swiVars
<1>2. Dst(n) \in Queue
  BY <1>0, <1>1 DEF PlaceInv, AddressInv
<1>3. Holds("thread", t, n)
  BY <1>0, <1>1 DEF Holds, Carries
<1>4. PICK kind \in {"high", "normal"} :
        \A r \in Queue :
          /\ NoRepeat(highList'[r]) /\ NoRepeat(normalList'[r])
          /\ \A m \in Msg :
               /\ InSeq(m, highList'[r]) <=>
                    InSeq(m, highList[r]) \/ (kind = "high" /\ r = Dst(n) /\ m = n)
               /\ InSeq(m, normalList'[r]) <=>
                    InSeq(m, normalList[r]) \/ (kind = "normal" /\ r = Dst(n) /\ m = n)
  BY <1>1, <1>2, <1>3, EnqueuePlace
<1>5. \A u \in Thread : \A m \in Msg :
        Carries(u, m)' <=> Carries(u, m) /\ ~(u = t /\ m = n)
  BY <1>0, <1>1, MessageQAssumption DEF TypeOK, Carries
<1>6. PICK q \in Queue : q = Dst(n)
  BY <1>2
<1>7. Move(n, "thread", t, kind, q)
  BY <1>1, <1>3, <1>4, <1>5, <1>6 DEF Move, Holds
<1>8. HeldOnce'
  BY <1>7, Moved DEF PlaceInv
<1>9. ListsInv'
  BY <1>1, <1>4 DEF PlaceInv, ListsInv
<1>10. AddressInv' /\ HandsInv'
  BY <1>1 DEF TypeOK, PlaceInv, AddressInv, HandsInv, GetLabel
<1>11. QED
  BY <1>8, <1>9, <1>10 DEF PlaceInv

\* MessageQ_put of the swi: from the swi to a list.
LEMMA SwiPutPlace ==
  ASSUME TypeOK, OwnInv, PlaceInv, NEW p \in Proc, SwiPut(p)
  PROVE  PlaceInv'
<1>0. PICK n \in Msg : n = swiMsg[p]
  BY DEF SwiPut, TypeOK, OwnInv
<1>1. /\ Enqueue(n)
      /\ swiMsg' = [swiMsg EXCEPT ![p] = None]
      /\ swi' = [swi EXCEPT ![p] = "signal"]
      /\ UNCHANGED <<freeList, header, list, msg, pc>>
  BY <1>0 DEF SwiPut, heapVars, linkVars, threadVars
<1>2. Dst(n) \in Queue
  BY <1>0, MessageQAssumption DEF PlaceInv, AddressInv
<1>3. Holds("swi", p, n)
  BY <1>0 DEF Holds
<1>4. PICK kind \in {"high", "normal"} :
        \A r \in Queue :
          /\ NoRepeat(highList'[r]) /\ NoRepeat(normalList'[r])
          /\ \A m \in Msg :
               /\ InSeq(m, highList'[r]) <=>
                    InSeq(m, highList[r]) \/ (kind = "high" /\ r = Dst(n) /\ m = n)
               /\ InSeq(m, normalList'[r]) <=>
                    InSeq(m, normalList[r]) \/ (kind = "normal" /\ r = Dst(n) /\ m = n)
  BY <1>1, <1>2, <1>3, EnqueuePlace
<1>5. \A r \in Proc : \A m \in Msg :
        swiMsg'[r] = m <=> swiMsg[r] = m /\ ~(r = p /\ m = n)
  BY <1>0, <1>1, MessageQAssumption DEF TypeOK
<1>6. PICK q \in Queue : q = Dst(n)
  BY <1>2
<1>7. \A u \in Thread : \A m \in Msg : Carries(u, m)' <=> Carries(u, m)
  BY <1>1 DEF Carries
<1>8. Move(n, "swi", p, kind, q)
  BY <1>1, <1>3, <1>4, <1>5, <1>6, <1>7 DEF Move, Holds
<1>9. HeldOnce'
  BY <1>8, Moved DEF PlaceInv
<1>10. ListsInv'
  BY <1>1, <1>4 DEF PlaceInv, ListsInv
<1>11. AddressInv' /\ HandsInv'
  BY <1>1 DEF TypeOK, PlaceInv, AddressInv, HandsInv
<1>12. QED
  BY <1>9, <1>10, <1>11 DEF PlaceInv

\* TransportShm_put: from the thread to the shared list.
LEMMA PutTailPlace ==
  ASSUME TypeOK, OwnInv, PlaceInv, NEW t \in Thread, PutTail(t)
  PROVE  PlaceInv'
<1>0. PICK n \in Msg : n = msg[t]
  BY DEF PutTail, TypeOK, OwnInv, PutLabel
<1>1. PICK p \in Proc : p = Other(procOf[t])
  BY MessageQAssumption, OtherAssumption
<1>2. /\ pc[t] = "putTail"
      /\ list' = [list EXCEPT ![p] = Append(list[p], n)]
      /\ pc' = [pc EXCEPT ![t] = "sendEvent"]
      /\ UNCHANGED <<freeList, header, highList, normalList, msg, swi, swiMsg>>
  BY <1>0, <1>1 DEF PutTail, heapVars, queueVars, swiVars
<1>3. Dst(n) \in Queue
  BY <1>0, <1>2 DEF PlaceInv, AddressInv
<1>4. Holds("thread", t, n)
  BY <1>0, <1>2 DEF Holds, Carries
<1>5. ~InSeq(n, list[p])
  BY <1>4, OneHolder DEF PlaceInv, Holds
<1>6. /\ \A m : InSeq(m, Append(list[p], n)) <=> InSeq(m, list[p]) \/ m = n
      /\ NoRepeat(Append(list[p], n))
  BY <1>5, AppendHolds DEF TypeOK, PlaceInv, ListsInv
<1>7. /\ list'[p] = Append(list[p], n)
      /\ \A r \in Proc : r # p => list'[r] = list[r]
  BY <1>2 DEF TypeOK
<1>8. \A r \in Proc : \A m \in Msg :
        InSeq(m, list'[r]) <=> InSeq(m, list[r]) \/ (r = p /\ m = n)
  BY <1>6, <1>7
<1>9. \A u \in Thread : \A m \in Msg :
        Carries(u, m)' <=> Carries(u, m) /\ ~(u = t /\ m = n)
  BY <1>0, <1>2 DEF TypeOK, Carries
<1>10. Move(n, "thread", t, "list", p)
  BY <1>2, <1>4, <1>8, <1>9 DEF Move, Holds
<1>11. HeldOnce'
  BY <1>10, Moved DEF PlaceInv
<1>12. ListsInv'
  BY <1>2, <1>6, <1>7 DEF PlaceInv, ListsInv
<1>13. AddressInv'
  <2>1. \A r \in Proc : \A m : InSeq(m, list[r]) => header[m].dst \in Queue
    BY DEF PlaceInv, AddressInv, InSeq
  <2>2. \A r \in Proc : \A m : InSeq(m, list'[r]) => header[m].dst \in Queue
    BY <1>3, <1>6, <1>7, <2>1
  <2>3. \A r \in Proc : \A i \in DOMAIN list'[r] : header'[list'[r][i]].dst \in Queue
    BY <1>2, <2>2 DEF InSeq
  <2>4. QED
    BY <1>2, <2>3 DEF TypeOK, PlaceInv, AddressInv
<1>14. HandsInv'
  BY <1>2 DEF TypeOK, PlaceInv, HandsInv, GetLabel
<1>15. QED
  BY <1>11, <1>12, <1>13, <1>14 DEF PlaceInv

\* Notify_sendEvent: the message is the receiver's, or still on the list.
LEMMA SendEventPlace ==
  ASSUME TypeOK, PlaceInv, NEW t \in Thread, SendEvent(t)
  PROVE  PlaceInv'
<1>1. /\ pc[t] = "sendEvent"
      /\ UNCHANGED <<freeList, header, highList, normalList, list, swi, swiMsg>>
  BY DEF SendEvent, heapVars, queueVars, swiVars
<1>2. \/ msg' = [msg EXCEPT ![t] = None] /\ pc' = [pc EXCEPT ![t] = "putLeave"]
      \/ msg' = msg /\ pc' = [pc EXCEPT ![t] = "putRemove"]
  BY DEF SendEvent
<1>3. \A u \in Thread : \A m \in Msg : Carries(u, m)' <=> Carries(u, m)
  BY <1>1, <1>2, MessageQAssumption DEF TypeOK, Carries
<1>4. \A u \in Thread :
        /\ pc'[u] \in {"putLocal", "putRemote", "putTail"} =>
             pc[u] \in {"putLocal", "putRemote", "putTail"} /\ msg'[u] = msg[u]
        /\ pc'[u] \in GetLabel => msg'[u] = None
  BY <1>1, <1>2 DEF TypeOK, PlaceInv, HandsInv, GetLabel
<1>5. QED
  BY <1>1, <1>3, <1>4, StayPut

\* TransportShm_put fails: from the shared list back to the thread.
LEMMA PutRemovePlace ==
  ASSUME TypeOK, OwnInv, GateInv, PlaceInv, NEW t \in Thread, PutRemove(t)
  PROVE  PlaceInv'
<1>0. PICK n \in Msg : n = msg[t]
  BY DEF PutRemove, TypeOK, OwnInv, PutLabel
<1>1. PICK p \in Proc : p = Other(procOf[t])
  BY MessageQAssumption, OtherAssumption
<1>2. /\ pc[t] = "putRemove"
      /\ list' = [list EXCEPT ![p] = <<>>]
      /\ pc' = [pc EXCEPT ![t] = "putLeave"]
      /\ UNCHANGED <<freeList, header, highList, normalList, msg, swi, swiMsg>>
  BY <1>1, RemovedLast DEF PutRemove, GateInv, heapVars, queueVars, swiVars
<1>3. list[p] = <<n>>
  BY <1>0, <1>1, <1>2 DEF GateInv, AloneInv
<1>4. /\ \A m : InSeq(m, <<n>>) <=> m = n
      /\ \A m : ~InSeq(m, <<>>)
      /\ NoRepeat(<<>>)
  BY DEF InSeq, NoRepeat
<1>5. Holds("list", p, n)
  BY <1>3, <1>4 DEF Holds
<1>6. /\ list'[p] = <<>>
      /\ \A r \in Proc : r # p => list'[r] = list[r]
  BY <1>2 DEF TypeOK
<1>7. \A r \in Proc : \A m \in Msg :
        InSeq(m, list'[r]) <=> InSeq(m, list[r]) /\ ~(r = p /\ m = n)
  BY <1>3, <1>4, <1>6
<1>8. \A u \in Thread : \A m \in Msg :
        Carries(u, m)' <=> Carries(u, m) \/ (u = t /\ m = n)
  BY <1>0, <1>2 DEF TypeOK, Carries
<1>9. Move(n, "list", p, "thread", t)
  BY <1>2, <1>5, <1>7, <1>8 DEF Move, Holds
<1>10. HeldOnce'
  BY <1>9, Moved DEF PlaceInv
<1>11. ListsInv'
  BY <1>2, <1>4, <1>6 DEF PlaceInv, ListsInv
<1>12. AddressInv' /\ HandsInv'
  BY <1>2, <1>6 DEF TypeOK, PlaceInv, AddressInv, HandsInv, GetLabel
<1>13. QED
  BY <1>10, <1>11, <1>12 DEF PlaceInv

\* The swi: from the shared list to the swi.
LEMMA SwiGetPlace ==
  ASSUME TypeOK, PlaceInv, NEW p \in Proc, SwiGet(p)
  PROVE  PlaceInv'
<1>1. /\ swi[p] = "get" /\ swiMsg[p] = None
      /\ UNCHANGED <<freeList, header, highList, normalList, pc, msg>>
  BY DEF SwiGet, mqVars, heapVars, queueVars, threadVars, PlaceInv, HandsInv
<1>2. CASE list[p] = <<>>
  <2>1. swi' = [swi EXCEPT ![p] = "idle"] /\ UNCHANGED <<list, swiMsg>>
    BY <1>2 DEF SwiGet
  <2>2. \A u \in Thread : \A m \in Msg : Carries(u, m)' <=> Carries(u, m)
    BY <1>1 DEF Carries
  <2>3. QED
    BY <1>1, <2>1, <2>2, StayPut DEF TypeOK, PlaceInv, HandsInv
<1>3. CASE list[p] # <<>>
  <2>1. list[p] \in Seq(Msg) /\ NoRepeat(list[p])
    BY DEF TypeOK, PlaceInv, ListsInv
  <2>2. PICK n \in Msg : n = Head(list[p])
    BY <1>3, <2>1, HeadTail
  <2>3. /\ list' = [list EXCEPT ![p] = Tail(list[p])]
        /\ swiMsg' = [swiMsg EXCEPT ![p] = n]
        /\ swi' = [swi EXCEPT ![p] = "put"]
    BY <1>3, <2>2 DEF SwiGet
  <2>4. /\ \A m : InSeq(m, Tail(list[p])) <=> InSeq(m, list[p]) /\ m # n
        /\ InSeq(n, list[p]) /\ NoRepeat(Tail(list[p]))
    BY <1>3, <2>1, <2>2, TailHolds
  <2>5. Holds("list", p, n)
    BY <2>4 DEF Holds
  <2>6. /\ list'[p] = Tail(list[p])
        /\ \A r \in Proc : r # p => list'[r] = list[r]
    BY <2>3 DEF TypeOK
  <2>7. \A r \in Proc : \A m \in Msg :
          InSeq(m, list'[r]) <=> InSeq(m, list[r]) /\ ~(r = p /\ m = n)
    BY <2>4, <2>6
  <2>8. \A r \in Proc : \A m \in Msg :
          swiMsg'[r] = m <=> swiMsg[r] = m \/ (r = p /\ m = n)
    BY <1>1, <2>3, MessageQAssumption DEF TypeOK
  <2>9. \A u \in Thread : \A m \in Msg : Carries(u, m)' <=> Carries(u, m)
    BY <1>1 DEF Carries
  <2>10. Move(n, "list", p, "swi", p)
    BY <1>1, <2>5, <2>7, <2>8, <2>9 DEF Move, Holds
  <2>11. HeldOnce'
    BY <2>10, Moved DEF PlaceInv
  <2>12. ListsInv'
    BY <1>1, <2>4, <2>6 DEF PlaceInv, ListsInv
  <2>13. AddressInv'
    <3>1. \A r \in Proc : \A m : InSeq(m, list[r]) => header[m].dst \in Queue
      BY DEF PlaceInv, AddressInv, InSeq
    <3>2. \A r \in Proc : \A m : InSeq(m, list'[r]) => header[m].dst \in Queue
      BY <2>4, <2>6, <3>1
    <3>3. \A r \in Proc : \A i \in DOMAIN list'[r] : header'[list'[r][i]].dst \in Queue
      BY <1>1, <3>2 DEF InSeq
    <3>4. header[n].dst \in Queue
      BY <2>4, <3>1
    <3>5. \A r \in Proc : swiMsg'[r] # None => header'[swiMsg'[r]].dst \in Queue
      BY <1>1, <2>3, <3>4 DEF TypeOK, PlaceInv, AddressInv
    <3>6. QED
      BY <1>1, <3>3, <3>5 DEF PlaceInv, AddressInv
  <2>14. HandsInv'
    BY <1>1, <2>3 DEF TypeOK, PlaceInv, HandsInv
  <2>15. QED
    BY <2>11, <2>12, <2>13, <2>14 DEF PlaceInv
<1>4. QED
  BY <1>2, <1>3

\* The steps of MessageQ between the places: waiting, waking and signalling.
LEMMA CallPlace ==
  ASSUME TypeOK, PlaceInv, NEW t \in Thread, LocalStep(t),
         \/ Signal(t) \/ MessageQ_get(t) \/ Wait(t) \/ Timeout(t) \/ Woken(t)
         \/ \E q \in Queue : MessageQ_unblock(t, q)
  PROVE  PlaceInv'
<1> USE DEF heapVars, queueVars, linkVars, swiVars
<1>1. UNCHANGED <<freeList, header, highList, normalList, msg, list, swi, swiMsg>>
  BY Zenon DEF Signal, MessageQ_get, Wait, Timeout, Woken, MessageQ_unblock, LocalStep
<1>2. PICK l \in {"idle", "signal", "getHigh", "woken", "done"} : pc' = [pc EXCEPT ![t] = l]
  BY DEF Signal, MessageQ_get, Wait, Timeout, Woken, MessageQ_unblock
<1>3. /\ pc[t] \in {"idle", "signal", "wait", "woken"}
      /\ l \in GetLabel => msg[t] = None
  BY <1>2 DEF Signal, MessageQ_get, Wait, Timeout, Woken, MessageQ_unblock, GetLabel,
     TypeOK, PlaceInv, HandsInv
<1>4. \A u \in Thread : \A m \in Msg : Carries(u, m)' <=> Carries(u, m)
  BY <1>1, <1>2, <1>3 DEF TypeOK, Carries
<1>5. \A u \in Thread :
        /\ pc'[u] \in {"putLocal", "putRemote", "putTail"} =>
             pc[u] \in {"putLocal", "putRemote", "putTail"} /\ msg'[u] = msg[u]
        /\ pc'[u] \in GetLabel => msg'[u] = None
  BY <1>1, <1>2, <1>3 DEF TypeOK, PlaceInv, HandsInv
<1>6. QED
  BY <1>1, <1>4, <1>5, StayPut

\* Entering and leaving the gate of the lists.
LEMMA EnterPlace ==
  ASSUME TypeOK, PlaceInv, NEW t \in Thread, PutEnter(t) \/ PutLeave(t)
  PROVE  PlaceInv'
<1>1. UNCHANGED <<freeList, header, highList, normalList, msg, list, swi, swiMsg>>
  BY DEF PutEnter, PutLeave, heapVars, queueVars, swiVars
<1>2. \/ pc[t] = "putRemote" /\ pc' = [pc EXCEPT ![t] = "putTail"]
      \/ pc[t] = "putLeave" /\ pc' = [pc EXCEPT ![t] = "idle"]
  BY DEF PutEnter, PutLeave
<1>3. \A u \in Thread : \A m \in Msg : Carries(u, m)' <=> Carries(u, m)
  BY <1>1, <1>2 DEF TypeOK, Carries
<1>4. \A u \in Thread :
        /\ pc'[u] \in {"putLocal", "putRemote", "putTail"} =>
             pc[u] \in {"putLocal", "putRemote", "putTail"} /\ msg'[u] = msg[u]
        /\ pc'[u] \in GetLabel => msg'[u] = None
  BY <1>1, <1>2 DEF TypeOK, PlaceInv, HandsInv, GetLabel
<1>5. QED
  BY <1>1, <1>3, <1>4, StayPut

\* The steps of a processor that carry no message.
LEMMA QuietPlace ==
  ASSUME TypeOK, OwnInv, PlaceInv, NEW p \in Proc,
         Instance_init(p) \/ TransportShm_notifyFxn(p) \/ SwiStart(p) \/ SwiSignal(p)
  PROVE  PlaceInv'
<1>1. /\ UNCHANGED <<freeList, header, highList, normalList, pc, msg, list, swiMsg>>
      /\ \/ swi' = swi
         \/ /\ swi[p] \in {"idle", "signal"}
            /\ swi' = [swi EXCEPT ![p] = "get"]
  BY DEF Instance_init, TransportShm_notifyFxn, SwiStart, SwiSignal, SwiNext, mqVars, linkVars,
     swiVars, heapVars, queueVars, threadVars
<1>2. \A u \in Thread : \A m \in Msg : Carries(u, m)' <=> Carries(u, m)
  BY <1>1 DEF Carries
<1>3. QED
  BY <1>1, <1>2, StayPut DEF TypeOK, PlaceInv, HandsInv

LEMMA PlaceStep ==
  ASSUME IInv, PlaceInv, Next
  PROVE  PlaceInv'
<1> USE DEF IInv
<1>1. ASSUME NEW t \in Thread, LocalStep(t)
      PROVE  PlaceInv'
  <2>1. CASE MessageQ_alloc(t)
    BY <1>1, <2>1, AllocPlace DEF LocalStep
  <2>2. CASE MessageQ_free(t)
    BY <1>1, <2>2, FreePlace DEF LocalStep
  <2>3. CASE \E q \in Queue : \E pri \in Priority : MessageQ_put(t, q, pri)
    BY <1>1, <2>3, PutPlace DEF LocalStep
  <2>4. CASE PutLocal(t)
    BY <1>1, <2>4, PutLocalPlace DEF LocalStep
  <2>5. CASE GetHigh(t) \/ GetNormal(t)
    <3>1. reads[t] \in Queue
      BY <2>5, MessageQAssumption DEF GetHigh, GetNormal, OwnInv, GetLabel
    <3>2. QED
      BY <1>1, <2>5, <3>1, GotPlace
  <2>6. CASE \/ Signal(t) \/ MessageQ_get(t) \/ Wait(t) \/ Timeout(t) \/ Woken(t)
             \/ \E q \in Queue : MessageQ_unblock(t, q)
    BY <1>1, <2>6, CallPlace
  <2>7. QED
    BY ONLY <1>1, <2>1, <2>2, <2>3, <2>4, <2>5, <2>6 DEF LocalStep
<1>2. ASSUME NEW t \in Thread,
             PutEnter(t) \/ PutTail(t) \/ SendEvent(t) \/ PutRemove(t) \/ PutLeave(t)
      PROVE  PlaceInv'
  BY <1>2, EnterPlace, PutTailPlace, SendEventPlace, PutRemovePlace
<1>3. ASSUME NEW p \in Proc,
             \/ Instance_init(p) \/ TransportShm_notifyFxn(p)
             \/ SwiStart(p) \/ SwiGet(p) \/ SwiPut(p) \/ SwiSignal(p)
      PROVE  PlaceInv'
  BY <1>3, QuietPlace, SwiGetPlace, SwiPutPlace
<1>4. QED
  BY ONLY Steps, Next, <1>1, <1>2, <1>3

LEMMA InitPlace ==
  ASSUME Init
  PROVE  PlaceInv
<1> USE DEF Init, MessageQInit
<1>1. ASSUME NEW m \in Msg
      PROVE  HeldBy(m, "heap", None)
  <2>1. Holds("heap", None, m)
    BY DEF Holds
  <2>2. ASSUME NEW l, NEW y, Holds(l, y, m) PROVE l = "heap" /\ y = None
    BY <2>2, MessageQAssumption DEF Holds, Carries, InSeq
  <2>3. QED
    BY <2>1, <2>2 DEF HeldBy
<1>2. HeldOnce
  BY <1>1 DEF HeldOnce
<1>3. ListsInv
  BY DEF ListsInv, NoRepeat
<1>4. AddressInv /\ HandsInv
  BY DEF AddressInv, HandsInv, GetLabel
<1>5. QED
  BY <1>2, <1>3, <1>4 DEF PlaceInv

-----------------------------------------------------------------------------
\* The order of the messages.  What the operations on a list do to it.
LEMMA PrecedesIn ==
  ASSUME NEW s, NEW m, NEW n, Precedes(s, m, n)
  PROVE  InSeq(m, s) /\ InSeq(n, s)
  BY DEF Precedes, InSeq

LEMMA AppendPrecedes ==
  ASSUME NEW S, NEW s \in Seq(S), NEW x \in S, NEW m, NEW n, Precedes(Append(s, x), m, n)
  PROVE  Precedes(s, m, n) \/ (InSeq(m, s) /\ n = x)
<1>1. /\ DOMAIN Append(s, x) = 1 .. Len(s) + 1 /\ DOMAIN s = 1 .. Len(s) /\ Len(s) \in Nat
      /\ \A i \in 1 .. Len(s) : Append(s, x)[i] = s[i]
      /\ Append(s, x)[Len(s) + 1] = x
  OBVIOUS
<1>2. PICK i \in 1 .. Len(s) + 1, j \in 1 .. Len(s) + 1 :
        i < j /\ Append(s, x)[i] = m /\ Append(s, x)[j] = n
  BY <1>1 DEF Precedes
<1>3. i \in 1 .. Len(s) /\ s[i] = m
  BY <1>1, <1>2
<1>4. CASE j \in 1 .. Len(s)
  BY <1>1, <1>2, <1>3, <1>4 DEF Precedes
<1>5. CASE j = Len(s) + 1
  BY <1>1, <1>2, <1>3, <1>5 DEF InSeq
<1>6. QED
  BY <1>1, <1>4, <1>5

LEMMA PrependPrecedes ==
  ASSUME NEW S, NEW s \in Seq(S), NEW x \in S, NEW m, NEW n, Precedes(<<x>> \o s, m, n)
  PROVE  Precedes(s, m, n) \/ m = x
<1> DEFINE c == <<x>> \o s
<1>1. /\ DOMAIN c = 1 .. Len(s) + 1 /\ DOMAIN s = 1 .. Len(s) /\ Len(s) \in Nat
      /\ \A i \in 1 .. Len(s) : c[i + 1] = s[i]
      /\ c[1] = x
  OBVIOUS
<1>2. PICK i \in DOMAIN c, j \in DOMAIN c : i < j /\ c[i] = m /\ c[j] = n
  BY DEF Precedes
<1> HIDE DEF c
<1>3. CASE i = 1
  BY <1>1, <1>2, <1>3
<1>4. CASE i # 1
  <2>1. /\ i - 1 \in 1 .. Len(s) /\ j - 1 \in 1 .. Len(s) /\ i - 1 < j - 1
        /\ i = (i - 1) + 1 /\ j = (j - 1) + 1
    BY <1>1, <1>2, <1>4
  <2>2. s[i - 1] = m /\ s[j - 1] = n
    BY <1>1, <1>2, <2>1
  <2>3. QED
    BY <1>1, <2>1, <2>2 DEF Precedes
<1>5. QED
  BY <1>3, <1>4

LEMMA TailPrecedes ==
  ASSUME NEW S, NEW s \in Seq(S), s # <<>>, NEW m, NEW n
  PROVE  /\ Precedes(Tail(s), m, n) => Precedes(s, m, n)
         /\ InSeq(n, Tail(s)) => Precedes(s, Head(s), n) /\ InSeq(n, s)
         /\ InSeq(Head(s), s)
<1> DEFINE r == Tail(s)
<1>1. /\ Len(s) \in Nat /\ Len(s) > 0
      /\ DOMAIN s = 1 .. Len(s) /\ DOMAIN r = 1 .. Len(s) - 1
      /\ \A i \in 1 .. Len(s) - 1 : r[i] = s[i + 1]
      /\ Head(s) = s[1] /\ 1 \in DOMAIN s
  OBVIOUS
<1> HIDE DEF r
<1>2. ASSUME Precedes(r, m, n) PROVE Precedes(s, m, n)
  <2>1. PICK i \in DOMAIN r, j \in DOMAIN r : i < j /\ r[i] = m /\ r[j] = n
    BY <1>2 DEF Precedes
  <2>2. i + 1 \in DOMAIN s /\ j + 1 \in DOMAIN s /\ i + 1 < j + 1
    BY <1>1, <2>1
  <2>3. s[i + 1] = m /\ s[j + 1] = n
    BY <1>1, <2>1
  <2>4. QED
    BY <2>2, <2>3 DEF Precedes
<1>3. ASSUME InSeq(n, r) PROVE Precedes(s, Head(s), n) /\ InSeq(n, s)
  <2>1. PICK i \in DOMAIN r : r[i] = n
    BY <1>3 DEF InSeq
  <2>2. i + 1 \in DOMAIN s /\ 1 < i + 1 /\ s[i + 1] = n
    BY <1>1, <2>1
  <2>3. QED
    BY <1>1, <2>2 DEF Precedes, InSeq
<1>4. QED
  BY <1>1, <1>2, <1>3 DEF InSeq, r

\* The delivery of MessageQ_put lets only an urgent message overtake in its queue.
LEMMA EnqueueOrder ==
  ASSUME TypeOK, NEW x \in Msg, Enqueue(x), Dst(x) \in Queue,
         NEW q \in Queue, NEW m \in Msg, NEW n \in Msg
  PROVE  /\ InQueue(q, m)' => InQueue(q, m) \/ (q = Dst(x) /\ m = x)
         /\ Precedes(normalList'[q], m, n) =>
              Precedes(normalList[q], m, n) \/ (q = Dst(x) /\ InQueue(q, m) /\ n = x)
         /\ header[m].pri # "urgent" /\ Precedes(highList'[q], m, n) =>
              Precedes(highList[q], m, n) \/ (q = Dst(x) /\ InQueue(q, m) /\ n = x)
<1>1. highList[q] \in Seq(Msg) /\ normalList[q] \in Seq(Msg)
  BY DEF TypeOK
<1>2. CASE q # Dst(x)
  BY <1>2, EnqueueType DEF InQueue
<1>3. CASE q = Dst(x) /\ header[x].pri = "normal"
  <2>1. normalList'[q] = Append(normalList[q], x) /\ highList' = highList
    BY <1>3 DEF Enqueue, TypeOK
  <2>2. InSeq(m, Append(normalList[q], x)) <=> InSeq(m, normalList[q]) \/ m = x
    BY <1>1, AppendHolds
  <2>3. Precedes(Append(normalList[q], x), m, n) =>
          Precedes(normalList[q], m, n) \/ (InSeq(m, normalList[q]) /\ n = x)
    BY <1>1, AppendPrecedes
  <2>4. QED
    BY <1>3, <2>1, <2>2, <2>3 DEF InQueue
<1>4. CASE q = Dst(x) /\ header[x].pri = "urgent"
  <2>1. highList'[q] = <<x>> \o highList[q] /\ normalList' = normalList
    BY <1>4 DEF Enqueue, TypeOK
  <2>2. InSeq(m, <<x>> \o highList[q]) <=> InSeq(m, highList[q]) \/ m = x
    BY <1>1, PrependHolds
  <2>3. Precedes(<<x>> \o highList[q], m, n) => Precedes(highList[q], m, n) \/ m = x
    BY <1>1, PrependPrecedes
  <2>4. QED
    BY <1>4, <2>1, <2>2, <2>3 DEF InQueue
<1>5. CASE q = Dst(x) /\ header[x].pri \notin {"normal", "urgent"}
  <2>1. highList'[q] = Append(highList[q], x) /\ normalList' = normalList
    BY <1>5 DEF Enqueue, TypeOK
  <2>2. InSeq(m, Append(highList[q], x)) <=> InSeq(m, highList[q]) \/ m = x
    BY <1>1, AppendHolds
  <2>3. Precedes(Append(highList[q], x), m, n) =>
          Precedes(highList[q], m, n) \/ (InSeq(m, highList[q]) /\ n = x)
    BY <1>1, AppendPrecedes
  <2>4. QED
    BY <1>5, <2>1, <2>2, <2>3 DEF InQueue
<1>6. QED
  BY <1>2, <1>3, <1>4, <1>5

\* Where the message with a thread, or in the heap, is not.
LEMMA Elsewhere ==
  ASSUME HeldOnce, NEW x \in Msg, NEW a, NEW y, Holds(a, y, x), a \in {"heap", "thread"}
  PROVE  /\ \A p \in Proc : ~OnLink(p, x)
         /\ \A q \in Queue : ~InQueue(q, x)
         /\ \A t \in Thread : ~(a = "thread" /\ y = t) => ~Carries(t, x)
<1>1. \A p \in Proc : ~OnLink(p, x)
  BY OneHolder DEF Holds, OnLink
<1>2. \A q \in Queue : ~InQueue(q, x)
  BY OneHolder DEF Holds, InQueue
<1>3. \A t \in Thread : ~(a = "thread" /\ y = t) => ~Carries(t, x)
  BY OneHolder DEF Holds
<1>4. QED
  BY <1>1, <1>2, <1>3

\* What is ahead of something is on the way, and so is what is behind.
LEMMA AheadOnWay ==
  ASSUME NEW t \in Thread, NEW m, NEW n, Ahead(t, m, n), Other(procOf[t]) \in Proc
  PROVE  /\ OnLink(Other(procOf[t]), m) \/ \E q \in Queue : InQueue(q, m)
         /\ OnLink(Other(procOf[t]), n) \/ \E q \in Queue : InQueue(q, n)
  BY PrecedesIn DEF Ahead, OnLink, InQueue

\* Steps that move no message that is on its way, put none and write no header of
\* one.
OnWay(m) == (\E p \in Proc : OnLink(p, m)) \/ (\E q \in Queue : InQueue(q, m))
LEMMA WayStays ==
  ASSUME RouteInv, InOrder, UNCHANGED <<highList, normalList, list, swiMsg>>,
         \A m \in Msg : OnWay(m) => header'[m] = header[m],
         \A t \in Thread : \A m, n \in Msg :
           OnWay(m) /\ OnWay(n) /\ <<n, m>> \in sent'[t] => <<n, m>> \in sent[t],
         \A t \in Thread : Addressed(t)' =>
           (pc'[t] = "putLocal" <=> home[header'[msg'[t]].dst] = procOf[t])
  PROVE  RouteInv' /\ InOrder'
<1>1. \A p \in Proc : \A m : OnLink(p, m)' <=> OnLink(p, m)
  BY DEF OnLink, InSeq
<1>2. \A t \in Thread : Other(procOf[t]) \in Proc
  BY MessageQAssumption, OtherAssumption
<1>3. RouteInv'
  <2> SUFFICES ASSUME NEW t \in Thread, NEW p \in Proc, NEW m \in SentBy(t)', OnLink(p, m)
               PROVE  p = Other(procOf[t]) /\ home[header'[m].dst] # procOf[t]
    BY <1>1 DEF RouteInv
  <2>1. m \in SentBy(t) /\ header'[m] = header[m]
    BY DEF SentBy, OnWay
  <2>2. QED
    BY <2>1 DEF RouteInv
<1>4. InOrder'
  <2> SUFFICES ASSUME NEW t \in Thread, NEW m \in SentBy(t)', NEW n \in SentBy(t)',
                      Ahead(t, m, n)', <<n, m>> \in sent'[t]
               PROVE  FALSE
    BY DEF InOrder
  <2>1. m \in Msg /\ n \in Msg
    BY DEF SentBy
  <2>2. OnWay(m) /\ OnWay(n)
    <3>1. /\ OnLink(Other(procOf[t]), m)' \/ \E q \in Queue : InQueue(q, m)'
          /\ OnLink(Other(procOf[t]), n)' \/ \E q \in Queue : InQueue(q, n)'
      BY <1>2, PrecedesIn DEF Ahead, OnLink, InQueue
    <3>2. \A q \in Queue : \A x : InQueue(q, x)' <=> InQueue(q, x)
      BY DEF InQueue
    <3>3. QED
      BY <1>1, <1>2, <3>1, <3>2 DEF OnWay
  <2>3. Ahead(t, m, n)
    BY <2>1, <2>2 DEF Ahead, OnLink, InQueue, InSeq, Precedes
  <2>4. m \in SentBy(t) /\ n \in SentBy(t) /\ <<n, m>> \in sent[t]
    BY <2>1, <2>2 DEF SentBy
  <2>5. QED
    BY <2>3, <2>4 DEF InOrder
<1>5. QED
  BY <1>3, <1>4

\* MessageQ_get and a failing put take message x out of the order.
LEMMA ForgetSent ==
  ASSUME SentInv, NEW x \in Msg, Forget(x), NEW t \in Thread
  PROVE  /\ \A m, n : <<m, n>> \in sent'[t] <=> <<m, n>> \in sent[t] /\ m # x /\ n # x
         /\ SentBy(t)' = SentBy(t) \ {x}
         /\ \A pair \in sent'[t] : pair \in sent[t] /\ pair \in SentBy(t)' \X SentBy(t)'
         /\ sent' \in [Thread -> SUBSET (Msg \X Msg)]
<1>1. sent'[t] = sent[t] \cap ((Msg \ {x}) \X (Msg \ {x}))
  BY DEF Forget
<1>2. \A pair \in sent[t] : pair \in SentBy(t) \X SentBy(t)
  BY DEF SentInv
<1>3. SentBy(t) \subseteq Msg
  BY DEF SentBy
<1>4. \A m, n : <<m, n>> \in sent'[t] <=> <<m, n>> \in sent[t] /\ m # x /\ n # x
  BY <1>1, <1>2, <1>3
<1>5. SentBy(t)' = SentBy(t) \ {x}
  BY <1>4 DEF SentBy
<1>6. \A pair \in sent'[t] : pair \in sent[t] /\ pair \in SentBy(t)' \X SentBy(t)'
  BY <1>1, <1>2, <1>5
<1>7. sent' \in [Thread -> SUBSET (Msg \X Msg)]
  BY DEF Forget, SentInv
<1>8. QED
  BY <1>4, <1>5, <1>6, <1>7

\* The steps that move no message and put none.
LEMMA StayOrder ==
  ASSUME TypeOK, OrderInv,
         UNCHANGED <<freeList, header, highList, normalList, list, swiMsg, sent>>,
         \A u \in Thread :
           /\ msg'[u] = msg[u] \/ msg'[u] = None
           /\ pc[u] \in PutLabel => pc'[u] \in PutLabel \/ msg'[u] = None
           /\ Addressed(u)' => /\ Addressed(u) /\ msg'[u] = msg[u]
                               /\ pc'[u] = "putLocal" <=> pc[u] = "putLocal"
  PROVE  OrderInv'
<1>1. \A t \in Thread : sent'[t] = sent[t] /\ SentBy(t)' = SentBy(t) /\ None \notin SentBy(t)
  BY MessageQAssumption DEF SentBy
<1>2. SentInv'
  <2>1. ASSUME NEW t \in Thread
        PROVE  /\ \A pair \in sent'[t] : pair \in SentBy(t)' \X SentBy(t)'
               /\ freeList' \cap SentBy(t)' = {}
               /\ \A u \in Thread : msg'[u] \in SentBy(t)' => u = t /\ pc'[u] \in PutLabel
    BY <1>1 DEF OrderInv, SentInv
  <2>2. ASSUME NEW t \in Thread, Addressed(t)', NEW n \in Msg, <<msg'[t], n>> \in sent'[t]
        PROVE  n = msg'[t]
    BY <2>2 DEF OrderInv, SentInv
  <2>3. sent' \in [Thread -> SUBSET (Msg \X Msg)]
    BY DEF OrderInv, SentInv
  <2>4. QED
    BY <2>1, <2>2, <2>3 DEF SentInv
<1>3. \A t \in Thread : Addressed(t)' =>
        (pc'[t] = "putLocal" <=> home[header'[msg'[t]].dst] = procOf[t])
  BY DEF OrderInv, RouteInv
<1>4. RouteInv' /\ InOrder'
  BY <1>1, <1>3, WayStays DEF OrderInv
<1>5. QED
  BY <1>2, <1>4 DEF OrderInv

\* MessageQ_alloc: a block of the heap, which was put by nobody.
LEMMA AllocOrder ==
  ASSUME TypeOK, PlaceInv, OrderInv, NEW t \in Thread, MessageQ_alloc(t),
         UNCHANGED <<linkVars, swiVars>>
  PROVE  OrderInv'
<1>1. PICK n \in Msg : /\ n \in freeList /\ freeList' = freeList \ {n}
                       /\ msg' = [msg EXCEPT ![t] = n]
                       /\ header' = [header EXCEPT ![n] = NoHeader]
  BY DEF MessageQ_alloc, TypeOK
<1>2. /\ pc[t] = "idle" /\ msg[t] = None
      /\ UNCHANGED <<highList, normalList, pc, list, swi, swiMsg, sent>>
  BY DEF MessageQ_alloc, queueVars, linkVars, swiVars
<1>3. \A u \in Thread : SentBy(u)' = SentBy(u)
  BY <1>2 DEF SentBy
<1>4. /\ msg'[t] = n /\ \A u \in Thread : u # t => msg'[u] = msg[u]
      /\ ~Addressed(t)
  BY <1>1, <1>2 DEF TypeOK, Addressed
<1>5. SentInv'
  <2>1. ASSUME NEW u \in Thread
        PROVE  /\ \A pair \in sent'[u] : pair \in SentBy(u)' \X SentBy(u)'
               /\ freeList' \cap SentBy(u)' = {}
               /\ \A v \in Thread : msg'[v] \in SentBy(u)' => v = u /\ pc'[v] \in PutLabel
    BY <1>1, <1>2, <1>3, <1>4 DEF OrderInv, SentInv
  <2>2. ASSUME NEW u \in Thread, Addressed(u)', NEW m \in Msg, <<msg'[u], m>> \in sent'[u]
        PROVE  m = msg'[u]
    BY <1>2, <1>4, <2>2 DEF OrderInv, SentInv, Addressed
  <2>3. sent' \in [Thread -> SUBSET (Msg \X Msg)]
    BY <1>2 DEF OrderInv, SentInv
  <2>4. QED
    BY <2>1, <2>2, <2>3 DEF SentInv
<1>6. Holds("heap", None, n)
  BY <1>1 DEF Holds
<1>7. /\ ~OnWay(n)
      /\ \A u \in Thread : ~Carries(u, n)
  BY <1>6, Elsewhere DEF PlaceInv, OnWay
<1>8. /\ \A m \in Msg : m # n => header'[m] = header[m]
      /\ header'[None] = header[None]
  BY <1>1, MessageQAssumption DEF TypeOK
<1>9. ASSUME NEW u \in Thread, Addressed(u)'
      PROVE  pc'[u] = "putLocal" <=> home[header'[msg'[u]].dst] = procOf[u]
  <2>1. Addressed(u) /\ u # t
    BY <1>2, <1>4, <1>9 DEF Addressed
  <2>2. msg[u] # n
    BY <1>7, <2>1 DEF Carries, Addressed
  <2>3. header'[msg[u]] = header[msg[u]]
    BY <1>8, <2>2 DEF TypeOK
  <2>4. QED
    BY <1>2, <1>4, <2>1, <2>3 DEF OrderInv, RouteInv
<1>10. \A m \in Msg : OnWay(m) => header'[m] = header[m]
  BY <1>7, <1>8
<1>11. RouteInv' /\ InOrder'
  BY <1>2, <1>9, <1>10, WayStays DEF OrderInv
<1>12. QED
  BY <1>5, <1>11 DEF OrderInv

\* MessageQ_free, of a message that the thread has not put.
LEMMA FreeOrder ==
  ASSUME TypeOK, PlaceInv, OrderInv, NEW t \in Thread, MessageQ_free(t),
         UNCHANGED <<linkVars, swiVars>>
  PROVE  OrderInv'
<1>1. PICK n \in Msg : n = msg[t]
  BY DEF MessageQ_free, TypeOK
<1>2. /\ freeList' = freeList \cup {n}
      /\ msg' = [msg EXCEPT ![t] = None]
      /\ header' = [header EXCEPT ![n] = NoHeader]
      /\ pc[t] = "idle"
      /\ UNCHANGED <<highList, normalList, pc, list, swi, swiMsg, sent>>
  BY <1>1 DEF MessageQ_free, queueVars, linkVars, swiVars
<1>3. \A u \in Thread : SentBy(u)' = SentBy(u) /\ None \notin SentBy(u) /\ n \notin SentBy(u)
  BY <1>1, <1>2, MessageQAssumption DEF SentBy, OrderInv, SentInv, PutLabel
<1>4. /\ msg'[t] = None /\ \A u \in Thread : u # t => msg'[u] = msg[u]
      /\ ~Addressed(t)
  BY <1>2 DEF TypeOK, Addressed
<1>5. SentInv'
  <2>1. ASSUME NEW u \in Thread
        PROVE  /\ \A pair \in sent'[u] : pair \in SentBy(u)' \X SentBy(u)'
               /\ freeList' \cap SentBy(u)' = {}
               /\ \A v \in Thread : msg'[v] \in SentBy(u)' => v = u /\ pc'[v] \in PutLabel
    BY <1>2, <1>3, <1>4 DEF OrderInv, SentInv
  <2>2. ASSUME NEW u \in Thread, Addressed(u)', NEW m \in Msg, <<msg'[u], m>> \in sent'[u]
        PROVE  m = msg'[u]
    BY <1>2, <1>4, <2>2 DEF OrderInv, SentInv, Addressed
  <2>3. sent' \in [Thread -> SUBSET (Msg \X Msg)]
    BY <1>2 DEF OrderInv, SentInv
  <2>4. QED
    BY <2>1, <2>2, <2>3 DEF SentInv
<1>6. Holds("thread", t, n)
  BY <1>1, <1>2 DEF Holds, Carries
<1>7. /\ ~OnWay(n)
      /\ \A u \in Thread : u # t => ~Carries(u, n)
  BY <1>6, Elsewhere DEF PlaceInv, OnWay
<1>8. /\ \A m \in Msg : m # n => header'[m] = header[m]
      /\ header'[None] = header[None]
  BY <1>2, MessageQAssumption DEF TypeOK
<1>9. ASSUME NEW u \in Thread, Addressed(u)'
      PROVE  pc'[u] = "putLocal" <=> home[header'[msg'[u]].dst] = procOf[u]
  <2>1. Addressed(u) /\ u # t
    BY <1>2, <1>4, <1>9 DEF Addressed
  <2>2. msg[u] # n
    BY <1>7, <2>1 DEF Carries, Addressed
  <2>3. header'[msg[u]] = header[msg[u]]
    BY <1>8, <2>2 DEF TypeOK
  <2>4. QED
    BY <1>2, <1>4, <2>1, <2>3 DEF OrderInv, RouteInv
<1>10. \A m \in Msg : OnWay(m) => header'[m] = header[m]
  BY <1>7, <1>8
<1>11. RouteInv' /\ InOrder'
  BY <1>2, <1>9, <1>10, WayStays DEF OrderInv
<1>12. QED
  BY <1>5, <1>11 DEF OrderInv

\* MessageQ_put: the message becomes the last one that its thread has put.
LEMMA PutOrder ==
  ASSUME TypeOK, PlaceInv, ListedInv, OrderInv, NEW t \in Thread, NEW q \in Queue, NEW pri \in Priority,
         MessageQ_put(t, q, pri), UNCHANGED <<linkVars, swiVars>>
  PROVE  OrderInv'
<1>1. PICK n \in Msg : n = msg[t]
  BY DEF MessageQ_put, TypeOK
<1>2. /\ header' = [header EXCEPT ![n] = [dst |-> q, pri |-> pri]]
      /\ sent' = [sent EXCEPT ![t] = sent[t] \cup ((SentBy(t) \cup {n}) \X {n})]
      /\ pc[t] = "idle"
      /\ pc' = [pc EXCEPT ![t] = IF home[q] = procOf[t] THEN "putLocal" ELSE "putRemote"]
      /\ UNCHANGED <<freeList, msg, highList, normalList, list, swi, swiMsg>>
  BY <1>1 DEF MessageQ_put, heapVars, queueVars, linkVars, swiVars
<1>3. \A u \in Thread : n \notin SentBy(u) /\ SentBy(u) \subseteq Msg
  BY <1>1, <1>2 DEF OrderInv, SentInv, SentBy, PutLabel
<1>4. /\ \A l, m : <<l, m>> \in sent'[t] <=>
           <<l, m>> \in sent[t] \/ ((l \in SentBy(t) \/ l = n) /\ m = n)
      /\ \A u \in Thread : u # t => sent'[u] = sent[u]
  BY <1>2 DEF OrderInv, SentInv
<1>5. /\ SentBy(t)' = SentBy(t) \cup {n}
      /\ \A u \in Thread : u # t => SentBy(u)' = SentBy(u)
  BY <1>3, <1>4 DEF SentBy
<1>6. /\ \A u \in Thread : u # t => pc'[u] = pc[u]
      /\ pc'[t] = IF home[q] = procOf[t] THEN "putLocal" ELSE "putRemote"
      /\ msg' = msg
  BY <1>2 DEF TypeOK
<1>7. Holds("thread", t, n)
  BY <1>1, <1>2 DEF Holds, Carries
<1>8. /\ ~OnWay(n) /\ n \notin freeList
      /\ \A u \in Thread : u # t => ~Carries(u, n)
  <2>1. n \notin freeList
    BY <1>7, OneHolder DEF PlaceInv, Holds
  <2>2. QED
    BY <1>7, <2>1, Elsewhere DEF PlaceInv, OnWay
<1>9. SentInv'
  <2>1. sent' \in [Thread -> SUBSET (Msg \X Msg)]
    BY <1>2, <1>3 DEF OrderInv, SentInv
  <2>2. ASSUME NEW u \in Thread
        PROVE  \A pair \in sent'[u] : pair \in SentBy(u)' \X SentBy(u)'
    <3> SUFFICES ASSUME NEW pair \in sent'[u]
                 PROVE  pair \in SentBy(u)' \X SentBy(u)'
      OBVIOUS
    <3>1. CASE u = t
      <4>1. pair \in sent[t] \/ pair \in (SentBy(t) \cup {n}) \X {n}
        BY <1>2, <3>1 DEF OrderInv, SentInv
      <4>2. pair \in sent[t] => pair \in SentBy(t) \X SentBy(t)
        BY DEF OrderInv, SentInv
      <4>3. QED
        BY <1>5, <3>1, <4>1, <4>2
    <3>2. CASE u # t
      BY <1>4, <1>5, <3>2 DEF OrderInv, SentInv
    <3>3. QED
      BY <3>1, <3>2
  <2>3. ASSUME NEW u \in Thread
        PROVE  freeList' \cap SentBy(u)' = {}
    BY <1>2, <1>5, <1>8 DEF OrderInv, SentInv
  <2>4. ASSUME NEW u \in Thread, NEW v \in Thread, msg'[v] \in SentBy(u)'
        PROVE  v = u /\ pc'[v] \in PutLabel
    <3>1. CASE u = t /\ msg[v] = n
      <4>1. v = t
        <5>1. pc[v] \notin {"sendEvent", "putRemove"}
          BY <1>8, MessageQAssumption, OtherAssumption, <3>1 DEF ListedInv, OnWay, OnLink
        <5>2. QED
          BY <1>8, <3>1, <5>1 DEF Carries
      <4>2. QED
        BY <1>6, <3>1, <4>1 DEF PutLabel
    <3>2. CASE ~(u = t /\ msg[v] = n)
      <4>1. msg[v] \in SentBy(u)
        BY <1>5, <1>6, <2>4, <3>2
      <4>2. v = u /\ pc[v] \in PutLabel
        BY <4>1 DEF OrderInv, SentInv
      <4>3. v # t
        BY <1>2, <4>2 DEF PutLabel
      <4>4. QED
        BY <1>6, <4>2, <4>3
    <3>3. QED
      BY <3>1, <3>2
  <2>5. ASSUME NEW u \in Thread, Addressed(u)', NEW m \in Msg, <<msg'[u], m>> \in sent'[u]
        PROVE  m = msg'[u]
    <3>1. CASE u = t
      BY <1>1, <1>3, <1>4, <1>6, <2>5, <3>1 DEF OrderInv, SentInv
    <3>2. CASE u # t
      BY <1>4, <1>6, <2>5, <3>2 DEF OrderInv, SentInv, Addressed
    <3>3. QED
      BY <3>1, <3>2
  <2>6. QED
    BY <2>1, <2>2, <2>3, <2>4, <2>5 DEF SentInv
<1>10. /\ header'[n] = [dst |-> q, pri |-> pri]
       /\ \A m \in Msg : m # n => header'[m] = header[m]
       /\ header'[None] = header[None]
  BY <1>2, MessageQAssumption DEF TypeOK
<1>11. ASSUME NEW u \in Thread, Addressed(u)'
       PROVE  pc'[u] = "putLocal" <=> home[header'[msg'[u]].dst] = procOf[u]
  <2>1. CASE u = t
    BY <1>1, <1>6, <1>10, <2>1
  <2>2. CASE u # t
    <3>1. Addressed(u)
      BY <1>6, <1>11, <2>2 DEF Addressed
    <3>2. msg[u] # n
      BY <1>8, <2>2, <3>1 DEF Carries, Addressed
    <3>3. header'[msg[u]] = header[msg[u]]
      BY <1>10, <3>2 DEF TypeOK
    <3>4. QED
      BY <1>6, <2>2, <3>1, <3>3 DEF OrderInv, RouteInv
  <2>3. QED
    BY <2>1, <2>2
<1>12. \A u \in Thread : \A l, m \in Msg :
         OnWay(l) /\ OnWay(m) /\ <<m, l>> \in sent'[u] => <<m, l>> \in sent[u]
  BY <1>4, <1>8
<1>13. \A m \in Msg : OnWay(m) => header'[m] = header[m]
  BY <1>8, <1>10
<1>14. RouteInv' /\ InOrder'
  BY <1>2, <1>11, <1>12, <1>13, WayStays DEF OrderInv
<1>15. QED
  BY <1>9, <1>14 DEF OrderInv

\* The message that is announced is on its list: nobody takes it while its sender is
\* in the gate.
LEMMA ListedStep ==
  ASSUME IInv, PlaceInv, ListedInv, Next
  PROVE  ListedInv'
<1> USE MessageQAssumption, OtherAssumption DEF IInv
<1>1. ASSUME NEW t \in Thread, LocalStep(t)
      PROVE  ListedInv'
  BY <1>1, LocalFrame DEF ListedInv, InGate, linkVars
<1>2. ASSUME NEW t \in Thread, PutTail(t)
      PROVE  ListedInv'
  <2> DEFINE p == Other(procOf[t])
  <2>1. PICK n \in Msg : n = msg[t]
    BY <1>2 DEF PutTail, TypeOK, OwnInv, PutLabel
  <2>2. /\ list' = [list EXCEPT ![p] = Append(list[p], n)]
        /\ pc' = [pc EXCEPT ![t] = "sendEvent"] /\ msg' = msg
    BY <1>2, <2>1 DEF PutTail
  <2>3. \A m : InSeq(m, Append(list[p], n)) <=> InSeq(m, list[p]) \/ m = n
    BY AppendHolds DEF TypeOK
  <2>4. /\ list'[p] = Append(list[p], n)
        /\ \A r \in Proc : r # p => list'[r] = list[r]
    BY <2>2 DEF TypeOK
  <2>5. \A u \in Thread : u # t => pc'[u] \notin {"sendEvent", "putRemove"}
    BY <1>2, <2>2 DEF PutTail, TypeOK, GateInv, HolderInv, InGate
  <2>6. InSeq(msg'[t], list'[p])
    BY <2>1, <2>2, <2>3, <2>4
  <2>7. QED
    BY <2>5, <2>6 DEF ListedInv
<1>3. ASSUME NEW t \in Thread, PutEnter(t) \/ PutLeave(t)
      PROVE  ListedInv'
  <2>1. UNCHANGED <<list, msg>>
    BY <1>3 DEF PutEnter, PutLeave
  <2>2. PICK l \in {"putTail", "idle"} : pc' = [pc EXCEPT ![t] = l]
    BY <1>3 DEF PutEnter, PutLeave
  <2>3. QED
    BY <2>1, <2>2 DEF ListedInv, TypeOK
<1>4. ASSUME NEW t \in Thread, SendEvent(t)
      PROVE  ListedInv'
  <2>1. /\ pc[t] = "sendEvent" /\ list' = list
        /\ \/ pc' = [pc EXCEPT ![t] = "putLeave"] /\ msg' = [msg EXCEPT ![t] = None]
           \/ pc' = [pc EXCEPT ![t] = "putRemove"] /\ msg' = msg
    BY <1>4 DEF SendEvent
  <2>2. QED
    BY <2>1 DEF ListedInv, TypeOK
<1>5. ASSUME NEW t \in Thread, PutRemove(t)
      PROVE  ListedInv'
  <2>1. pc[t] = "putRemove" /\ pc' = [pc EXCEPT ![t] = "putLeave"]
    BY <1>5 DEF PutRemove
  <2>2. \A u \in Thread : pc'[u] \notin {"sendEvent", "putRemove"}
    BY <2>1 DEF TypeOK, GateInv, HolderInv, InGate
  <2>3. QED
    BY <2>2 DEF ListedInv
<1>6. ASSUME NEW p \in Proc, Instance_init(p) \/ TransportShm_notifyFxn(p) \/ SwiStart(p)
      PROVE  ListedInv'
  BY <1>6 DEF Instance_init, TransportShm_notifyFxn, SwiStart, mqVars, threadVars, linkVars,
    ListedInv
<1>7. ASSUME NEW p \in Proc, SwiGet(p)
      PROVE  ListedInv'
  <2>1. gate = None /\ UNCHANGED <<pc, msg>>
    BY <1>7 DEF SwiGet, mqVars, threadVars
  <2>2. \A u \in Thread : pc'[u] \notin {"sendEvent", "putRemove"}
    BY <2>1 DEF GateInv, HolderInv, InGate
  <2>3. QED
    BY <2>2 DEF ListedInv
<1>8. ASSUME NEW p \in Proc, SwiPut(p) \/ SwiSignal(p)
      PROVE  ListedInv'
  BY <1>8 DEF SwiPut, SwiSignal, threadVars, linkVars, ListedInv
<1>9. QED
  BY ONLY Steps, Next, <1>1, <1>2, <1>3, <1>4, <1>5, <1>6, <1>7, <1>8

\* Steps of the messages on their way: what a step leaves to be shown.
LEMMA WayMoves ==
  ASSUME SentInv, UNCHANGED <<freeList, sent>>,
         \A u \in Thread : /\ msg'[u] = msg[u] \/ msg'[u] = None
                           /\ pc[u] \in PutLabel => pc'[u] \in PutLabel \/ msg'[u] = None
                           /\ Addressed(u)' => Addressed(u) /\ msg'[u] = msg[u]
  PROVE  /\ SentInv'
         /\ \A t \in Thread : SentBy(t)' = SentBy(t)
<1>1. \A t \in Thread : sent'[t] = sent[t] /\ SentBy(t)' = SentBy(t) /\ None \notin SentBy(t)
  BY MessageQAssumption DEF SentBy
<1>2. ASSUME NEW t \in Thread
      PROVE  /\ \A pair \in sent'[t] : pair \in SentBy(t)' \X SentBy(t)'
             /\ freeList' \cap SentBy(t)' = {}
             /\ \A u \in Thread : msg'[u] \in SentBy(t)' => u = t /\ pc'[u] \in PutLabel
  BY <1>1 DEF SentInv
<1>3. ASSUME NEW t \in Thread, Addressed(t)', NEW n \in Msg, <<msg'[t], n>> \in sent'[t]
      PROVE  n = msg'[t]
  BY <1>3 DEF SentInv
<1>4. sent' \in [Thread -> SUBSET (Msg \X Msg)]
  BY DEF SentInv
<1>5. QED
  BY <1>1, <1>2, <1>3, <1>4 DEF SentInv

\* The message that a thread puts: nobody else has put it, and the thread has put none
\* after it.
LEMMA LastSent ==
  ASSUME TypeOK, OwnInv, PlaceInv, OrderInv, NEW t \in Thread, Addressed(t),
         NEW u \in Thread, NEW m \in Msg, <<msg[t], m>> \in sent[u]
  PROVE  u = t /\ m = msg[t]
<1>1. msg[t] \in SentBy(u)
  BY DEF OrderInv, SentInv
<1>2. QED
  BY <1>1 DEF OrderInv, SentInv

\* MessageQ_put to a queue of the own processor.
LEMMA PutLocalOrder ==
  ASSUME TypeOK, OwnInv, PlaceInv, OrderInv, NEW t \in Thread, PutLocal(t),
         UNCHANGED <<linkVars, swiVars>>
  PROVE  OrderInv'
<1> USE MessageQAssumption, OtherAssumption
<1>1. PICK x \in Msg : x = msg[t]
  BY DEF PutLocal, TypeOK, OwnInv, PutLabel
<1>2. /\ pc[t] = "putLocal" /\ Enqueue(x) /\ Addressed(t)
      /\ msg' = [msg EXCEPT ![t] = None]
      /\ pc' = [pc EXCEPT ![t] = "signal"]
      /\ UNCHANGED <<freeList, header, list, swi, swiMsg, sent>>
  BY <1>1 DEF PutLocal, heapVars, linkVars, swiVars, Addressed
<1>3. Dst(x) \in Queue /\ home[Dst(x)] = procOf[t]
  BY <1>1, <1>2 DEF PlaceInv, AddressInv, OrderInv, RouteInv
<1>4. \A u \in Thread : \/ u = t /\ msg'[u] = None /\ pc'[u] = "signal"
                        \/ u # t /\ msg'[u] = msg[u] /\ pc'[u] = pc[u]
  BY <1>2 DEF TypeOK
<1>5. SentInv' /\ \A u \in Thread : SentBy(u)' = SentBy(u)
  BY <1>2, <1>4, WayMoves DEF OrderInv, Addressed, PutLabel
<1>6. RouteInv'
  BY <1>2, <1>4, <1>5 DEF OrderInv, RouteInv, Addressed, OnLink
<1>7. Holds("thread", t, x)
  BY <1>1, <1>2 DEF Holds, Carries
<1>8. InOrder'
  <2> SUFFICES ASSUME NEW u \in Thread, NEW m \in SentBy(u), NEW n \in SentBy(u),
                      Ahead(u, m, n)', <<n, m>> \in sent[u]
               PROVE  FALSE
    BY <1>2, <1>5 DEF InOrder
  <2>1. m \in Msg /\ n \in Msg /\ ~Ahead(u, m, n)
    BY DEF SentBy, OrderInv, InOrder
  <2>2. \A q \in Queue : ~InQueue(q, x)
    BY <1>7, Elsewhere DEF PlaceInv
  <2>3. \A q \in Queue :
          /\ InQueue(q, m)' => InQueue(q, m) \/ (q = Dst(x) /\ m = x)
          /\ Precedes(normalList'[q], m, n) =>
               Precedes(normalList[q], m, n) \/ (q = Dst(x) /\ InQueue(q, m) /\ n = x)
          /\ header[m].pri # "urgent" /\ Precedes(highList'[q], m, n) =>
               Precedes(highList[q], m, n) \/ (q = Dst(x) /\ InQueue(q, m) /\ n = x)
    BY <1>2, <1>3, <2>1, EnqueueOrder
  <2>4. \/ \E q \in Queue : InQueue(q, m) /\ n = x
        \/ home[Dst(x)] # procOf[u] /\ m = x
    BY <1>2, <2>1, <2>3 DEF Ahead, OnLink
  <2>5. CASE n = x /\ m # x
    BY <1>1, <1>2, <2>1, <2>5, LastSent
  <2>6. CASE m = x /\ home[Dst(x)] # procOf[u]
    <3>1. u = t
      BY <1>1, <2>6 DEF OrderInv, SentInv
    <3>2. QED
      BY <1>3, <2>6, <3>1
  <2>7. QED
    BY <2>2, <2>4, <2>5, <2>6
<1>9. QED
  BY <1>5, <1>6, <1>8 DEF OrderInv

\* MessageQ_put of the swi: behind what the queue has of the same thread.
LEMMA SwiPutOrder ==
  ASSUME TypeOK, OwnInv, PlaceInv, OrderInv, NEW p \in Proc, SwiPut(p)
  PROVE  OrderInv'
<1> USE MessageQAssumption, OtherAssumption
<1>1. PICK x \in Msg : x = swiMsg[p]
  BY DEF SwiPut, TypeOK, OwnInv
<1>2. /\ Enqueue(x)
      /\ swiMsg' = [swiMsg EXCEPT ![p] = None]
      /\ UNCHANGED <<freeList, header, list, msg, pc, sent>>
  BY <1>1 DEF SwiPut, heapVars, linkVars, threadVars
<1>3. Dst(x) \in Queue
  BY <1>1 DEF PlaceInv, AddressInv
<1>4. \A r \in Proc : swiMsg'[r] = IF r = p THEN None ELSE swiMsg[r]
  BY <1>2 DEF TypeOK
<1>5. SentInv' /\ \A u \in Thread : SentBy(u)' = SentBy(u)
  BY <1>2, WayMoves DEF OrderInv, Addressed
<1>6. \A r \in Proc : \A m \in Msg : OnLink(r, m)' => OnLink(r, m)
  BY <1>2, <1>4 DEF OnLink
<1>7. RouteInv'
  <2>1. \A u \in Thread : SentBy(u) \subseteq Msg
    BY DEF SentBy
  <2>2. QED
    BY <1>2, <1>5, <1>6, <2>1 DEF OrderInv, RouteInv, Addressed
<1>8. \A r \in Proc : OnLink(r, x) => r = p /\ ~InSeq(x, list[r])
  BY <1>1, OneHolder DEF PlaceInv, Holds, OnLink
<1>9. InOrder'
  <2> SUFFICES ASSUME NEW u \in Thread, NEW m \in SentBy(u), NEW n \in SentBy(u),
                      Ahead(u, m, n)', <<n, m>> \in sent[u]
               PROVE  FALSE
    BY <1>2, <1>5 DEF InOrder
  <2> DEFINE r == Other(procOf[u])
  <2>1. m \in Msg /\ n \in Msg /\ ~Ahead(u, m, n) /\ r \in Proc
    BY DEF SentBy, OrderInv, InOrder
  <2>2. \A q \in Queue :
          /\ InQueue(q, m)' => InQueue(q, m) \/ (q = Dst(x) /\ m = x)
          /\ Precedes(normalList'[q], m, n) =>
               Precedes(normalList[q], m, n) \/ (q = Dst(x) /\ InQueue(q, m) /\ n = x)
          /\ header[m].pri # "urgent" /\ Precedes(highList'[q], m, n) =>
               Precedes(highList[q], m, n) \/ (q = Dst(x) /\ InQueue(q, m) /\ n = x)
    BY <1>2, <1>3, <2>1, EnqueueOrder
  <2>3. swiMsg'[r] = m => swiMsg[r] = m
    BY <1>4, <2>1
  <2>4. \/ \E q \in Queue : q = Dst(x) /\ InQueue(q, m) /\ n = x
        \/ m = x /\ OnLink(r, n)'
    BY <1>2, <1>6, <2>1, <2>2, <2>3 DEF Ahead
  <2>5. x \in SentBy(u) => p = r /\ home[Dst(x)] # procOf[u]
    BY <1>1 DEF OrderInv, RouteInv, OnLink
  <2>6. CASE \E q \in Queue : q = Dst(x) /\ InQueue(q, m) /\ n = x
    <3>1. Ahead(u, m, n)
      BY <1>1, <2>5, <2>6 DEF Ahead, OnLink
    <3>2. QED
      BY <2>1, <3>1
  <2>7. CASE m = x /\ OnLink(r, n)'
    <3>1. swiMsg[r] = m /\ InSeq(n, list[r])
      BY <1>1, <1>2, <1>4, <2>1, <2>5, <2>7 DEF OnLink
    <3>2. QED
      BY <2>1, <3>1 DEF Ahead
  <2>8. QED
    BY <2>4, <2>6, <2>7
<1>10. QED
  BY <1>5, <1>7, <1>9 DEF OrderInv

\* TransportShm_put: behind all that is on the list.
LEMMA PutTailOrder ==
  ASSUME TypeOK, OwnInv, PlaceInv, OrderInv, NEW t \in Thread, PutTail(t)
  PROVE  OrderInv'
<1> USE MessageQAssumption, OtherAssumption
<1>1. PICK x \in Msg : x = msg[t]
  BY DEF PutTail, TypeOK, OwnInv, PutLabel
<1>2. PICK p \in Proc : p = Other(procOf[t])
  OBVIOUS
<1>3. /\ pc[t] = "putTail" /\ Addressed(t)
      /\ list' = [list EXCEPT ![p] = Append(list[p], x)]
      /\ pc' = [pc EXCEPT ![t] = "sendEvent"]
      /\ UNCHANGED <<freeList, header, highList, normalList, msg, swiMsg, sent>>
  BY <1>1, <1>2 DEF PutTail, heapVars, queueVars, swiVars, Addressed
<1>4. \A u \in Thread : \/ u = t /\ pc'[u] = "sendEvent"
                        \/ u # t /\ pc'[u] = pc[u]
  BY <1>3 DEF TypeOK
<1>5. SentInv' /\ \A u \in Thread : SentBy(u)' = SentBy(u)
  BY <1>3, <1>4, WayMoves DEF OrderInv, Addressed, PutLabel
<1>6. /\ list'[p] = Append(list[p], x) /\ list[p] \in Seq(Msg)
      /\ \A r \in Proc : r # p => list'[r] = list[r]
  BY <1>3 DEF TypeOK
<1>7. \A m : InSeq(m, list'[p]) <=> InSeq(m, list[p]) \/ m = x
  BY <1>6, AppendHolds
<1>8. \A r \in Proc : \A m : OnLink(r, m)' <=> OnLink(r, m) \/ (r = p /\ m = x)
  BY <1>3, <1>6, <1>7 DEF OnLink
<1>9. x \in SentBy(t)' => home[header'[x].dst] # procOf[t]
  BY <1>1, <1>3 DEF OrderInv, RouteInv
<1>10. RouteInv'
  <2> SUFFICES ASSUME NEW u \in Thread
               PROVE  /\ Addressed(u)' => (pc'[u] = "putLocal" <=>
                                             home[header'[msg'[u]].dst] = procOf[u])
                      /\ \A r \in Proc : \A m \in SentBy(u)' :
                           OnLink(r, m)' => r = Other(procOf[u]) /\ home[header'[m].dst] # procOf[u]
    BY DEF RouteInv
  <2>1. Addressed(u)' => (pc'[u] = "putLocal" <=> home[header'[msg'[u]].dst] = procOf[u])
    BY <1>3, <1>4 DEF OrderInv, RouteInv, Addressed
  <2>2. ASSUME NEW r \in Proc, NEW m \in SentBy(u)', OnLink(r, m)'
        PROVE  r = Other(procOf[u]) /\ home[header'[m].dst] # procOf[u]
    <3>1. CASE OnLink(r, m)
      BY <1>3, <1>5, <2>2, <3>1 DEF OrderInv, RouteInv
    <3>2. CASE r = p /\ m = x
      <4>1. u = t
        BY <1>1, <1>5, <2>2, <3>2 DEF OrderInv, SentInv
      <4>2. QED
        BY <1>2, <1>9, <2>2, <3>2, <4>1
    <3>3. QED
      BY <1>8, <2>2, <3>1, <3>2
  <2>3. QED
    BY <2>1, <2>2
<1>11. Holds("thread", t, x)
  BY <1>1, <1>3 DEF Holds, Carries
<1>12. InOrder'
  <2> SUFFICES ASSUME NEW u \in Thread, NEW m \in SentBy(u), NEW n \in SentBy(u),
                      Ahead(u, m, n)', <<n, m>> \in sent[u]
               PROVE  FALSE
    BY <1>3, <1>5 DEF InOrder
  <2> DEFINE r == Other(procOf[u])
  <2>1. m \in Msg /\ n \in Msg /\ ~Ahead(u, m, n) /\ r \in Proc
    BY DEF SentBy, OrderInv, InOrder
  <2>2. ~OnLink(r, x) /\ \A q \in Queue : ~InQueue(q, x)
    BY <1>11, <2>1, Elsewhere DEF PlaceInv
  <2>3. Precedes(list'[r], m, n) => Precedes(list[r], m, n) \/ (InSeq(m, list[r]) /\ n = x)
    <3>1. Precedes(Append(list[p], x), m, n) =>
            Precedes(list[p], m, n) \/ (InSeq(m, list[p]) /\ n = x)
      BY <1>6, AppendPrecedes
    <3>2. CASE r = p
      <4>1. list'[r] = Append(list[p], x) /\ list[r] = list[p]
        BY <1>6, <3>2
      <4>2. QED
        BY <3>1, <4>1 DEF Precedes
    <3>3. CASE r # p
      <4>1. list'[r] = list[r]
        BY <1>6, <2>1, <3>3
      <4>2. QED
        BY <4>1 DEF Precedes
    <3>4. QED
      BY <3>2, <3>3
  <2>4. InSeq(n, list'[r]) => InSeq(n, list[r]) \/ n = x
    BY <1>6, <1>7, <2>1
  <2>5. n = x /\ (OnLink(r, m) \/ \E q \in Queue : InQueue(q, m))
    <3>1. OnLink(r, n)' => OnLink(r, n) \/ n = x
      BY <1>8, <2>1
    <3>2. \A q \in Queue : InQueue(q, m)' <=> InQueue(q, m)
      BY <1>3 DEF InQueue
    <3>3. QED
      BY <1>3, <2>1, <2>3, <2>4, <3>1, <3>2 DEF Ahead, OnLink
  <2>6. m # x
    BY <2>2, <2>5
  <2>7. QED
    BY <1>1, <1>3, <2>1, <2>5, <2>6, LastSent
<1>13. QED
  BY <1>5, <1>10, <1>12 DEF OrderInv

\* The swi takes the first message of the list.
LEMMA SwiGetOrder ==
  ASSUME TypeOK, PlaceInv, OrderInv, NEW p \in Proc, SwiGet(p)
  PROVE  OrderInv'
<1> USE MessageQAssumption, OtherAssumption
<1>1. /\ swi[p] = "get" /\ swiMsg[p] = None
      /\ UNCHANGED <<freeList, header, highList, normalList, pc, msg, sent>>
  BY DEF SwiGet, mqVars, heapVars, queueVars, threadVars, PlaceInv, HandsInv
<1>2. CASE list[p] = <<>>
  <2>1. UNCHANGED <<list, swiMsg>>
    BY <1>2 DEF SwiGet
  <2>2. QED
    BY <1>1, <2>1, StayOrder DEF Addressed
<1>3. CASE list[p] # <<>>
  <2>1. list[p] \in Seq(Msg)
    BY DEF TypeOK
  <2>2. PICK x \in Msg : x = Head(list[p])
    BY <1>3, <2>1, HeadTail
  <2>3. /\ list' = [list EXCEPT ![p] = Tail(list[p])]
        /\ swiMsg' = [swiMsg EXCEPT ![p] = x]
    BY <1>3, <2>2 DEF SwiGet
  <2>4. /\ list'[p] = Tail(list[p]) /\ swiMsg'[p] = x
        /\ \A r \in Proc : r # p => list'[r] = list[r] /\ swiMsg'[r] = swiMsg[r]
    BY <2>3 DEF TypeOK
  <2>5. SentInv' /\ \A u \in Thread : SentBy(u)' = SentBy(u)
    BY <1>1, WayMoves DEF OrderInv, Addressed
  <2>6. /\ \A n : InSeq(n, Tail(list[p])) => Precedes(list[p], x, n) /\ InSeq(n, list[p])
        /\ \A m, n : Precedes(Tail(list[p]), m, n) => Precedes(list[p], m, n)
        /\ InSeq(x, list[p])
    BY <1>3, <2>1, <2>2, TailPrecedes
  <2>7. \A r \in Proc : \A m \in Msg : OnLink(r, m)' => OnLink(r, m)
    BY <2>4, <2>6 DEF OnLink
  <2>8. \A u \in Thread : SentBy(u) \subseteq Msg
    BY DEF SentBy
  <2>9. RouteInv'
    BY <1>1, <2>5, <2>7, <2>8 DEF OrderInv, RouteInv, Addressed
  <2>10. InOrder'
    <3> SUFFICES ASSUME NEW u \in Thread, NEW m \in SentBy(u), NEW n \in SentBy(u),
                        Ahead(u, m, n)', <<n, m>> \in sent[u]
                 PROVE  FALSE
      BY <1>1, <2>5 DEF InOrder
    <3> DEFINE r == Other(procOf[u])
    <3>1. m \in Msg /\ n \in Msg /\ ~Ahead(u, m, n) /\ r \in Proc
      BY DEF SentBy, OrderInv, InOrder
    <3>2. /\ Precedes(list'[r], m, n) => Precedes(list[r], m, n)
          /\ swiMsg'[r] = m /\ InSeq(n, list'[r]) =>
               Precedes(list[r], m, n) \/ (swiMsg[r] = m /\ InSeq(n, list[r]))
          /\ OnLink(r, n)' => OnLink(r, n)
      BY <2>4, <2>6, <2>7, <3>1
    <3>3. Ahead(u, m, n)
      <4>1. \A q \in Queue : InQueue(q, m)' <=> InQueue(q, m)
        BY <1>1 DEF InQueue
      <4>2. QED
        BY <1>1, <3>2, <4>1 DEF Ahead
    <3>4. QED
      BY <3>1, <3>3
  <2>11. QED
    BY <2>5, <2>9, <2>10 DEF OrderInv
<1>4. QED
  BY <1>2, <1>3

\* The message that a thread gets, or takes back, is in nobody's order any more.
LEMMA ForgetOrder ==
  ASSUME SentInv, NEW x \in Msg, Forget(x), NEW t \in Thread, msg'[t] = x,
         freeList' = freeList, ~Addressed(t)',
         \A u \in Thread : u # t => msg'[u] = msg[u] /\ pc'[u] = pc[u]
  PROVE  SentInv'
<1>1. \A u \in Thread :
        /\ \A m, n : <<m, n>> \in sent'[u] <=> <<m, n>> \in sent[u] /\ m # x /\ n # x
        /\ SentBy(u)' = SentBy(u) \ {x}
        /\ \A pair \in sent'[u] : pair \in SentBy(u)' \X SentBy(u)'
        /\ sent' \in [Thread -> SUBSET (Msg \X Msg)]
  BY ForgetSent
<1>2. ASSUME NEW u \in Thread
      PROVE  /\ \A pair \in sent'[u] : pair \in SentBy(u)' \X SentBy(u)'
             /\ freeList' \cap SentBy(u)' = {}
             /\ \A v \in Thread : msg'[v] \in SentBy(u)' => v = u /\ pc'[v] \in PutLabel
  BY <1>1 DEF SentInv
<1>3. ASSUME NEW u \in Thread, Addressed(u)', NEW n \in Msg, <<msg'[u], n>> \in sent'[u]
      PROVE  n = msg'[u]
  BY <1>1, <1>3 DEF SentInv, Addressed
<1>4. QED
  BY <1>1, <1>2, <1>3 DEF SentInv

\* TransportShm_put fails: the list is empty again.
LEMMA PutRemoveOrder ==
  ASSUME TypeOK, OwnInv, GateInv, PlaceInv, OrderInv, NEW t \in Thread, PutRemove(t)
  PROVE  OrderInv'
<1> USE MessageQAssumption, OtherAssumption
<1>1. PICK x \in Msg : x = msg[t]
  BY DEF PutRemove, TypeOK, OwnInv, PutLabel
<1>2. PICK p \in Proc : p = Other(procOf[t])
  OBVIOUS
<1>3. /\ list' = [list EXCEPT ![p] = <<>>]
      /\ pc' = [pc EXCEPT ![t] = "putLeave"] /\ Forget(x)
      /\ UNCHANGED <<freeList, header, highList, normalList, msg, swi, swiMsg>>
  BY <1>1, <1>2, RemovedLast DEF PutRemove, GateInv, heapVars, queueVars, swiVars
<1>4. /\ pc'[t] = "putLeave" /\ \A u \in Thread : u # t => pc'[u] = pc[u]
      /\ list'[p] = <<>> /\ \A r \in Proc : r # p => list'[r] = list[r]
  BY <1>3 DEF TypeOK
<1>5. SentInv'
  BY <1>1, <1>3, <1>4, ForgetOrder DEF OrderInv, Addressed
<1>6. \A u \in Thread : /\ SentBy(u)' \subseteq SentBy(u) /\ SentBy(u) \subseteq Msg
                        /\ \A m, n : <<m, n>> \in sent'[u] => <<m, n>> \in sent[u]
  BY <1>3, ForgetSent DEF OrderInv, SentBy
<1>7. /\ \A m : ~InSeq(m, <<>>)
      /\ \A m, n : ~Precedes(<<>>, m, n)
  BY DEF InSeq, Precedes
<1>8. \A r \in Proc : \A m, n :
        /\ InSeq(m, list'[r]) => InSeq(m, list[r])
        /\ Precedes(list'[r], m, n) => Precedes(list[r], m, n)
  <2> TAKE r \in Proc
  <2>1. CASE r = p
    <3>1. list'[r] = <<>>
      BY <1>4, <2>1
    <3>2. QED
      BY <1>7, <3>1
  <2>2. CASE r # p
    <3>1. list'[r] = list[r]
      BY <1>4, <2>2
    <3>2. QED
      BY <3>1
  <2>3. QED
    BY <2>1, <2>2
<1>9. RouteInv'
  <2>1. ASSUME NEW u \in Thread, Addressed(u)'
        PROVE  pc'[u] = "putLocal" <=> home[header'[msg'[u]].dst] = procOf[u]
    <3>1. Addressed(u) /\ pc'[u] = pc[u]
      BY <1>4, <2>1 DEF Addressed
    <3>2. QED
      BY <1>3, <3>1 DEF OrderInv, RouteInv
  <2>2. ASSUME NEW u \in Thread, NEW r \in Proc, NEW m \in SentBy(u)', OnLink(r, m)'
        PROVE  r = Other(procOf[u]) /\ home[header'[m].dst] # procOf[u]
    <3>1. OnLink(r, m) /\ m \in SentBy(u)
      BY <1>3, <1>6, <1>8, <2>2 DEF OnLink
    <3>2. QED
      BY <1>3, <3>1 DEF OrderInv, RouteInv
  <2>3. QED
    BY <2>1, <2>2 DEF RouteInv
<1>10. InOrder'
  <2> SUFFICES ASSUME NEW u \in Thread, NEW m \in SentBy(u), NEW n \in SentBy(u),
                      Ahead(u, m, n)', <<n, m>> \in sent[u]
               PROVE  FALSE
    BY <1>6 DEF InOrder
  <2>1. Ahead(u, m, n)
    <3>1. \A q \in Queue : InQueue(q, m)' <=> InQueue(q, m)
      BY <1>3 DEF InQueue
    <3>2. QED
      BY <1>3, <1>8, <3>1 DEF Ahead, OnLink
  <2>2. QED
    BY <2>1 DEF OrderInv, InOrder
<1>11. QED
  BY <1>5, <1>9, <1>10 DEF OrderInv

\* MessageQ_get takes the first message of a list of its queue.
LEMMA GotOrder ==
  ASSUME TypeOK, PlaceInv, OrderInv, NEW t \in Thread, LocalStep(t), GetHigh(t) \/ GetNormal(t),
         reads[t] \in Queue
  PROVE  OrderInv'
<1> USE MessageQAssumption, OtherAssumption
<1> DEFINE q == reads[t]
<1>1. /\ pc[t] \in {"getHigh", "getNormal"} /\ msg[t] = None
      /\ UNCHANGED <<freeList, list, swi, swiMsg>>
  BY DEF GetHigh, GetNormal, LocalStep, heapVars, linkVars, swiVars, PlaceInv, HandsInv, GetLabel
<1>2. CASE UNCHANGED <<msg, header, highList, normalList, sent>>
  <2>1. /\ pc'[t] \in {"getNormal", "wait", "idle"}
        /\ \A u \in Thread : u # t => pc'[u] = pc[u]
    BY <1>1 DEF GetHigh, GetNormal, Got, TypeOK
  <2>2. QED
    BY <1>1, <1>2, <2>1, StayOrder DEF Addressed, PutLabel
\* Taking message x off a list of the queue, the rest of which is the way it was.
<1>3. ASSUME NEW x \in Msg, Got(t, x), NEW a \in {"high", "normal"}, Holds(a, q, x),
             \A r \in Queue : \A m \in Msg :
               InQueue(r, m)' => InQueue(r, m) /\ m # x,
             \A r \in Queue : \A m, n \in Msg :
               /\ Precedes(normalList'[r], m, n) => Precedes(normalList[r], m, n) /\ m # x
               /\ Precedes(highList'[r], m, n) => Precedes(highList[r], m, n) /\ m # x
      PROVE  OrderInv'
  <2>1. /\ msg' = [msg EXCEPT ![t] = x] /\ pc' = [pc EXCEPT ![t] = "idle"]
        /\ header' = [header EXCEPT ![x] = NoHeader] /\ Forget(x)
    BY <1>3 DEF Got
  <2>2. /\ msg'[t] = x /\ pc'[t] = "idle"
        /\ \A u \in Thread : u # t => msg'[u] = msg[u] /\ pc'[u] = pc[u]
        /\ \A m \in Msg : m # x => header'[m] = header[m]
        /\ header'[None] = header[None]
    BY <2>1 DEF TypeOK
  <2>3. SentInv'
    BY <1>1, <2>1, <2>2, ForgetOrder DEF OrderInv, Addressed
  <2>4. \A u \in Thread : /\ SentBy(u)' \subseteq SentBy(u) \ {x} /\ SentBy(u) \subseteq Msg
                          /\ \A m, n : <<m, n>> \in sent'[u] => <<m, n>> \in sent[u]
    BY <2>1, ForgetSent DEF OrderInv, SentBy
  <2>5. \A u \in Thread : ~Carries(u, x)
    BY <1>3, OneHolder DEF PlaceInv, Holds
  <2>6. ASSUME NEW u \in Thread, Addressed(u)'
        PROVE  pc'[u] = "putLocal" <=> home[header'[msg'[u]].dst] = procOf[u]
    <3>1. Addressed(u) /\ u # t
      BY <2>2, <2>6 DEF Addressed
    <3>2. msg[u] # x
      BY <2>5, <3>1 DEF Carries, Addressed
    <3>3. header'[msg[u]] = header[msg[u]]
      BY <2>2, <3>2 DEF TypeOK
    <3>4. QED
      BY <2>2, <3>1, <3>3 DEF OrderInv, RouteInv
  <2>7. \A p \in Proc : \A m : OnLink(p, m)' <=> OnLink(p, m)
    BY <1>1 DEF OnLink
  <2>8. ASSUME NEW u \in Thread, NEW p \in Proc, NEW m \in SentBy(u)', OnLink(p, m)'
        PROVE  p = Other(procOf[u]) /\ home[header'[m].dst] # procOf[u]
    BY <2>2, <2>4, <2>7, <2>8 DEF OrderInv, RouteInv
  <2>9. RouteInv'
    BY <2>6, <2>8 DEF RouteInv
  <2>10. InOrder'
    <3> SUFFICES ASSUME NEW u \in Thread, NEW m \in SentBy(u), NEW n \in SentBy(u),
                        Ahead(u, m, n)', <<n, m>> \in sent[u]
                 PROVE  FALSE
      BY <2>4 DEF InOrder
    <3>1. m \in Msg /\ n \in Msg
      BY <2>4
    <3>2. Ahead(u, m, n)
      BY <1>1, <1>3, <2>2, <2>7, <3>1 DEF Ahead
    <3>3. QED
      BY <3>2 DEF OrderInv, InOrder
  <2>11. QED
    BY <2>3, <2>9, <2>10 DEF OrderInv
<1>4. ASSUME NEW s \in Seq(Msg), s # <<>>, NoRepeat(s), NEW x \in Msg, x = Head(s)
      PROVE  /\ InSeq(x, s)
             /\ \A m : InSeq(m, Tail(s)) <=> InSeq(m, s) /\ m # x
             /\ \A m, n : Precedes(Tail(s), m, n) => Precedes(s, m, n) /\ m # x
  <2>1. InSeq(x, s) /\ \A m : InSeq(m, Tail(s)) <=> InSeq(m, s) /\ m # x
    BY <1>4, TailHolds
  <2>2. ASSUME NEW m, NEW n, Precedes(Tail(s), m, n)
        PROVE  Precedes(s, m, n) /\ m # x
    <3>1. Precedes(s, m, n)
      BY <1>4, <2>2, TailPrecedes
    <3>2. InSeq(m, Tail(s))
      BY <2>2, PrecedesIn
    <3>3. QED
      BY <2>1, <3>1, <3>2
  <2>3. QED
    BY <2>1, <2>2
\* A message is on one list of one queue.
<1>5. ASSUME NEW x \in Msg, NEW a \in {"high", "normal"}, Holds(a, q, x), NEW r \in Queue
      PROVE  /\ InSeq(x, highList[r]) => a = "high" /\ r = q
             /\ InSeq(x, normalList[r]) => a = "normal" /\ r = q
  <2>1. ASSUME InSeq(x, highList[r]) PROVE a = "high" /\ r = q
    <3>1. Holds("high", r, x)
      BY <2>1 DEF Holds
    <3>2. QED
      BY <1>5, <3>1, OneHolder DEF PlaceInv
  <2>2. ASSUME InSeq(x, normalList[r]) PROVE a = "normal" /\ r = q
    <3>1. Holds("normal", r, x)
      BY <2>2 DEF Holds
    <3>2. QED
      BY <1>5, <3>1, OneHolder DEF PlaceInv
  <2>3. QED
    BY <2>1, <2>2
<1>6. CASE GetHigh(t) /\ highList[q] # <<>>
  <2>1. highList[q] \in Seq(Msg) /\ NoRepeat(highList[q])
    BY DEF TypeOK, PlaceInv, ListsInv
  <2>2. PICK x \in Msg : x = Head(highList[q])
    BY <1>6, <2>1, HeadTail
  <2>3. /\ Got(t, x) /\ normalList' = normalList
        /\ highList' = [highList EXCEPT ![q] = Tail(highList[q])]
    BY <1>6, <2>2 DEF GetHigh
  <2>4. /\ highList'[q] = Tail(highList[q])
        /\ \A r \in Queue : r # q => highList'[r] = highList[r]
    BY <2>3 DEF TypeOK
  <2>5. /\ InSeq(x, highList[q])
        /\ \A m : InSeq(m, Tail(highList[q])) <=> InSeq(m, highList[q]) /\ m # x
        /\ \A m, n : Precedes(Tail(highList[q]), m, n) => Precedes(highList[q], m, n) /\ m # x
    BY <1>4, <1>6, <2>1, <2>2
  <2>6. Holds("high", q, x)
    BY <2>5 DEF Holds
  <2>7. \A r \in Queue : /\ ~InSeq(x, normalList[r])
                         /\ r # q => ~InSeq(x, highList[r])
    BY <1>5, <2>6
  <2>8. \A r \in Queue : \A m \in Msg : InQueue(r, m)' => InQueue(r, m) /\ m # x
    BY <2>3, <2>4, <2>5, <2>7 DEF InQueue
  <2>9. \A r \in Queue : \A m, n \in Msg :
          /\ Precedes(normalList'[r], m, n) => Precedes(normalList[r], m, n) /\ m # x
          /\ Precedes(highList'[r], m, n) => Precedes(highList[r], m, n) /\ m # x
    BY <2>3, <2>4, <2>5, <2>7, PrecedesIn
  <2>10. QED
    BY <1>3, <2>3, <2>6, <2>8, <2>9
<1>7. CASE GetNormal(t) /\ normalList[q] # <<>>
  <2>1. normalList[q] \in Seq(Msg) /\ NoRepeat(normalList[q])
    BY DEF TypeOK, PlaceInv, ListsInv
  <2>2. PICK x \in Msg : x = Head(normalList[q])
    BY <1>7, <2>1, HeadTail
  <2>3. /\ Got(t, x) /\ highList' = highList
        /\ normalList' = [normalList EXCEPT ![q] = Tail(normalList[q])]
    BY <1>7, <2>2 DEF GetNormal
  <2>4. /\ normalList'[q] = Tail(normalList[q])
        /\ \A r \in Queue : r # q => normalList'[r] = normalList[r]
    BY <2>3 DEF TypeOK
  <2>5. /\ InSeq(x, normalList[q])
        /\ \A m : InSeq(m, Tail(normalList[q])) <=> InSeq(m, normalList[q]) /\ m # x
        /\ \A m, n : Precedes(Tail(normalList[q]), m, n) =>
             Precedes(normalList[q], m, n) /\ m # x
    BY <1>4, <1>7, <2>1, <2>2
  <2>6. Holds("normal", q, x)
    BY <2>5 DEF Holds
  <2>7. \A r \in Queue : /\ ~InSeq(x, highList[r])
                         /\ r # q => ~InSeq(x, normalList[r])
    BY <1>5, <2>6
  <2>8. \A r \in Queue : \A m \in Msg : InQueue(r, m)' => InQueue(r, m) /\ m # x
    BY <2>3, <2>4, <2>5, <2>7 DEF InQueue
  <2>9. \A r \in Queue : \A m, n \in Msg :
          /\ Precedes(normalList'[r], m, n) => Precedes(normalList[r], m, n) /\ m # x
          /\ Precedes(highList'[r], m, n) => Precedes(highList[r], m, n) /\ m # x
    BY <2>3, <2>4, <2>5, <2>7, PrecedesIn
  <2>10. QED
    BY <1>3, <2>3, <2>6, <2>8, <2>9
<1>8. QED
  BY <1>2, <1>6, <1>7 DEF GetHigh, GetNormal

\* The steps of MessageQ between the places, of the gate, the event and the swi.
LEMMA CallOrder ==
  ASSUME TypeOK, PlaceInv, OrderInv, NEW t \in Thread, LocalStep(t),
         \/ Signal(t) \/ MessageQ_get(t) \/ Wait(t) \/ Timeout(t) \/ Woken(t)
         \/ \E q \in Queue : MessageQ_unblock(t, q)
  PROVE  OrderInv'
<1> USE DEF heapVars, queueVars, linkVars, swiVars
<1>1. UNCHANGED <<freeList, header, highList, normalList, msg, list, swiMsg, sent>>
  BY Zenon DEF Signal, MessageQ_get, Wait, Timeout, Woken, MessageQ_unblock, LocalStep
<1>2. PICK l \in {"idle", "signal", "getHigh", "woken", "done"} : pc' = [pc EXCEPT ![t] = l]
  BY DEF Signal, MessageQ_get, Wait, Timeout, Woken, MessageQ_unblock
<1>3. pc[t] \in {"idle", "signal", "wait", "woken"}
  BY DEF Signal, MessageQ_get, Wait, Timeout, Woken, MessageQ_unblock
<1>4. \A u \in Thread : /\ u # t => pc'[u] = pc[u]
                        /\ pc[t] \notin PutLabel /\ ~Addressed(t)'
  BY <1>2, <1>3 DEF TypeOK, PutLabel, Addressed
<1>5. QED
  BY <1>1, <1>4, StayOrder DEF Addressed

LEMMA LinkOrder ==
  ASSUME TypeOK, OrderInv, NEW t \in Thread, PutEnter(t) \/ SendEvent(t) \/ PutLeave(t)
  PROVE  OrderInv'
<1>1. UNCHANGED <<freeList, header, highList, normalList, list, swiMsg, sent>>
  BY DEF PutEnter, SendEvent, PutLeave, heapVars, queueVars, swiVars
<1>2. \/ pc[t] = "putRemote" /\ pc' = [pc EXCEPT ![t] = "putTail"] /\ msg' = msg
      \/ /\ pc[t] = "sendEvent" /\ pc' = [pc EXCEPT ![t] = "putLeave"]
         /\ msg' = [msg EXCEPT ![t] = None]
      \/ pc[t] = "sendEvent" /\ pc' = [pc EXCEPT ![t] = "putRemove"] /\ msg' = msg
      \/ pc[t] = "putLeave" /\ pc' = [pc EXCEPT ![t] = "idle"] /\ msg' = msg
  BY DEF PutEnter, SendEvent, PutLeave
<1>3. \A u \in Thread :
        /\ msg'[u] = msg[u] \/ msg'[u] = None
        /\ pc[u] \in PutLabel => pc'[u] \in PutLabel \/ msg'[u] = None
        /\ Addressed(u)' => /\ Addressed(u) /\ msg'[u] = msg[u]
                            /\ pc'[u] = "putLocal" <=> pc[u] = "putLocal"
  BY <1>2 DEF TypeOK, PutLabel, Addressed
<1>4. QED
  BY <1>1, <1>3, StayOrder

LEMMA OrderStep ==
  ASSUME IInv, PlaceInv, ListedInv, OrderInv, Next
  PROVE  OrderInv'
<1> USE DEF IInv
<1>1. ASSUME NEW t \in Thread, LocalStep(t)
      PROVE  OrderInv'
  <2>1. CASE MessageQ_alloc(t)
    BY <1>1, <2>1, AllocOrder DEF LocalStep
  <2>2. CASE MessageQ_free(t)
    BY <1>1, <2>2, FreeOrder DEF LocalStep
  <2>3. CASE \E q \in Queue : \E pri \in Priority : MessageQ_put(t, q, pri)
    BY <1>1, <2>3, PutOrder DEF LocalStep
  <2>4. CASE PutLocal(t)
    BY <1>1, <2>4, PutLocalOrder DEF LocalStep
  <2>5. CASE GetHigh(t) \/ GetNormal(t)
    <3>1. reads[t] \in Queue
      BY <2>5, MessageQAssumption DEF GetHigh, GetNormal, OwnInv, GetLabel
    <3>2. QED
      BY <1>1, <2>5, <3>1, GotOrder
  <2>6. CASE \/ Signal(t) \/ MessageQ_get(t) \/ Wait(t) \/ Timeout(t) \/ Woken(t)
             \/ \E q \in Queue : MessageQ_unblock(t, q)
    BY <1>1, <2>6, CallOrder
  <2>7. QED
    BY ONLY <1>1, <2>1, <2>2, <2>3, <2>4, <2>5, <2>6 DEF LocalStep
<1>2. ASSUME NEW t \in Thread,
             PutEnter(t) \/ PutTail(t) \/ SendEvent(t) \/ PutRemove(t) \/ PutLeave(t)
      PROVE  OrderInv'
  BY <1>2, LinkOrder, PutTailOrder, PutRemoveOrder
<1>3. ASSUME NEW p \in Proc,
             Instance_init(p) \/ TransportShm_notifyFxn(p) \/ SwiStart(p) \/ SwiSignal(p)
      PROVE  OrderInv'
  <2>1. UNCHANGED <<freeList, header, highList, normalList, pc, msg, list, swiMsg, sent>>
    BY <1>3 DEF Instance_init, TransportShm_notifyFxn, SwiStart, SwiSignal, mqVars, linkVars,
      swiVars, heapVars, queueVars, threadVars
  <2>2. QED
    BY <2>1, StayOrder DEF Addressed
<1>4. ASSUME NEW p \in Proc, SwiGet(p) \/ SwiPut(p)
      PROVE  OrderInv'
  BY <1>4, SwiGetOrder, SwiPutOrder
<1>5. QED
  BY ONLY Steps, Next, <1>1, <1>2, <1>3, <1>4

LEMMA InitOrder ==
  ASSUME Init
  PROVE  ListedInv /\ OrderInv
<1> USE DEF Init, MessageQInit
<1>1. ListedInv
  BY DEF ListedInv
<1>2. \A t \in Thread : SentBy(t) = {} /\ sent[t] = {} /\ ~Addressed(t)
  BY DEF SentBy, Addressed
<1>3. sent \in [Thread -> SUBSET (Msg \X Msg)]
  OBVIOUS
<1>4. SentInv /\ RouteInv /\ InOrder
  BY <1>2, <1>3 DEF SentInv, RouteInv, InOrder
<1>5. QED
  BY <1>1, <1>4 DEF OrderInv

-----------------------------------------------------------------------------
\* From the one holder of a message to its one place.
LEMMA PlaceOfHeld ==
  ASSUME TypeOK, PlaceInv, NEW m \in Msg
  PROVE  \E c : Places(m) = {c}
<1> DEFINE heap == {<<"heap", m>> : x \in freeList \cap {m}}
           threads == {<<"thread", t>> : t \in {u \in Thread :
                         msg[u] = m /\ pc[u] \notin {"sendEvent", "putRemove"}}}
           swis == {<<"swi", p>> : p \in {r \in Proc : swiMsg[r] = m}}
           lists == UNION {{<<"list", p, i>> : i \in {j \in DOMAIN list[p] : list[p][j] = m}} :
                             p \in Proc}
           highs == UNION {{<<"high", q, i>> : i \in {j \in DOMAIN highList[q] :
                               highList[q][j] = m}} : q \in Queue}
           normals == UNION {{<<"normal", q, i>> : i \in {j \in DOMAIN normalList[q] :
                               normalList[q][j] = m}} : q \in Queue}
<1>1. Places(m) = heap \cup threads \cup swis \cup lists \cup highs \cup normals
  BY DEF Places
<1>2. PICK kind, x : HeldBy(m, kind, x)
  BY DEF PlaceInv, HeldOnce
<1>3. Holds(kind, x, m) /\ \A l, y : Holds(l, y, m) => l = kind /\ y = x
  BY <1>2 DEF HeldBy
\* A kind of place where the message is not.
<1>4. /\ kind # "heap" => heap = {}
      /\ kind # "thread" => threads = {}
      /\ kind # "swi" => swis = {}
      /\ kind # "list" => lists = {}
      /\ kind # "high" => highs = {}
      /\ kind # "normal" => normals = {}
  BY <1>3, SMTT(40) DEF Holds, Carries, InSeq
\* The kind of place where it is.
<1>5. CASE kind = "heap"
  <2>1. heap = {<<"heap", m>>}
    BY <1>3, <1>5 DEF Holds
  <2>2. QED
    BY <1>1, <1>4, <1>5, <2>1
<1>6. CASE kind = "thread"
  <2>1. threads = {<<"thread", x>>}
    BY <1>3, <1>6 DEF Holds, Carries
  <2>2. QED
    BY <1>1, <1>4, <1>6, <2>1
<1>7. CASE kind = "swi"
  <2>1. swis = {<<"swi", x>>}
    BY <1>3, <1>7 DEF Holds
  <2>2. QED
    BY <1>1, <1>4, <1>7, <2>1
<1>8. CASE kind = "list"
  <2>1. PICK i \in DOMAIN list[x] : x \in Proc /\ list[x][i] = m
    BY <1>3, <1>8 DEF Holds, InSeq
  <2>2. \A p \in Proc : \A j \in DOMAIN list[p] : list[p][j] = m => p = x
    BY <1>3, <1>8 DEF Holds, InSeq
  <2>3. \A j \in DOMAIN list[x] : list[x][j] = m => j = i
    BY <2>1 DEF PlaceInv, ListsInv, NoRepeat
  <2>4. lists = {<<"list", x, i>>}
    BY <2>1, <2>2, <2>3
  <2>5. QED
    BY <1>1, <1>4, <1>8, <2>4
<1>9. CASE kind = "high"
  <2>1. PICK i \in DOMAIN highList[x] : x \in Queue /\ highList[x][i] = m
    BY <1>3, <1>9 DEF Holds, InSeq
  <2>2. \A q \in Queue : \A j \in DOMAIN highList[q] : highList[q][j] = m => q = x
    BY <1>3, <1>9 DEF Holds, InSeq
  <2>3. \A j \in DOMAIN highList[x] : highList[x][j] = m => j = i
    BY <2>1 DEF PlaceInv, ListsInv, NoRepeat
  <2>4. highs = {<<"high", x, i>>}
    BY <2>1, <2>2, <2>3
  <2>5. QED
    BY <1>1, <1>4, <1>9, <2>4
<1>10. CASE kind = "normal"
  <2>1. PICK i \in DOMAIN normalList[x] : x \in Queue /\ normalList[x][i] = m
    BY <1>3, <1>10 DEF Holds, InSeq
  <2>2. ASSUME NEW q \in Queue, NEW j \in DOMAIN normalList[q], normalList[q][j] = m
        PROVE  q = x
    <3>1. Holds("normal", q, m)
      BY <2>2 DEF Holds, InSeq
    <3>2. QED
      BY <1>3, <3>1
  <2>3. \A j \in DOMAIN normalList[x] : normalList[x][j] = m => j = i
    BY <2>1 DEF PlaceInv, ListsInv, NoRepeat
  <2>4. normals = {<<"normal", x, i>>}
    BY <2>1, <2>2, <2>3
  <2>5. QED
    BY <1>1, <1>4, <1>10, <2>4
<1>11. QED
  BY <1>3, <1>5, <1>6, <1>7, <1>8, <1>9, <1>10 DEF Holds

LEMMA PlaceInvInv ==
  ASSUME IInv, PlaceInv, ListedInv, OrderInv
  PROVE  Inv
<1>1. ASSUME NEW m \in Msg
      PROVE  Cardinality(Places(m)) = 1
  <2>1. PICK c : Places(m) = {c}
    BY PlaceOfHeld DEF IInv
  <2>2. Cardinality({c}) = 1
    BY FS_Singleton
  <2>3. QED
    BY <2>1, <2>2
<1>2. QED
  BY <1>1 DEF Inv, PlaceInv, OnePlace

\* All of it together.
AllInv == IInv /\ PlaceInv /\ ListedInv /\ OrderInv

\* The invariant of MessageQ_put, TransportShm_put, the swi and MessageQ_get:
\* types, the gate, the wake-ups, the addresses, the order, and every message at one
\* place.
THEOREM InvHolds == Spec => []Inv
<1>1. Init => AllInv
  BY InitIInv, InitPlace, InitOrder DEF AllInv
<1>2. AllInv /\ [Next]_vars => AllInv'
  <2>1. ASSUME AllInv, Next
        PROVE  AllInv'
    BY <2>1, NextIInv, PlaceStep, ListedStep, OrderStep DEF AllInv
  <2>2. ASSUME AllInv, UNCHANGED vars
        PROVE  AllInv'
    <3> USE DEF AllInv, vars, mqVars, linkVars, swiVars, heapVars, queueVars, threadVars
    <3>1. IInv'
      BY <2>2, NextIInv
    <3>2. PlaceInv'
      BY <2>2, StayPut DEF IInv, Carries, PlaceInv, HandsInv
    <3>3. ListedInv'
      BY <2>2 DEF ListedInv
    <3>4. OrderInv'
      BY <2>2, StayOrder DEF IInv, Addressed
    <3>5. QED
      BY <3>1, <3>2, <3>3, <3>4
  <2>3. QED
    BY <2>1, <2>2
<1>3. AllInv => Inv
  BY PlaceInvInv DEF AllInv
<1>4. QED
  BY <1>1, <1>2, <1>3, PTL DEF Spec

\* What a thread puts to a queue with one priority arrives in that order, over the
\* list, the gate and the swi of the link or without them (MessageQ_put,
\* TransportShm_put, TransportShm_swiFxn).
THEOREM InOrderHolds == Spec => []InOrder
<1>1. Inv => InOrder
  BY DEF Inv, OrderInv
<1>2. QED
  BY <1>1, InvHolds, PTL

\* No message is lost, delivered twice, or still used by its sender after a put
\* that succeeded: a block is in the heap, with one thread or one swi, or at one
\* place of one list.
THEOREM OnePlaceHolds == Spec => []OnePlace
<1>1. Inv => OnePlace
  BY DEF Inv
<1>2. QED
  BY <1>1, InvHolds, PTL
=============================================================================
