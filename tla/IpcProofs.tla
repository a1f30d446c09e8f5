----------------------------- MODULE IpcProofs -----------------------------
(***************************************************************************)
(* Proofs about Ipc, for any number of processors with one task each, any  *)
(* owner of region 0, any components and numbers of attaches.  A step of a *)
(* task changes one processor's side of one pair: its key, its instances,  *)
(* its count and its label.  SideKeeps says when such a change keeps IInv; *)
(* the lemma of an action says what the change is.                         *)
(***************************************************************************)
EXTENDS Ipc, Integers, TLAPS

Labels == {"idle"} \cup Attaching \cup Detaching
Keys == {"none", "START", "FINISH", "DETACH"}

-----------------------------------------------------------------------------
\* Ipc_getSlaveAddr and Ipc_getMasterAddr: every pair has two slots of its own.
KS(s, m) == Key(SlaveAddr(s, m))
KM(s, m) == Key(MasterAddr(s, m))
PtrOf(s, m) == reserved[SlaveAddr(s, m)[1]][SlaveAddr(s, m)[2]].ptr

LEMMA Procs ==
  /\ owner \in Proc /\ Proc \subseteq Int /\ None \notin Proc
  /\ \A p, q \in Proc : p # q => p < q \/ q < p
  /\ \A p, q \in Proc : ~(p < q /\ q < p) /\ (p < q => p # q)
BY IpcAssumption DEF Proc

LEMMA Slots ==
  ASSUME NEW s \in Proc, NEW m \in Proc, s < m
  PROVE  /\ SlaveAddr(s, m) = <<s, m - 1>> /\ SlaveAddr(m, s) = <<s, m - 1>>
         /\ MasterAddr(s, m) = <<m, s>> /\ MasterAddr(m, s) = <<m, s>>
         /\ m - 1 \in Proc /\ s <= m - 1 /\ ~(m < s)
         /\ KS(s, m) = reserved[s][m - 1].startedKey /\ KM(s, m) = reserved[m][s].startedKey
         /\ PtrOf(s, m) = reserved[s][m - 1].ptr
         /\ OwnAddr(s, m) = <<s, m - 1>> /\ PeerAddr(s, m) = <<m, s>>
         /\ OwnAddr(m, s) = <<m, s>> /\ PeerAddr(m, s) = <<s, m - 1>>
         /\ Slave(s, m) = s /\ Slave(m, s) = s /\ Master(s, m) = m /\ Master(m, s) = m
BY IpcAssumption DEF Proc, SlaveAddr, MasterAddr, KS, KM, PtrOf, Key, OwnAddr, PeerAddr, Slave, Master

\* Ipc_procSyncStart, procSyncFinish and detach write one key, that of the caller.
OnlyKeyOf(p, q) ==
  \A s, m \in Proc : s < m =>
    /\ ~(s = p /\ m = q) => KS(s, m)' = KS(s, m)
    /\ ~(s = q /\ m = p) => KM(s, m)' = KM(s, m)
PtrsStay == \A s, m \in Proc : s < m => PtrOf(s, m)' = PtrOf(s, m)
ReservedType ==
  reserved \in [Proc -> [Proc -> [startedKey : Keys, ptr : [Comps -> {"invalid", "block"}]]]]

LEMMA SlotsNext ==
  ASSUME NEW s \in Proc, NEW m \in Proc, s < m
  PROVE  /\ KS(s, m)' = reserved'[s][m - 1].startedKey /\ KM(s, m)' = reserved'[m][s].startedKey
         /\ PtrOf(s, m)' = reserved'[s][m - 1].ptr
BY Slots DEF KS, KM, PtrOf, Key

LEMMA KeysStay ==
  ASSUME UNCHANGED reserved, NEW p, NEW q
  PROVE  /\ OnlyKeyOf(p, q) /\ PtrsStay
         /\ \A s, m \in Proc : s < m => KS(s, m)' = KS(s, m) /\ KM(s, m)' = KM(s, m)
BY SlotsNext, Slots DEF OnlyKeyOf, PtrsStay

LEMMA SetKeyIs ==
  ASSUME ReservedType, NEW p \in Proc, NEW q \in Proc, p # q, NEW k \in Keys,
         SetKey(OwnAddr(p, q), k)
  PROVE  /\ ReservedType' /\ OnlyKeyOf(p, q) /\ PtrsStay
         /\ p < q => KS(p, q)' = k
         /\ q < p => KM(q, p)' = k
<1> DEFINE a == OwnAddr(p, q)
           b == a[1]
           c == a[2]
<1>1. b \in Proc /\ c \in Proc
  BY Slots, Procs
<1>2. /\ p < q => b = p /\ c = q - 1
      /\ q < p => b = p /\ c = q
  BY Slots
<1> HIDE DEF b, c
<1>3. reserved' = [reserved EXCEPT ![b][c].startedKey = k]
  BY DEF SetKey, b, c
<1>4. /\ reserved'[b][c].startedKey = k /\ reserved'[b][c].ptr = reserved[b][c].ptr
      /\ \A x, y \in Proc : ~(x = b /\ y = c) => reserved'[x][y] = reserved[x][y]
  BY <1>1, <1>3 DEF ReservedType
<1>5. ReservedType'
  <2> DEFINE R == [startedKey : Keys, ptr : [Comps -> {"invalid", "block"}]]
             x == [reserved[b][c] EXCEPT !.startedKey = k]
  <2>1. reserved \in [Proc -> [Proc -> R]]
    BY DEF ReservedType
  <2>2. x \in R
    <3>1. reserved[b][c] \in R
      BY <1>1, <2>1
    <3> QED BY <3>1
  <2>3. reserved' = [reserved EXCEPT ![b][c] = x]
    BY <1>1, <1>3, <2>1
  <2> HIDE DEF R, x
  <2>4. reserved' \in [Proc -> [Proc -> R]]
    BY <1>1, <2>1, <2>2, <2>3
  <2> QED BY <2>4 DEF ReservedType, R
<1>6. p < q \/ q < p
  BY Procs
<1>7. ASSUME NEW s \in Proc, NEW m \in Proc, s < m
      PROVE  /\ ~(s = p /\ m = q) => KS(s, m)' = KS(s, m)
             /\ ~(s = q /\ m = p) => KM(s, m)' = KM(s, m)
             /\ PtrOf(s, m)' = PtrOf(s, m)
  <2>1. m - 1 \in Proc /\ s <= m - 1 /\ s \in Int /\ m \in Int /\ p \in Int /\ q \in Int
    BY <1>7, Slots, Procs
  <2>2. ~(s = p /\ m = q) => ~(s = b /\ m - 1 = c)
    BY <1>2, <1>6, <1>7, <2>1
  <2>3. ~(s = q /\ m = p) => ~(m = b /\ s = c)
    BY <1>2, <1>6, <1>7, <2>1
  <2>4. reserved'[s][m - 1].ptr = reserved[s][m - 1].ptr
    BY <1>4, <2>1
  <2>5. ~(s = p /\ m = q) => reserved'[s][m - 1] = reserved[s][m - 1]
    BY <1>4, <2>1, <2>2
  <2>6. ~(s = q /\ m = p) => reserved'[m][s] = reserved[m][s]
    BY <1>4, <2>1, <2>3
  <2> QED BY <1>7, <2>4, <2>5, <2>6, Slots, SlotsNext
<1>8. (p < q => KS(p, q)' = k) /\ (q < p => KM(q, p)' = k)
  BY <1>2, <1>4, SlotsNext
<1> QED BY <1>5, <1>7, <1>8 DEF OnlyKeyOf, PtrsStay

-----------------------------------------------------------------------------
\* Where a processor is in its calls, when one task of it moves.
LEMMA LabelIs ==
  ASSUME OneTask, TaskInv, NEW t \in Task
  PROVE  \A q \in Proc :
           /\ Label(procOf[t], q) = IF q = remote[t] THEN pc[t] ELSE "idle"
           /\ StepAt(procOf[t], q) = IF q = remote[t] THEN step[t] ELSE 0
<1> SUFFICES ASSUME NEW q \in Proc
             PROVE  /\ Label(procOf[t], q) = IF q = remote[t] THEN pc[t] ELSE "idle"
                    /\ StepAt(procOf[t], q) = IF q = remote[t] THEN step[t] ELSE 0
  OBVIOUS
<1> DEFINE p == procOf[t]
<1>1. \A u \in Task : Calls(u, p, q) => u = t /\ q = remote[t]
  BY DEF OneTask, Calls
<1>2. CASE q = remote[t]
  <2>1. Calls(t, p, q)
    BY <1>2 DEF Calls
  <2>2. Caller(p, q) = t
    BY <1>1, <2>1 DEF Caller
  <2> QED BY <1>2, <2>1, <2>2 DEF Label, StepAt
<1>3. CASE q # remote[t]
  BY <1>1, <1>3 DEF Label, StepAt
<1> QED BY <1>2, <1>3

\* Task t goes to step n of label l in its call for q.
Turns(t, q, l, n) ==
  /\ pc' = [pc EXCEPT ![t] = l]
  /\ remote' = [remote EXCEPT ![t] = IF l = "idle" THEN None ELSE q]
  /\ l = "idle" => step' \in {step, [step EXCEPT ![t] = n]}
  /\ l # "idle" => step' = [step EXCEPT ![t] = n]

OnlyLabelOf(p, q) ==
  \A x, y \in Proc : ~(x = p /\ y = q) => Label(x, y)' = Label(x, y) /\ StepAt(x, y)' = StepAt(x, y)
TaskTypes ==
  /\ pc \in [Task -> Labels]
  /\ remote \in [Task -> Proc \cup {None}]
  /\ step \in [Task -> 0..Len(Component)]

LEMMA Moved ==
  ASSUME OneTask, TaskTypes, TaskInv, NEW t \in Task, NEW q \in Proc, q # procOf[t],
         remote[t] \in {q, None}, NEW l \in Labels, NEW n \in 0..Len(Component),
         l = "idle" => n = 0, Turns(t, q, l, n)
  PROVE  /\ TaskTypes' /\ TaskInv' /\ OnlyLabelOf(procOf[t], q)
         /\ Label(procOf[t], q)' = l /\ StepAt(procOf[t], q)' = n
<1> DEFINE p == procOf[t]
           r == IF l = "idle" THEN None ELSE q
<1>1. /\ pc'[t] = l /\ remote'[t] = r /\ (l # "idle" => step'[t] = n)
      /\ \A u \in Task : u # t => pc'[u] = pc[u] /\ remote'[u] = remote[u] /\ step'[u] = step[u]
  BY DEF Turns, TaskTypes
<1>2. TaskTypes'
  BY Procs DEF Turns, TaskTypes
<1>3. TaskInv'
  <2>1. None # p
    BY Procs, IpcAssumption
  <2>2. l = "idle" <=> r = None
    BY Procs
  <2> QED BY <1>1, <2>1, <2>2 DEF TaskInv
<1>4. \A u \in Task : procOf[u] = p => u = t
  BY DEF OneTask
<1>5. ASSUME NEW y \in Proc
      PROVE  /\ Label(p, y)' = IF y = r THEN l ELSE "idle"
             /\ StepAt(p, y)' = IF y = r THEN n ELSE 0
  <2>1. \A u \in Task : Calls(u, p, y)' => u = t /\ y = r
    BY <1>1, <1>4 DEF Calls
  <2>2. CASE y = r
    <3>1. Calls(t, p, y)'
      BY <1>1, <2>2 DEF Calls
    <3>2. Caller(p, y)' = t
      BY <2>1, <3>1 DEF Caller
    <3>3. l # "idle"
      BY <2>2, Procs
    <3> QED BY <1>1, <2>2, <3>1, <3>2, <3>3 DEF Label, StepAt
  <2>3. CASE y # r
    BY <2>1, <2>3 DEF Label, StepAt
  <2> QED BY <2>2, <2>3
<1>6. ASSUME NEW y \in Proc, y # q
      PROVE  Label(p, y)' = Label(p, y) /\ StepAt(p, y)' = StepAt(p, y)
  BY <1>5, <1>6, LabelIs, Procs
<1>7. Label(p, q)' = l /\ StepAt(p, q)' = n
  BY <1>5, Procs
<1>8. ASSUME NEW x \in Proc, x # p, NEW y \in Proc
      PROVE  Label(x, y)' = Label(x, y) /\ StepAt(x, y)' = StepAt(x, y)
  <2>1. \A u \in Task : Calls(u, x, y)' <=> Calls(u, x, y)
    BY <1>1, <1>8 DEF Calls
  <2>2. CASE \E u \in Task : Calls(u, x, y)
    <3>1. PICK u \in Task : Calls(u, x, y)
      BY <2>2
    <3>2. \A v \in Task : Calls(v, x, y) => v = u
      BY <3>1 DEF OneTask, Calls
    <3>3. Caller(x, y) = u /\ Caller(x, y)' = u
      BY <2>1, <3>1, <3>2 DEF Caller
    <3>4. pc'[u] = pc[u] /\ step'[u] = step[u]
      BY <1>1, <1>8, <3>1 DEF Calls
    <3> QED BY <2>1, <2>2, <3>3, <3>4 DEF Label, StepAt
  <2>3. CASE ~\E u \in Task : Calls(u, x, y)
    BY <2>1, <2>3 DEF Label, StepAt
  <2> QED BY <2>2, <2>3
<1> QED BY <1>2, <1>3, <1>6, <1>7, <1>8 DEF OnlyLabelOf

-----------------------------------------------------------------------------
\* A step on the side of p towards q: nothing else of any pair changes.
OnlySideOf(p, q) ==
  \A x, y \in Proc : ~(x = p /\ y = q) =>
    instance'[x][y] = instance[x][y] /\ attached'[x][y] = attached[x][y]

PairOK(s, m) ==
  /\ <<KS(s, m), KM(s, m)>> \in Phases
  /\ SlaveOK(KS(s, m), KM(s, m), instance[s][m], attached[s][m], Label(s, m), StepAt(s, m))
  /\ MasterOK(KS(s, m), KM(s, m), instance[m][s], attached[m][s], Label(m, s), StepAt(m, s))

LEMMA PairIs ==
  /\ PairInv <=> \A s, m \in Proc : s < m => PairOK(s, m)
  /\ PairInv' <=> \A s, m \in Proc : s < m => PairOK(s, m)'
BY DEF PairInv, PairOK, KS, KM

\* What the side of p is after the step: key k, instances I, count a, step n of label l.
SideBecomes(p, q, I, a, l, n) ==
  /\ instance'[p][q] = I /\ attached'[p][q] = a /\ Label(p, q)' = l /\ StepAt(p, q)' = n

LEMMA PairKept ==
  ASSUME PairInv, NEW p \in Proc, NEW q \in Proc, p # q,
         OnlyKeyOf(p, q), OnlyLabelOf(p, q), OnlySideOf(p, q),
         NEW k, NEW I, NEW a, NEW l, NEW n, SideBecomes(p, q, I, a, l, n),
         p < q => /\ KS(p, q)' = k /\ <<k, KM(p, q)>> \in Phases
                  /\ SlaveOK(k, KM(p, q), I, a, l, n)
                  /\ MasterOK(k, KM(p, q), instance[q][p], attached[q][p], Label(q, p), StepAt(q, p)),
         q < p => /\ KM(q, p)' = k /\ <<KS(q, p), k>> \in Phases
                  /\ MasterOK(KS(q, p), k, I, a, l, n)
                  /\ SlaveOK(KS(q, p), k, instance[q][p], attached[q][p], Label(q, p), StepAt(q, p))
  PROVE  PairInv'
<1> SUFFICES ASSUME NEW s \in Proc, NEW m \in Proc, s < m PROVE PairOK(s, m)'
  BY PairIs
<1>1. ~(m < s) /\ s # m
  BY Procs
<1>2. /\ ~(s = p /\ m = q) => /\ KS(s, m)' = KS(s, m) /\ instance'[s][m] = instance[s][m]
                              /\ attached'[s][m] = attached[s][m]
                              /\ Label(s, m)' = Label(s, m) /\ StepAt(s, m)' = StepAt(s, m)
      /\ ~(m = p /\ s = q) => /\ KM(s, m)' = KM(s, m) /\ instance'[m][s] = instance[m][s]
                              /\ attached'[m][s] = attached[m][s]
                              /\ Label(m, s)' = Label(m, s) /\ StepAt(m, s)' = StepAt(m, s)
  BY DEF OnlyKeyOf, OnlyLabelOf, OnlySideOf
<1>3. CASE s = p /\ m = q
  BY <1>1, <1>2, <1>3 DEF PairOK, SideBecomes
<1>4. CASE s = q /\ m = p
  BY <1>1, <1>2, <1>4 DEF PairOK, SideBecomes
<1>5. CASE ~(s = p /\ m = q) /\ ~(s = q /\ m = p)
  <2>1. PairOK(s, m)
    BY PairIs
  <2> QED BY <1>2, <1>5, <2>1 DEF PairOK
<1> QED BY <1>3, <1>4, <1>5

-----------------------------------------------------------------------------
\* The other parts of the invariant, for steps that do not touch what they say.
Idle == {"stopped", "finished"}
OnlyStateOf(p) == \A x \in Proc : x # p => state'[x] = state[x]

LEMMA StopKept ==
  ASSUME StopInv, NEW p \in Proc, NEW q \in Proc, OnlyLabelOf(p, q), OnlySideOf(p, q),
         OnlyStateOf(p), state'[p] \notin Idle
  PROVE  StopInv'
<1> SUFFICES ASSUME NEW x \in Proc, NEW y \in Proc, state'[x] \in Idle
             PROVE  Label(x, y)' = "idle" /\ attached'[x][y] = 0
  BY DEF StopInv, Idle
<1>1. x # p /\ state[x] \in Idle
  BY DEF OnlyStateOf
<1> QED BY <1>1 DEF StopInv, Idle, OnlyLabelOf, OnlySideOf

FreshOK(s, m) == KM(s, m) = "none" /\ KS(s, m) \in {"none", "START"} /\ (KS(s, m) = "START" => s # owner)
LEMMA FreshIs ==
  /\ FreshInv <=> (state[owner] = "stopped" => \A s, m \in Proc : s < m => FreshOK(s, m))
  /\ FreshInv' <=> (state'[owner] = "stopped" => \A s, m \in Proc : s < m => FreshOK(s, m)')
BY DEF FreshInv, FreshOK, KS, KM

LEMMA FreshKept ==
  ASSUME FreshInv, NEW p \in Proc, NEW q \in Proc, p # q, OnlyKeyOf(p, q),
         OnlyStateOf(p), state[p] \notin Idle, state'[p] \notin Idle,
         state[owner] = "stopped" =>
           /\ p < q => KS(p, q)' \in {"none", "START"}
           /\ q < p => KM(q, p)' = "none"
  PROVE  FreshInv'
<1> SUFFICES ASSUME state'[owner] = "stopped", NEW s \in Proc, NEW m \in Proc, s < m
             PROVE  FreshOK(s, m)'
  BY FreshIs
<1>1. p # owner /\ state[owner] = "stopped"
  BY Procs DEF OnlyStateOf, Idle
<1>2. FreshOK(s, m)
  BY <1>1, FreshIs
<1>3. ~(m < s)
  BY Procs
<1>4. ~(s = p /\ m = q) => KS(s, m)' = KS(s, m)
  BY DEF OnlyKeyOf
<1>5. ~(s = q /\ m = p) => KM(s, m)' = KM(s, m)
  BY DEF OnlyKeyOf
<1>6. CASE s = p /\ m = q
  BY <1>1, <1>2, <1>5, <1>6 DEF FreshOK
<1>7. CASE ~(s = p /\ m = q)
  BY <1>1, <1>2, <1>4, <1>5, <1>7 DEF FreshOK
<1> QED BY <1>6, <1>7

Opened(a, l) == (a > 0 /\ l # "uncount") \/ l \in {"setup", "user", "finish", "waitFinish", "count"}
HasRegion(p) == Opened(attached[p][owner], Label(p, owner))
OnlyRegionOf(p) == \A x \in Proc : x # p => (x \in sr0' <=> x \in sr0)
LEMMA RegionIs ==
  /\ RegionInv <=> /\ owner \in sr0 <=> state[owner] \notin Idle
                   /\ \A p \in Proc \ {owner} : HasRegion(p) => p \in sr0
  /\ RegionInv' <=> /\ owner \in sr0' <=> state'[owner] \notin Idle
                    /\ \A p \in Proc \ {owner} : HasRegion(p)' => p \in sr0'
BY DEF RegionInv, HasRegion, Opened, Idle

LEMMA RegionKept ==
  ASSUME RegionInv, NEW p \in Proc, NEW q \in Proc, OnlyLabelOf(p, q), OnlySideOf(p, q),
         OnlyStateOf(p), state[p] \notin Idle, state'[p] \notin Idle,
         OnlyRegionOf(p), p = owner \/ q # owner => (p \in sr0' <=> p \in sr0),
         p # owner /\ q = owner /\ HasRegion(p)' => p \in sr0'
  PROVE  RegionInv'
<1>1. owner \in sr0' <=> state'[owner] \notin Idle
  BY RegionIs, Procs DEF OnlyStateOf, OnlyRegionOf
<1>2. ASSUME NEW x \in Proc \ {owner}, HasRegion(x)', ~(x = p /\ q = owner) PROVE x \in sr0'
  <2>1. HasRegion(x)
    BY <1>2, Procs DEF HasRegion, OnlyLabelOf, OnlySideOf
  <2> QED BY <1>2, <2>1, RegionIs DEF OnlyRegionOf
<1> QED BY <1>1, <1>2, RegionIs

MemoryOK(s, m) ==
  \A c \in Comps :
    /\ allocated[s][m][c] = IF s < m /\ c \in instance[s][m] THEN 1 ELSE 0
    /\ s < m /\ c \in instance[s][m] => PtrOf(s, m)[c] = "block"
LEMMA MemoryIs ==
  /\ MemoryInv <=> \A s, m \in Proc : MemoryOK(s, m)
  /\ MemoryInv' <=> \A s, m \in Proc : MemoryOK(s, m)'
BY DEF MemoryInv, MemoryOK, PtrOf

LEMMA MemoryKept ==
  ASSUME MemoryInv, UNCHANGED allocated, PtrsStay, NEW p \in Proc, NEW q \in Proc, OnlySideOf(p, q),
         p < q => instance'[p][q] = instance[p][q]
  PROVE  MemoryInv'
<1> SUFFICES ASSUME NEW s \in Proc, NEW m \in Proc PROVE MemoryOK(s, m)'
  BY MemoryIs
<1>1. MemoryOK(s, m)
  BY MemoryIs
<1>2. s < m => instance'[s][m] = instance[s][m]
  BY DEF OnlySideOf
<1>3. s < m => PtrOf(s, m)' = PtrOf(s, m)
  BY DEF PtrsStay
<1> QED BY <1>1, <1>2, <1>3 DEF MemoryOK

LEMMA SelfKept ==
  ASSUME SelfInv, NEW p \in Proc, NEW q \in Proc, p # q, OnlySideOf(p, q)
  PROVE  SelfInv'
BY DEF SelfInv, OnlySideOf

-----------------------------------------------------------------------------
\* TypeOK by parts.
StartTypes ==
  /\ procSync \in {"ALL", "PAIR"}
  /\ state \in [Proc -> {"stopped", "starting", "started", "failed", "refused", "finished"}]
  /\ toAttach \in [Proc -> SUBSET Proc]
  /\ \A p \in Proc :
       IF state[p] = "starting" THEN toAttach[p] # {}
       ELSE state[p] \notin {"failed", "refused"} => toAttach[p] = {}
AllocatedType == allocated \in [Proc -> [Proc -> [Comps -> Nat]]]
SideTypes ==
  /\ instance \in [Proc -> [Proc -> SUBSET Comps]]
  /\ attached \in [Proc -> [Proc -> Nat]]
  /\ \A p, q \in Proc : attached[p][q] \in 0..MaxAttach[p]

LEMMA TypeIs ==
  /\ TypeOK <=> StartTypes /\ sr0 \subseteq Proc /\ ReservedType /\ AllocatedType /\ SideTypes /\ TaskTypes
  /\ TypeOK' <=> StartTypes' /\ sr0' \subseteq Proc /\ ReservedType' /\ AllocatedType' /\ SideTypes'
                 /\ TaskTypes'
BY DEF TypeOK, StartTypes, ReservedType, AllocatedType, SideTypes, TaskTypes, Labels, Keys

LEMMA Components ==
  /\ Len(Component) \in Nat \ {0} /\ DOMAIN Component = 1..Len(Component)
  /\ \A c : c \in Comps <=> \E j \in DOMAIN Component : c = Component[j]
BY IpcAssumption DEF Comps

\* A task in a call, and one that is not.
LEMMA InCall ==
  ASSUME OneTask, IInv, NEW t \in Task, pc[t] # "idle"
  PROVE  /\ procOf[t] \in Proc /\ remote[t] \in Proc /\ remote[t] # procOf[t]
         /\ Label(procOf[t], remote[t]) = pc[t] /\ StepAt(procOf[t], remote[t]) = step[t]
         /\ pc[t] \in Labels /\ step[t] \in 0..Len(Component)
         /\ state[procOf[t]] \notin Idle
         /\ \A y \in Proc : y # remote[t] => Label(procOf[t], y) = "idle"
<1>1. TaskTypes /\ TaskInv /\ StopInv
  BY TypeIs DEF IInv
<1>2. procOf[t] \in Proc /\ remote[t] \in Proc /\ remote[t] # procOf[t]
  BY <1>1, IpcAssumption DEF TaskTypes, TaskInv
<1>3. Label(procOf[t], remote[t]) = pc[t] /\ StepAt(procOf[t], remote[t]) = step[t]
  BY <1>1, <1>2, LabelIs
<1>4. \A y \in Proc : y # remote[t] => Label(procOf[t], y) = "idle"
  BY <1>1, LabelIs
<1>5. state[procOf[t]] \notin Idle
  BY <1>1, <1>2, <1>3 DEF StopInv, Idle
<1>6. pc[t] \in Labels /\ step[t] \in 0..Len(Component)
  BY <1>1 DEF TaskTypes
<1> QED BY <1>2, <1>3, <1>4, <1>5, <1>6

LEMMA NotInCall ==
  ASSUME OneTask, IInv, NEW t \in Task, pc[t] = "idle"
  PROVE  /\ procOf[t] \in Proc /\ remote[t] = None
         /\ \A y \in Proc : Label(procOf[t], y) = "idle" /\ StepAt(procOf[t], y) = 0
<1>1. TaskTypes /\ TaskInv
  BY TypeIs DEF IInv
<1>2. procOf[t] \in Proc /\ remote[t] = None
  BY <1>1, IpcAssumption DEF TaskInv
<1> QED BY <1>1, <1>2, LabelIs, Procs

\* Both sides of the pair of p and q.
KeyOf(p, q) == IF p < q THEN KS(p, q) ELSE KM(q, p)
SideOK(p, q, k, I, a, l, n) ==
  /\ p < q => /\ <<k, KM(p, q)>> \in Phases
              /\ SlaveOK(k, KM(p, q), I, a, l, n)
              /\ MasterOK(k, KM(p, q), instance[q][p], attached[q][p], Label(q, p), StepAt(q, p))
  /\ q < p => /\ <<KS(q, p), k>> \in Phases
              /\ MasterOK(KS(q, p), k, I, a, l, n)
              /\ SlaveOK(KS(q, p), k, instance[q][p], attached[q][p], Label(q, p), StepAt(q, p))

LEMMA SideIs ==
  ASSUME PairInv, NEW p \in Proc, NEW q \in Proc, p # q
  PROVE  SideOK(p, q, KeyOf(p, q), instance[p][q], attached[p][q], Label(p, q), StepAt(p, q))
<1>1. ~(p < q /\ q < p)
  BY Procs
<1>2. (p < q => PairOK(p, q)) /\ (q < p => PairOK(q, p))
  BY PairIs
<1> QED BY <1>1, <1>2 DEF SideOK, KeyOf, PairOK

\* While p is busy with the owner of region 0 it has no other connection.
LEMMA AloneWithOwner ==
  ASSUME OneTask, IInv, NEW p \in Proc \ {owner}, Label(p, owner) # "idle", NEW y \in Proc \ {owner}
  PROVE  attached[p][y] = 0
<1>1. SideOK(p, owner, KeyOf(p, owner), instance[p][owner], attached[p][owner], Label(p, owner), StepAt(p, owner))
  BY SideIs, Procs DEF IInv
<1>2. attached[p][owner] \in Nat /\ attached[p][y] \in Nat
  BY Procs, TypeIs DEF IInv, SideTypes
<1>3. Label(p, owner) \in Attaching => attached[p][owner] = 0
  BY <1>1, Procs DEF SideOK, SlaveOK, MasterOK
<1>4. Label(p, owner) \in Attaching \cup Detaching
  <2>1. PICK t \in Task : Calls(t, p, owner) /\ Label(p, owner) = pc[Caller(p, owner)]
    BY DEF Label
  <2>2. Caller(p, owner) \in Task
    BY <2>1 DEF Caller
  <2> QED BY <2>1, <2>2, TypeIs DEF IInv, TaskTypes, Labels
<1> QED BY <1>2, <1>3, <1>4 DEF IInv, RouteInv

\* A step of a task in its call, seen from the invariant.
SideMoves(p, q, k, I, a) ==
  /\ OnlyKeyOf(p, q) /\ OnlySideOf(p, q)
  /\ instance'[p][q] = I /\ attached'[p][q] = a
  /\ p < q => KS(p, q)' = k
  /\ q < p => KM(q, p)' = k
FreshKey(p, q, k) ==
  state[owner] = "stopped" => (p < q => k \in {"none", "START"}) /\ (q < p => k = "none")
RegionMoves(p, q, a, l) ==
  /\ sr0' \subseteq Proc /\ OnlyRegionOf(p)
  /\ p = owner \/ q # owner => (p \in sr0' <=> p \in sr0)
  /\ p # owner /\ q = owner /\ Opened(a, l) => p \in sr0'
StateMoves(p) == StartTypes' /\ OnlyStateOf(p) /\ state'[p] \notin Idle
RouteMoves(p, q, a, l) ==
  p # owner =>
    /\ q # owner /\ (l # "idle" \/ a > 0) => attached[p][owner] > 0 /\ Label(p, owner) \notin Detaching
    /\ q = owner => \A y \in Proc \ {owner} :
                      Label(p, y) # "idle" \/ attached[p][y] > 0 => a > 0 /\ l \notin Detaching

LEMMA SideKeeps ==
  ASSUME OneTask, IInv, NEW t \in Task, NEW p, p = procOf[t], NEW q \in Proc, q # p,
         remote[t] \in {q, None}, state[p] \notin Idle,
         NEW l \in Labels, NEW n \in 0..Len(Component), l = "idle" => n = 0, Turns(t, q, l, n),
         NEW k, NEW I, NEW a, SideMoves(p, q, k, I, a), SideOK(p, q, k, I, a, l, n),
         ReservedType', AllocatedType', SideTypes', MemoryInv',
         StateMoves(p), RegionMoves(p, q, a, l), RouteMoves(p, q, a, l), FreshKey(p, q, k)
  PROVE  IInv'
<1>1. /\ StartTypes /\ sr0 \subseteq Proc /\ TaskTypes /\ TaskInv /\ SelfInv /\ PairInv
      /\ StopInv /\ FreshInv /\ RouteInv /\ RegionInv
  BY TypeIs DEF IInv
<1>2. p \in Proc
  BY IpcAssumption
<1>3. /\ TaskTypes' /\ TaskInv' /\ OnlyLabelOf(p, q) /\ Label(p, q)' = l /\ StepAt(p, q)' = n
  BY <1>1, Moved
<1>4. /\ OnlyKeyOf(p, q) /\ OnlySideOf(p, q) /\ SideBecomes(p, q, I, a, l, n)
      /\ attached'[p][q] = a /\ (p < q => KS(p, q)' = k) /\ (q < p => KM(q, p)' = k)
  BY <1>3 DEF SideMoves, SideBecomes
<1>5. TypeOK'
  BY <1>3, TypeIs DEF StateMoves, RegionMoves
<1>6. SelfInv'
  BY <1>1, <1>2, <1>4, SelfKept
<1>7. PairInv'
  BY <1>1, <1>2, <1>3, <1>4, PairKept DEF SideOK
<1>8. StopInv'
  BY <1>1, <1>2, <1>3, <1>4, StopKept DEF StateMoves
<1>9. FreshInv'
  BY <1>1, <1>2, <1>4, FreshKept DEF StateMoves, FreshKey
<1>10. RouteInv'
  <2> SUFFICES ASSUME NEW x \in Proc \ {owner}, NEW y \in Proc \ {owner},
                      Label(x, y)' # "idle" \/ attached'[x][y] > 0
               PROVE  attached'[x][owner] > 0 /\ Label(x, owner)' \notin Detaching
    BY DEF RouteInv
  <2>1. CASE x = p /\ y = q
    <3>1. p # owner /\ q # owner /\ (l # "idle" \/ a > 0)
      BY <1>3, <1>4, <2>1
    <3>2. attached[p][owner] > 0 /\ Label(p, owner) \notin Detaching
      BY <3>1 DEF RouteMoves
    <3>3. attached'[p][owner] = attached[p][owner] /\ Label(p, owner)' = Label(p, owner)
      BY <1>2, <1>3, <1>4, <3>1, Procs DEF OnlyLabelOf, OnlySideOf
    <3> QED BY <2>1, <3>2, <3>3
  <2>2. CASE ~(x = p /\ y = q)
    <3>1. Label(x, y) # "idle" \/ attached[x][y] > 0
      BY <1>3, <1>4, <2>2 DEF OnlyLabelOf, OnlySideOf
    <3>2. attached[x][owner] > 0 /\ Label(x, owner) \notin Detaching
      BY <1>1, <3>1 DEF RouteInv
    <3>3. CASE x = p /\ q = owner
      BY <1>3, <1>4, <3>1, <3>3 DEF RouteMoves
    <3>4. CASE ~(x = p /\ q = owner)
      BY <1>3, <1>4, <3>2, <3>4, Procs DEF OnlyLabelOf, OnlySideOf
    <3> QED BY <3>3, <3>4
  <2> QED BY <2>1, <2>2
<1>11. RegionInv'
  <2>1. q = owner => (HasRegion(p)' <=> Opened(a, l))
    BY <1>3, <1>4 DEF HasRegion, Opened
  <2> QED BY <1>1, <1>2, <1>3, <1>4, <2>1, RegionKept DEF StateMoves, RegionMoves
<1> QED BY <1>3, <1>5, <1>6, <1>7, <1>8, <1>9, <1>10, <1>11 DEF IInv

LEMMA RouteInCall ==
  ASSUME OneTask, IInv, NEW t \in Task, pc[t] # "idle", NEW a, NEW l
  PROVE  RouteMoves(procOf[t], remote[t], a, l)
<1> DEFINE p == procOf[t]
           q == remote[t]
<1>1. /\ p \in Proc /\ q \in Proc /\ Label(p, q) # "idle"
      /\ \A y \in Proc : y # q => Label(p, y) = "idle"
  BY InCall
<1>2. ASSUME p # owner, q # owner
      PROVE  attached[p][owner] > 0 /\ Label(p, owner) \notin Detaching
  BY <1>1, <1>2 DEF IInv, RouteInv
<1>3. ASSUME p # owner, q = owner, NEW y \in Proc \ {owner}
      PROVE  Label(p, y) = "idle" /\ attached[p][y] = 0
  BY <1>1, <1>3, AloneWithOwner
<1> QED BY <1>2, <1>3 DEF RouteMoves

-----------------------------------------------------------------------------
\* The forms in which a task ends a step, as Turns.
LEMMA TurnsIs ==
  ASSUME OneTask, IInv, NEW t \in Task
  PROVE  /\ \A l : l # "idle" /\ pc[t] # "idle" /\ Goto(t, l) => Turns(t, remote[t], l, step[t])
         /\ \A l, n : l # "idle" /\ pc[t] # "idle" /\ GotoStep(t, l, n) => Turns(t, remote[t], l, n)
         /\ \A q : Return(t) => Turns(t, q, "idle", 0)
         /\ \A q : pc[t] = "idle" /\ UNCHANGED task => Turns(t, q, "idle", 0)
<1>1. /\ remote = [remote EXCEPT ![t] = remote[t]] /\ step = [step EXCEPT ![t] = step[t]]
      /\ pc = [pc EXCEPT ![t] = pc[t]]
  BY TypeIs DEF IInv, TaskTypes
<1>2. \A q : pc[t] = "idle" /\ UNCHANGED task => Turns(t, q, "idle", 0)
  <2>1. pc[t] = "idle" => remote = [remote EXCEPT ![t] = None] /\ pc = [pc EXCEPT ![t] = "idle"]
    BY <1>1 DEF IInv, TaskInv
  <2> QED BY <2>1 DEF Turns, task
<1>3. \A l : l # "idle" /\ pc[t] # "idle" /\ Goto(t, l) => Turns(t, remote[t], l, step[t])
  BY <1>1 DEF Turns, Goto
<1>4. \A l, n : l # "idle" /\ pc[t] # "idle" /\ GotoStep(t, l, n) => Turns(t, remote[t], l, n)
  BY <1>1 DEF Turns, GotoStep
<1>5. \A q : Return(t) => Turns(t, q, "idle", 0)
  BY DEF Turns, Return
<1> QED BY <1>2, <1>3, <1>4, <1>5

LEMMA StateStays ==
  ASSUME IInv, NEW p, state[p] \notin Idle, UNCHANGED start
  PROVE  StateMoves(p)
BY TypeIs DEF IInv, StateMoves, StartTypes, OnlyStateOf, start

\* An error ends Ipc_start: no processor is attached to twice after it.
LEMMA FailedIs ==
  ASSUME OneTask, IInv, NEW t \in Task, pc[t] # "idle", Failed(t)
  PROVE  StateMoves(procOf[t]) /\ Turns(t, remote[t], "idle", 0)
<1> DEFINE p == procOf[t]
<1>1. p \in Proc /\ state[p] \notin Idle /\ StartTypes
  BY InCall, TypeIs DEF IInv
<1>2. state' = [state EXCEPT ![p] = IF state[p] = "starting" THEN "failed" ELSE state[p]]
      /\ UNCHANGED <<procSync, toAttach>>
  BY DEF Failed
<1>3. state'[p] = (IF state[p] = "starting" THEN "failed" ELSE state[p])
      /\ \A x \in Proc : x # p => state'[x] = state[x]
  BY <1>1, <1>2 DEF StartTypes
<1>4. state' \in [Proc -> {"stopped", "starting", "started", "failed", "refused", "finished"}]
  BY <1>1, <1>2 DEF StartTypes
<1>5. \A x \in Proc :
        IF state'[x] = "starting" THEN toAttach'[x] # {}
        ELSE state'[x] \notin {"failed", "refused"} => toAttach'[x] = {}
  BY <1>1, <1>2, <1>3 DEF StartTypes
<1>6. OnlyStateOf(p)
  <2>1. \A x : x # p => state'[x] = state[x]
    BY <1>1, <1>2 DEF StartTypes
  <2> QED BY <2>1 DEF OnlyStateOf
<1>7. StartTypes' /\ state'[p] \notin Idle
  BY <1>1, <1>2, <1>3, <1>4, <1>5 DEF StartTypes, Idle
<1> QED BY <1>6, <1>7, TurnsIs DEF Failed, StateMoves

LEMMA RegionStays ==
  ASSUME IInv, NEW p \in Proc, NEW q \in Proc, UNCHANGED sr0, NEW a, NEW l,
         Opened(a, l) => Opened(attached[p][q], Label(p, q))
  PROVE  RegionMoves(p, q, a, l)
<1>1. sr0 \subseteq Proc
  BY TypeIs DEF IInv
<1>2. p # owner /\ q = owner /\ Opened(a, l) => p \in sr0
  BY RegionIs DEF IInv, HasRegion
<1> QED BY <1>1, <1>2 DEF RegionMoves, OnlyRegionOf

\* A step that changes the label of a call and no more of the pair.
LEMMA LabelKeeps ==
  ASSUME OneTask, IInv, NEW t \in Task, pc[t] # "idle", NEW p, p = procOf[t], NEW q, q = remote[t],
         UNCHANGED <<shared, instance, attached>>, StateMoves(p),
         NEW l \in Labels, NEW n \in 0..Len(Component), l = "idle" => n = 0, Turns(t, q, l, n),
         SideOK(p, q, KeyOf(p, q), instance[p][q], attached[p][q], l, n),
         RegionMoves(p, q, attached[p][q], l)
  PROVE  IInv'
<1>1. p \in Proc /\ q \in Proc /\ p # q /\ state[p] \notin Idle
  BY InCall
<1>2. OnlyKeyOf(p, q) /\ PtrsStay
      /\ \A s, m \in Proc : s < m => KS(s, m)' = KS(s, m) /\ KM(s, m)' = KM(s, m)
  BY KeysStay DEF shared
<1>3. SideMoves(p, q, KeyOf(p, q), instance[p][q], attached[p][q])
  BY <1>1, <1>2, Procs DEF SideMoves, OnlySideOf, KeyOf
<1>4. ReservedType' /\ AllocatedType' /\ SideTypes'
  BY TypeIs DEF IInv, ReservedType, AllocatedType, SideTypes, shared
<1>5. MemoryInv'
  BY <1>1, <1>2, MemoryKept DEF IInv, OnlySideOf, shared
<1>6. RouteMoves(p, q, attached[p][q], l)
  BY RouteInCall
<1>7. FreshKey(p, q, KeyOf(p, q))
  BY <1>1, Procs, FreshIs DEF IInv, FreshKey, KeyOf, FreshOK
<1> QED BY <1>1, <1>3, <1>4, <1>5, <1>6, <1>7, SideKeeps

LEMMA KeysAre ==
  ASSUME NEW p \in Proc, NEW q \in Proc, p # q
  PROVE  /\ Key(OwnAddr(p, q)) = KeyOf(p, q) /\ Key(PeerAddr(p, q)) = KeyOf(q, p)
         /\ p < q \/ q < p
         /\ p < q => KeyOf(p, q) = KS(p, q) /\ KeyOf(q, p) = KM(p, q) /\ ~(q < p)
         /\ q < p => KeyOf(p, q) = KM(q, p) /\ KeyOf(q, p) = KS(q, p) /\ ~(p < q)
<1>1. CASE p < q
  BY <1>1, Slots, Procs DEF KeyOf, Key
<1>2. CASE q < p
  BY <1>2, Slots, Procs DEF KeyOf, Key
<1> QED BY <1>1, <1>2, Procs

\* What PairInv says of the slave p in a call for q, and of a master.
LEMMA SideNow ==
  ASSUME OneTask, IInv, NEW t \in Task, pc[t] # "idle", NEW p, p = procOf[t], NEW q, q = remote[t]
  PROVE  /\ p \in Proc /\ q \in Proc /\ p # q
         /\ SideOK(p, q, KeyOf(p, q), instance[p][q], attached[p][q], pc[t], step[t])
         /\ pc[t] = Label(p, q)
<1>1. p \in Proc /\ q \in Proc /\ p # q /\ Label(p, q) = pc[t] /\ StepAt(p, q) = step[t]
  BY InCall
<1> QED BY <1>1, SideIs DEF IInv

LEMMA SyncStartMasterKeeps ==
  ASSUME OneTask, IInv, NEW t \in Task, SyncStartMaster(t)
  PROVE  IInv'
<1> DEFINE p == procOf[t]
           q == remote[t]
<1>1. pc[t] = "syncStart" /\ q < p /\ UNCHANGED <<shared, local>>
  BY DEF SyncStartMaster, At
<1>2. /\ p \in Proc /\ q \in Proc /\ p # q /\ state[p] \notin Idle /\ step[t] \in 0..Len(Component)
      /\ SideOK(p, q, KeyOf(p, q), instance[p][q], attached[p][q], pc[t], step[t])
  BY <1>1, InCall, SideNow
<1>3. UNCHANGED <<shared, instance, attached, start, sr0>> /\ StateMoves(p)
  BY <1>1, <1>2, StateStays DEF local
<1>4. CASE Goto(t, "syncWrite") /\ "START" \in {Key(OwnAddr(p, q)), Key(PeerAddr(p, q))}
  <2>1. SideOK(p, q, KeyOf(p, q), instance[p][q], attached[p][q], "syncWrite", step[t])
    BY <1>1, <1>2, <1>4, KeysAre, SMTT(40) DEF SideOK, SlaveOK, MasterOK, StepsOK, Attaching, Detaching
  <2>2. RegionMoves(p, q, attached[p][q], "syncWrite")
    BY <1>1, <1>2, <1>3, InCall, RegionStays DEF Opened
  <2>3. Turns(t, q, "syncWrite", step[t])
    BY <1>1, <1>4, TurnsIs
  <2> QED BY <1>1, <1>2, <1>3, <2>1, <2>2, <2>3, LabelKeeps DEF Labels, Attaching
<1>5. CASE Return(t)
  <2>1. SideOK(p, q, KeyOf(p, q), instance[p][q], attached[p][q], "idle", 0)
    BY <1>1, <1>2, KeysAre DEF SideOK, SlaveOK, MasterOK, StepsOK, Attaching, Detaching
  <2>2. RegionMoves(p, q, attached[p][q], "idle")
    BY <1>1, <1>2, <1>3, InCall, RegionStays DEF Opened
  <2>3. Turns(t, q, "idle", 0)
    BY <1>5, TurnsIs
  <2> QED BY <1>1, <1>2, <1>3, <2>1, <2>2, <2>3, LabelKeeps, Components DEF Labels
<1> QED BY <1>1, <1>4, <1>5 DEF SyncStartMaster

\* A call that gives up, with or without an error.
MayReturn == {"syncStart", "syncRead", "modules", "setup", "user", "teardown", "detachModules"}
LEMMA ReturnOK ==
  ASSUME OneTask, IInv, NEW t \in Task, pc[t] \in MayReturn, NEW p, p = procOf[t], NEW q, q = remote[t]
  PROVE  /\ SideOK(p, q, KeyOf(p, q), instance[p][q], attached[p][q], "idle", 0)
         /\ Opened(attached[p][q], "idle") => Opened(attached[p][q], Label(p, q))
<1>1. pc[t] # "idle"
  BY DEF MayReturn
<1>2. /\ p \in Proc /\ q \in Proc /\ p # q /\ pc[t] = Label(p, q)
      /\ SideOK(p, q, KeyOf(p, q), instance[p][q], attached[p][q], pc[t], step[t])
  BY <1>1, SideNow
<1>3. SideOK(p, q, KeyOf(p, q), instance[p][q], attached[p][q], "idle", 0)
  BY <1>2 DEF SideOK, SlaveOK, MasterOK, StepsOK, Attaching, Detaching, MayReturn
<1> QED BY <1>2, <1>3 DEF Opened, MayReturn

LEMMA ReturnKeeps ==
  ASSUME OneTask, IInv, NEW t \in Task, pc[t] \in MayReturn, NEW p, p = procOf[t], NEW q, q = remote[t],
         UNCHANGED <<shared, sr0, instance, attached>>, StateMoves(p), Turns(t, q, "idle", 0)
  PROVE  IInv'
<1>1. pc[t] # "idle"
  BY DEF MayReturn
<1>2. p \in Proc /\ q \in Proc
  BY <1>1, SideNow
<1>3. RegionMoves(p, q, attached[p][q], "idle")
  BY <1>2, ReturnOK, RegionStays
<1> QED BY <1>1, <1>3, ReturnOK, LabelKeeps, Components DEF Labels

\* A call that goes on to its next label.
LEMMA GoesOn ==
  ASSUME OneTask, IInv, NEW t \in Task, pc[t] # "idle", NEW p, p = procOf[t], NEW q, q = remote[t],
         UNCHANGED <<shared, local>>, NEW l \in Attaching, Goto(t, l),
         SideOK(p, q, KeyOf(p, q), instance[p][q], attached[p][q], l, step[t]),
         Opened(attached[p][q], l) => Opened(attached[p][q], pc[t])
  PROVE  IInv'
<1>1. p \in Proc /\ q \in Proc /\ Label(p, q) = pc[t] /\ state[p] \notin Idle /\ step[t] \in 0..Len(Component)
  BY InCall
<1>2. UNCHANGED <<shared, sr0, instance, attached, start>> /\ StateMoves(p)
  BY <1>1, StateStays DEF local
<1>3. RegionMoves(p, q, attached[p][q], l)
  BY <1>1, <1>2, RegionStays
<1>4. l # "idle" /\ l \in Labels
  BY DEF Attaching, Labels
<1>5. Turns(t, q, l, step[t])
  BY <1>4, TurnsIs
<1> QED BY <1>1, <1>2, <1>3, <1>4, <1>5, LabelKeeps

LEMMA SyncReadKeeps ==
  ASSUME OneTask, IInv, NEW t \in Task, SyncRead(t)
  PROVE  IInv'
<1> DEFINE p == procOf[t]
           q == remote[t]
<1>1. pc[t] = "syncRead" /\ UNCHANGED <<shared, local>>
  BY DEF SyncRead, At
<1>2. /\ p \in Proc /\ q \in Proc /\ p # q /\ state[p] \notin Idle
      /\ SideOK(p, q, KeyOf(p, q), instance[p][q], attached[p][q], pc[t], step[t])
  BY <1>1, InCall, SideNow
<1>3. CASE Key(PeerAddr(p, q)) = Awaited(p, q) /\ Goto(t, "modules")
  <2>1. SideOK(p, q, KeyOf(p, q), instance[p][q], attached[p][q], "modules", step[t])
    BY <1>1, <1>2, <1>3, KeysAre, SMTT(40) DEF SideOK, SlaveOK, MasterOK, StepsOK, Phases, Attaching, Detaching, Awaited
  <2> QED BY <1>1, <1>3, <2>1, GoesOn DEF Attaching, Opened
<1>4. CASE Return(t)
  <2>1. StateMoves(p) /\ Turns(t, q, "idle", 0) /\ UNCHANGED <<shared, sr0, instance, attached>>
    BY <1>1, <1>2, <1>4, StateStays, TurnsIs DEF local
  <2> QED BY <1>1, <2>1, ReturnKeeps DEF MayReturn
<1> QED BY <1>3, <1>4 DEF SyncRead

LEMMA UserAttachKeeps ==
  ASSUME OneTask, IInv, NEW t \in Task, UserAttach(t)
  PROVE  IInv'
<1> DEFINE p == procOf[t]
           q == remote[t]
<1>1. pc[t] = "user"
  BY DEF UserAttach, At
<1>2. CASE Goto(t, "finish") /\ UNCHANGED <<shared, local>>
  <2>1. /\ p # q
        /\ SideOK(p, q, KeyOf(p, q), instance[p][q], attached[p][q], pc[t], step[t])
    BY <1>1, SideNow
  <2>2. SideOK(p, q, KeyOf(p, q), instance[p][q], attached[p][q], "finish", step[t])
    BY <1>1, <2>1 DEF SideOK, SlaveOK, MasterOK, StepsOK, Attaching, Detaching
  <2> QED BY <1>1, <1>2, <2>2, GoesOn DEF Attaching, Opened
<1>3. CASE Fail(t)
  BY <1>1, <1>3, FailedIs, ReturnKeeps DEF Fail, MayReturn
<1> QED BY <1>2, <1>3 DEF UserAttach

LEMMA WaitFinishKeeps ==
  ASSUME OneTask, IInv, NEW t \in Task, WaitFinish(t)
  PROVE  IInv'
<1> DEFINE p == procOf[t]
           q == remote[t]
<1>1. pc[t] = "waitFinish" /\ UNCHANGED <<shared, local>> /\ Goto(t, "count")
      /\ Key(PeerAddr(p, q)) \in {"FINISH", "DETACH"}
  BY DEF WaitFinish, At
<1>2. /\ p \in Proc /\ q \in Proc /\ p # q
      /\ SideOK(p, q, KeyOf(p, q), instance[p][q], attached[p][q], pc[t], step[t])
  BY <1>1, SideNow
<1>3. SideOK(p, q, KeyOf(p, q), instance[p][q], attached[p][q], "count", step[t])
  BY <1>1, <1>2, KeysAre DEF SideOK, SlaveOK, MasterOK, StepsOK, Attaching, Detaching
<1> QED BY <1>1, <1>3, GoesOn DEF Attaching, Opened

LEMMA AttachModulesKeeps ==
  ASSUME OneTask, IInv, NEW t \in Task, AttachModules(t)
  PROVE  IInv'
<1> DEFINE p == procOf[t]
           q == remote[t]
<1>1. pc[t] = "modules"
  BY DEF AttachModules, At
<1>2. /\ p \in Proc /\ q \in Proc /\ p # q /\ state[p] \notin Idle
      /\ SideOK(p, q, KeyOf(p, q), instance[p][q], attached[p][q], pc[t], step[t])
  BY <1>1, InCall, SideNow
<1>3. CASE /\ sr0' = IF q = owner THEN sr0 \cup {p} ELSE sr0
           /\ GotoStep(t, "setup", 1)
           /\ UNCHANGED <<shared, start, instance, attached>>
  <2>1. SideOK(p, q, KeyOf(p, q), instance[p][q], attached[p][q], "setup", 1)
    BY <1>1, <1>2, Components, SMTT(40) DEF SideOK, SlaveOK, MasterOK, StepsOK, Attaching, Detaching
  <2>2. RegionMoves(p, q, attached[p][q], "setup")
    <3>1. sr0 \subseteq Proc /\ (p = owner => p \in sr0)
      BY <1>2, TypeIs, RegionIs DEF IInv
    <3> QED BY <1>2, <1>3, <3>1 DEF RegionMoves, OnlyRegionOf
  <2>3. Turns(t, q, "setup", 1) /\ StateMoves(p)
    BY <1>1, <1>2, <1>3, TurnsIs, StateStays
  <2>4. "setup" \in Labels /\ 1 \in 0..Len(Component) /\ "setup" # "idle"
    BY Components DEF Labels, Attaching
  <2>5. pc[t] # "idle" /\ UNCHANGED <<shared, instance, attached>>
    BY <1>1, <1>3
  <2> QED BY <2>1, <2>2, <2>3, <2>4, <2>5, LabelKeeps
<1>4. CASE Fail(t)
  BY <1>1, <1>4, FailedIs, ReturnKeeps DEF Fail, MayReturn
<1> QED BY <1>3, <1>4 DEF AttachModules

-----------------------------------------------------------------------------
\* A step that writes the key of the caller.
LEMMA KeyKeeps ==
  ASSUME OneTask, IInv, NEW t \in Task, pc[t] # "idle", NEW p, p = procOf[t], NEW q, q = remote[t],
         NEW k \in Keys, SetKey(OwnAddr(p, q), k), UNCHANGED <<allocated, start, instance, attached>>,
         NEW l \in Labels, l # "idle", NEW n \in 0..Len(Component), Turns(t, q, l, n),
         SideOK(p, q, k, instance[p][q], attached[p][q], l, n),
         RegionMoves(p, q, attached[p][q], l), FreshKey(p, q, k)
  PROVE  IInv'
<1>1. p \in Proc /\ q \in Proc /\ p # q /\ state[p] \notin Idle
  BY InCall
<1>2. ReservedType
  BY TypeIs DEF IInv
<1>3. /\ ReservedType' /\ OnlyKeyOf(p, q) /\ PtrsStay
      /\ p < q => KS(p, q)' = k
      /\ q < p => KM(q, p)' = k
  BY <1>1, <1>2, SetKeyIs
<1>4. SideMoves(p, q, k, instance[p][q], attached[p][q])
  BY <1>3 DEF SideMoves, OnlySideOf
<1>5. AllocatedType' /\ SideTypes'
  BY TypeIs DEF IInv, AllocatedType, SideTypes
<1>6. MemoryInv'
  BY <1>1, <1>3, MemoryKept DEF IInv, OnlySideOf
<1>7. RouteMoves(p, q, attached[p][q], l) /\ StateMoves(p)
  BY <1>1, RouteInCall, StateStays
<1> QED BY <1>1, <1>3, <1>4, <1>5, <1>6, <1>7, SideKeeps

\* While the owner of region 0 has not started, no task is past the slave's
\* part of procSyncStart.
LEMMA OwnerStarted ==
  ASSUME OneTask, IInv, NEW t \in Task, pc[t] # "idle", NEW p, p = procOf[t], NEW q, q = remote[t],
         state[owner] = "stopped"
  PROVE  /\ p < q => KS(p, q) \in {"none", "START"} /\ KM(p, q) = "none"
         /\ q < p => KM(q, p) = "none" /\ KS(q, p) = "none"
<1>1. /\ p \in Proc /\ q \in Proc /\ p # q /\ state[p] \notin Idle /\ owner \in Proc
      /\ Label(p, q) # "idle"
  BY InCall, Procs
<1>2. p # owner
  BY <1>1 DEF Idle
<1>3. \A s, m \in Proc : s < m => FreshOK(s, m)
  BY FreshIs DEF IInv
<1>4. ASSUME q # owner PROVE FALSE
  <2>1. attached[p][owner] > 0 /\ Label(p, owner) \notin Detaching
    BY <1>1, <1>2, <1>4 DEF IInv, RouteInv
  <2>2. SideOK(p, owner, KeyOf(p, owner), instance[p][owner], attached[p][owner], Label(p, owner), StepAt(p, owner))
    BY <1>1, <1>2, SideIs DEF IInv
  <2>3. CASE p < owner
    <3>1. KS(p, owner) = "FINISH"
      BY <1>1, <1>2, <2>1, <2>2, <2>3, KeysAre DEF SideOK, SlaveOK, Detaching
    <3> QED BY <1>1, <1>3, <2>3, <3>1 DEF FreshOK
  <2>4. CASE owner < p
    <3>1. KM(owner, p) = "FINISH"
      BY <1>1, <1>2, <2>1, <2>2, <2>4, KeysAre DEF SideOK, MasterOK, Detaching
    <3> QED BY <1>1, <1>3, <2>4, <3>1 DEF FreshOK
  <2> QED BY <1>1, <1>2, <2>3, <2>4, Procs
<1>5. q = owner
  BY <1>4
<1> QED BY <1>1, <1>3, <1>5 DEF FreshOK

LEMMA SyncStartSlaveKeeps ==
  ASSUME OneTask, IInv, NEW t \in Task, SyncStartSlave(t)
  PROVE  IInv'
<1> DEFINE p == procOf[t]
           q == remote[t]
<1>1. /\ pc[t] = "syncStart" /\ p < q /\ SetKey(OwnAddr(p, q), "START") /\ Goto(t, "syncRead")
      /\ UNCHANGED <<allocated, local>>
  BY DEF SyncStartSlave, At
<1>2. /\ p \in Proc /\ q \in Proc /\ p # q /\ step[t] \in 0..Len(Component) /\ Label(p, q) = pc[t]
      /\ SideOK(p, q, KeyOf(p, q), instance[p][q], attached[p][q], pc[t], step[t])
  BY <1>1, InCall, SideNow
<1>3. SideOK(p, q, "START", instance[p][q], attached[p][q], "syncRead", step[t])
  BY <1>1, <1>2, KeysAre, SMTT(40) DEF SideOK, SlaveOK, MasterOK, StepsOK, Phases, Attaching, Detaching
<1>4. RegionMoves(p, q, attached[p][q], "syncRead")
  BY <1>1, <1>2, RegionStays DEF Opened, local
<1>5. FreshKey(p, q, "START")
  BY <1>1, <1>2, KeysAre DEF FreshKey
<1>6. Turns(t, q, "syncRead", step[t]) /\ "syncRead" \in Labels /\ "START" \in Keys
  BY <1>1, TurnsIs DEF Labels, Attaching, Keys
<1> QED BY <1>1, <1>2, <1>3, <1>4, <1>5, <1>6, KeyKeeps DEF local

LEMMA SyncWriteKeeps ==
  ASSUME OneTask, IInv, NEW t \in Task, SyncWrite(t)
  PROVE  IInv'
<1> DEFINE p == procOf[t]
           q == remote[t]
<1>1. /\ pc[t] = "syncWrite" /\ SetKey(OwnAddr(p, q), "START") /\ Goto(t, "syncRead")
      /\ UNCHANGED <<allocated, local>>
  BY DEF SyncWrite, At
<1>2. /\ p \in Proc /\ q \in Proc /\ p # q /\ step[t] \in 0..Len(Component) /\ Label(p, q) = pc[t]
      /\ SideOK(p, q, KeyOf(p, q), instance[p][q], attached[p][q], pc[t], step[t])
  BY <1>1, InCall, SideNow
<1>3. SideOK(p, q, "START", instance[p][q], attached[p][q], "syncRead", step[t])
  BY <1>1, <1>2, KeysAre, SMTT(40) DEF SideOK, SlaveOK, MasterOK, StepsOK, Phases, Attaching, Detaching
<1>4. RegionMoves(p, q, attached[p][q], "syncRead")
  BY <1>1, <1>2, RegionStays DEF Opened, local
<1>5. FreshKey(p, q, "START")
  <2>1. q < p /\ "START" \in {KS(q, p), KM(q, p)}
    BY <1>1, <1>2, KeysAre DEF SideOK, SlaveOK, MasterOK
  <2>2. ~(p < q)
    BY <1>2, <2>1, KeysAre
  <2>3. state[owner] # "stopped"
    BY <1>1, <2>1, OwnerStarted
  <2> QED BY <2>3 DEF FreshKey
<1>6. Turns(t, q, "syncRead", step[t]) /\ "syncRead" \in Labels /\ "START" \in Keys
  BY <1>1, TurnsIs DEF Labels, Attaching, Keys
<1> QED BY <1>1, <1>2, <1>3, <1>4, <1>5, <1>6, KeyKeeps DEF local

LEMMA SyncFinishKeeps ==
  ASSUME OneTask, IInv, NEW t \in Task, SyncFinish(t)
  PROVE  IInv'
<1> DEFINE p == procOf[t]
           q == remote[t]
           l == IF p < q THEN "waitFinish" ELSE "count"
<1>1. /\ pc[t] = "finish" /\ SetKey(OwnAddr(p, q), "FINISH") /\ Goto(t, l)
      /\ UNCHANGED <<allocated, local>>
  BY DEF SyncFinish, At
<1>2. /\ p \in Proc /\ q \in Proc /\ p # q /\ step[t] \in 0..Len(Component) /\ Label(p, q) = pc[t]
      /\ SideOK(p, q, KeyOf(p, q), instance[p][q], attached[p][q], pc[t], step[t])
  BY <1>1, InCall, SideNow
<1>3. SideOK(p, q, "FINISH", instance[p][q], attached[p][q], l, step[t])
  <2>1. CASE p < q
    BY <1>1, <1>2, <2>1, KeysAre DEF SideOK, SlaveOK, MasterOK, StepsOK, Phases, Attaching, Detaching
  <2>2. CASE q < p
    BY <1>1, <1>2, <2>2, KeysAre DEF SideOK, SlaveOK, MasterOK, StepsOK, Phases, Attaching, Detaching
  <2> QED BY <1>2, <2>1, <2>2, KeysAre
<1>4. RegionMoves(p, q, attached[p][q], l)
  BY <1>1, <1>2, RegionStays DEF Opened, local
<1>5. FreshKey(p, q, "FINISH")
  <2>1. state[owner] # "stopped"
    BY <1>1, <1>2, KeysAre, OwnerStarted DEF SideOK, SlaveOK, MasterOK
  <2> QED BY <2>1 DEF FreshKey
<1>6. Turns(t, q, l, step[t]) /\ l \in Labels /\ "FINISH" \in Keys /\ l # "idle"
  BY <1>1, TurnsIs DEF Labels, Attaching, Keys
<1> HIDE DEF l
<1> QED BY <1>1, <1>2, <1>3, <1>4, <1>5, <1>6, KeyKeeps DEF local

LEMMA DetachModulesKeeps ==
  ASSUME OneTask, IInv, NEW t \in Task, DetachModules(t)
  PROVE  IInv'
<1> DEFINE p == procOf[t]
           q == remote[t]
<1>1. pc[t] = "detachModules" /\ UNCHANGED <<allocated, start, instance, attached>>
  BY DEF DetachModules, At
<1>2. /\ p \in Proc /\ q \in Proc /\ p # q /\ step[t] \in 0..Len(Component) /\ Label(p, q) = pc[t]
      /\ SideOK(p, q, KeyOf(p, q), instance[p][q], attached[p][q], pc[t], step[t])
      /\ state[p] \notin Idle
  BY <1>1, InCall, SideNow
<1>3. CASE /\ sr0' = IF q = owner THEN sr0 \ {p} ELSE sr0
           /\ SetKey(OwnAddr(p, q), "DETACH")
           /\ Goto(t, "uncount")
  <2>1. SideOK(p, q, "DETACH", instance[p][q], attached[p][q], "uncount", step[t])
    BY <1>1, <1>2, KeysAre, SMTT(40) DEF SideOK, SlaveOK, MasterOK, StepsOK, Phases, Attaching, Detaching
  <2>2. RegionMoves(p, q, attached[p][q], "uncount")
    <3>1. sr0 \subseteq Proc /\ ~Opened(attached[p][q], "uncount")
      BY TypeIs DEF IInv, Opened
    <3> QED BY <1>2, <1>3, <3>1 DEF RegionMoves, OnlyRegionOf
  <2>3. FreshKey(p, q, "DETACH")
    <3>1. state[owner] # "stopped"
      BY <1>1, <1>2, KeysAre, OwnerStarted DEF SideOK, SlaveOK, MasterOK, Detaching
    <3> QED BY <3>1 DEF FreshKey
  <2>4. Turns(t, q, "uncount", step[t]) /\ "uncount" \in Labels /\ "DETACH" \in Keys
    BY <1>1, <1>3, TurnsIs DEF Labels, Detaching, Keys
  <2> QED BY <1>1, <1>2, <1>3, <2>1, <2>2, <2>3, <2>4, KeyKeeps
<1>4. CASE Return(t) /\ UNCHANGED <<reserved, sr0>>
  <2>1. StateMoves(p) /\ Turns(t, q, "idle", 0) /\ UNCHANGED <<shared, sr0, instance, attached>>
    BY <1>1, <1>2, <1>4, StateStays, TurnsIs DEF shared
  <2> QED BY <1>1, <2>1, ReturnKeeps DEF MayReturn
<1> QED BY <1>3, <1>4 DEF DetachModules

-----------------------------------------------------------------------------
\* The slave stores an address in its slot, or takes it back.
KeysUnchanged == \A s, m \in Proc : s < m => KS(s, m)' = KS(s, m) /\ KM(s, m)' = KM(s, m)
SetPtr(s, m, c, v) ==
  reserved' = [reserved EXCEPT ![SlaveAddr(s, m)[1]][SlaveAddr(s, m)[2]].ptr[c] = v]

LEMMA PtrType ==
  ASSUME ReservedType, NEW s \in Proc, NEW m \in Proc, s < m
  PROVE  PtrOf(s, m) \in [Comps -> {"invalid", "block"}]
<1>1. m - 1 \in Proc /\ PtrOf(s, m) = reserved[s][m - 1].ptr
  BY Slots
<1>2. reserved[s][m - 1] \in [startedKey : Keys, ptr : [Comps -> {"invalid", "block"}]]
  BY <1>1 DEF ReservedType
<1> QED BY <1>1, <1>2

LEMMA SetPtrIs ==
  ASSUME ReservedType, NEW s \in Proc, NEW m \in Proc, s < m, NEW c \in Comps,
         NEW v \in {"invalid", "block"}, SetPtr(s, m, c, v)
  PROVE  /\ ReservedType' /\ KeysUnchanged
         /\ PtrOf(s, m)' = [PtrOf(s, m) EXCEPT ![c] = v]
         /\ \A x, y \in Proc : x < y /\ ~(x = s /\ y = m) => PtrOf(x, y)' = PtrOf(x, y)
<1> DEFINE R == [startedKey : Keys, ptr : [Comps -> {"invalid", "block"}]]
           b == m - 1
           new == [reserved[s][b] EXCEPT !.ptr[c] = v]
<1>1. b \in Proc /\ SlaveAddr(s, m) = <<s, b>>
  BY Slots
<1>2. reserved \in [Proc -> [Proc -> R]]
  BY DEF ReservedType
<1>3. reserved[s][b] \in R
  BY <1>1, <1>2
<1>4. new \in R /\ new.startedKey = reserved[s][b].startedKey /\ new.ptr = [reserved[s][b].ptr EXCEPT ![c] = v]
  BY <1>3
<1>5. reserved' = [reserved EXCEPT ![s][b] = new]
  BY <1>1, <1>2 DEF SetPtr
<1> HIDE DEF R, new, b
<1>6. reserved' \in [Proc -> [Proc -> R]]
  BY <1>1, <1>2, <1>4, <1>5
<1>7. /\ reserved'[s][b] = new
      /\ \A x, y \in Proc : ~(x = s /\ y = b) => reserved'[x][y] = reserved[x][y]
  BY <1>1, <1>2, <1>5
<1>8. ReservedType'
  BY <1>6 DEF ReservedType, R
<1>9. ASSUME NEW x \in Proc, NEW y \in Proc, x < y
      PROVE  /\ KS(x, y)' = KS(x, y) /\ KM(x, y)' = KM(x, y)
             /\ ~(x = s /\ y = m) => PtrOf(x, y)' = PtrOf(x, y)
             /\ x = s /\ y = m => PtrOf(s, m)' = [PtrOf(s, m) EXCEPT ![c] = v]
  <2>1. y - 1 \in Proc /\ x <= y - 1 /\ x \in Int /\ y \in Int /\ s \in Int /\ m \in Int
    BY <1>9, Slots, Procs
  <2>2. ~(y = s /\ x = b)
    BY <1>9, <2>1 DEF b
  <2>3. (y - 1 = b <=> y = m) /\ b = m - 1
    BY <2>1 DEF b
  <2>4. reserved'[y][x] = reserved[y][x]
    BY <1>7, <2>2
  <2>5. CASE x = s /\ y = m
    BY <1>4, <1>7, <1>9, <2>3, <2>4, <2>5, Slots, SlotsNext
  <2>6. CASE ~(x = s /\ y = m)
    <3>1. reserved'[x][y - 1] = reserved[x][y - 1]
      BY <1>7, <2>1, <2>3, <2>6
    <3> QED BY <1>9, <2>4, <2>6, <3>1, Slots, SlotsNext
  <2> QED BY <2>5, <2>6
<1> QED BY <1>8, <1>9 DEF KeysUnchanged

\* One block and the instance of the slave that goes with it: v is their number
\* after the step.
LEMMA BlockMoves ==
  ASSUME MemoryInv, ReservedType, AllocatedType, NEW s \in Proc, NEW m \in Proc, s < m, NEW c \in Comps,
         NEW v \in {0, 1}, allocated' = [allocated EXCEPT ![s][m][c] = v],
         SetPtr(s, m, c, IF v = 1 THEN "block" ELSE "invalid"), OnlySideOf(s, m),
         instance'[s][m] = IF v = 1 THEN instance[s][m] \cup {c} ELSE instance[s][m] \ {c}
  PROVE  ReservedType' /\ KeysUnchanged /\ AllocatedType' /\ MemoryInv'
<1> DEFINE w == IF v = 1 THEN "block" ELSE "invalid"
<1>1. w \in {"invalid", "block"} /\ SetPtr(s, m, c, w)
  OBVIOUS
<1> HIDE DEF w
<1>2. /\ ReservedType' /\ KeysUnchanged
      /\ PtrOf(s, m)' = [PtrOf(s, m) EXCEPT ![c] = w]
      /\ \A x, y \in Proc : x < y /\ ~(x = s /\ y = m) => PtrOf(x, y)' = PtrOf(x, y)
  BY <1>1, SetPtrIs
<1>3. AllocatedType'
  BY DEF AllocatedType
<1>4. /\ allocated'[s][m] = [allocated[s][m] EXCEPT ![c] = v]
      /\ \A x, y \in Proc : ~(x = s /\ y = m) => allocated'[x][y] = allocated[x][y]
  BY DEF AllocatedType
<1>5. PtrOf(s, m) \in [Comps -> {"invalid", "block"}]
  BY PtrType
<1>6. ASSUME NEW x \in Proc, NEW y \in Proc PROVE MemoryOK(x, y)'
  <2>1. MemoryOK(x, y)
    BY MemoryIs
  <2>2. CASE x = s /\ y = m
    <3>1. allocated[s][m] \in [Comps -> Nat]
      BY DEF AllocatedType
    <3>2. \A d \in Comps : /\ allocated'[s][m][d] = IF d = c THEN v ELSE allocated[s][m][d]
                           /\ PtrOf(s, m)'[d] = IF d = c THEN w ELSE PtrOf(s, m)[d]
                           /\ d \in instance'[s][m] <=> IF d = c THEN v = 1 ELSE d \in instance[s][m]
      BY <1>2, <1>4, <1>5, <3>1
    <3> QED BY <2>1, <2>2, <3>2 DEF MemoryOK, w
  <2>3. CASE ~(x = s /\ y = m)
    BY <1>2, <1>4, <2>1, <2>3 DEF MemoryOK, OnlySideOf
  <2> QED BY <2>2, <2>3
<1> QED BY <1>2, <1>3, <1>6, MemoryIs

\* The loops over the components: up in Ipc_attach, down in Ipc_detach.
LEMMA SetupSteps ==
  ASSUME NEW I \in SUBSET Comps, NEW n \in DOMAIN Component, StepsOK(I, "setup", n)
  PROVE  LET J == I \cup {Component[n]} IN
         /\ J \in SUBSET Comps
         /\ n # Len(Component) => n + 1 \in 0..Len(Component) /\ StepsOK(J, "setup", n + 1)
         /\ n = Len(Component) => J = Comps
<1> DEFINE J == I \cup {Component[n]}
<1>1. /\ Len(Component) \in Nat \ {0} /\ DOMAIN Component = 1..Len(Component)
      /\ \A c : c \in Comps <=> \E j \in DOMAIN Component : c = Component[j]
  BY Components
<1>2. J \in SUBSET Comps
  BY <1>1
<1>3. \A j \in 1..n : Component[j] \in J
  <2>1. \A j \in 1..(n - 1) : Component[j] \in I
    BY DEF StepsOK
  <2> QED BY <1>1, <2>1
<1>4. ASSUME n # Len(Component)
      PROVE  n + 1 \in 0..Len(Component) /\ StepsOK(J, "setup", n + 1)
  <2>1. n + 1 \in DOMAIN Component /\ (n + 1) - 1 = n
    BY <1>1, <1>4
  <2> HIDE DEF J
  <2> QED BY <1>1, <1>3, <2>1 DEF StepsOK
<1>5. n = Len(Component) => J = Comps
  BY <1>1, <1>2, <1>3
<1> QED BY <1>2, <1>4, <1>5

LEMMA TeardownSteps ==
  ASSUME NEW I \in SUBSET Comps, NEW n \in DOMAIN Component, StepsOK(I, "teardown", n)
  PROVE  LET J == I \ {Component[n]} IN
         /\ J \in SUBSET Comps /\ n - 1 \in 0..Len(Component)
         /\ n # 1 => StepsOK(J, "teardown", n - 1)
         /\ n = 1 => J = {}
<1> DEFINE J == I \ {Component[n]}
<1>1. /\ Len(Component) \in Nat \ {0} /\ DOMAIN Component = 1..Len(Component)
      /\ \A c : c \in Comps <=> \E j \in DOMAIN Component : c = Component[j]
  BY Components
<1>2. \A j \in DOMAIN Component : j > n => Component[j] \notin I
  BY DEF StepsOK
<1>3. \A j \in DOMAIN Component : j >= n => Component[j] \notin J
  BY <1>1, <1>2
<1>4. J \in SUBSET Comps /\ n - 1 \in 0..Len(Component)
  BY <1>1
<1>5. ASSUME n # 1 PROVE StepsOK(J, "teardown", n - 1)
  <2>1. n - 1 \in DOMAIN Component /\ \A j \in DOMAIN Component : j > n - 1 => j >= n
    BY <1>1, <1>5
  <2> HIDE DEF J
  <2> QED BY <1>3, <2>1 DEF StepsOK
<1>6. ASSUME n = 1 PROVE J = {}
  BY <1>1, <1>3, <1>4, <1>6
<1> QED BY <1>4, <1>5, <1>6

\* A step that changes the instances of the caller, and with them its memory.
LEMMA InstanceKeeps ==
  ASSUME OneTask, IInv, NEW t \in Task, pc[t] # "idle", NEW p, p = procOf[t], NEW q, q = remote[t],
         NEW I \in SUBSET Comps, instance' = [instance EXCEPT ![p][q] = I], UNCHANGED <<start, sr0, attached>>,
         ReservedType', AllocatedType', KeysUnchanged, MemoryInv',
         NEW l \in Labels, l # "idle", NEW n \in 0..Len(Component), Turns(t, q, l, n),
         SideOK(p, q, KeyOf(p, q), I, attached[p][q], l, n), Opened(attached[p][q], l) => Opened(attached[p][q], pc[t])
  PROVE  IInv'
<1>1. p \in Proc /\ q \in Proc /\ p # q /\ state[p] \notin Idle /\ Label(p, q) = pc[t]
  BY InCall
<1>2. SideTypes /\ instance'[p][q] = I /\ OnlySideOf(p, q)
  BY <1>1, TypeIs DEF IInv, SideTypes, OnlySideOf
<1>3. SideTypes'
  BY <1>1, <1>2 DEF SideTypes
<1>4. SideMoves(p, q, KeyOf(p, q), I, attached[p][q])
  BY <1>1, <1>2, KeysAre DEF SideMoves, KeysUnchanged, OnlyKeyOf
<1>5. RegionMoves(p, q, attached[p][q], l)
  BY <1>1, RegionStays
<1>6. RouteMoves(p, q, attached[p][q], l) /\ StateMoves(p)
  BY <1>1, RouteInCall, StateStays
<1>7. FreshKey(p, q, KeyOf(p, q))
  BY <1>1, KeysAre, FreshIs DEF IInv, FreshKey, FreshOK
<1> QED BY <1>1, <1>3, <1>4, <1>5, <1>6, <1>7, SideKeeps

LEMMA SetupKeeps ==
  ASSUME OneTask, IInv, NEW t \in Task, Setup(t)
  PROVE  IInv'
<1> DEFINE p == procOf[t]
           q == remote[t]
           c == Component[step[t]]
           J == instance[p][q] \cup {c}
           l == IF step[t] = Len(Component) THEN "user" ELSE "setup"
           n == IF step[t] = Len(Component) THEN 0 ELSE step[t] + 1
<1>1. /\ pc[t] = "setup" /\ GotoStep(t, l, n)
      /\ instance' = [instance EXCEPT ![p][q] = J] /\ UNCHANGED <<start, sr0, attached>>
  BY DEF Setup, At
<1>2. /\ p \in Proc /\ q \in Proc /\ p # q /\ Label(p, q) = pc[t]
      /\ SideOK(p, q, KeyOf(p, q), instance[p][q], attached[p][q], pc[t], step[t])
  BY <1>1, InCall, SideNow
<1>3. StepsOK(instance[p][q], "setup", step[t])
  BY <1>1, <1>2, KeysAre DEF SideOK, SlaveOK, MasterOK
<1>4. step[t] \in DOMAIN Component /\ instance[p][q] \in SUBSET Comps /\ c \in Comps
      /\ step[t] \in Nat
  <2>1. step[t] \in DOMAIN Component
    BY <1>3 DEF StepsOK
  <2>2. SideTypes
    BY TypeIs DEF IInv
  <2>3. instance[p][q] \in SUBSET Comps
    BY <1>2, <2>2 DEF SideTypes
  <2> QED BY <2>1, <2>3, Components
<1>5. /\ J \in SUBSET Comps /\ n \in 0..Len(Component) /\ StepsOK(J, l, n)
      /\ l = "user" => J = Comps
  <2>1. CASE step[t] = Len(Component)
    <3>1. J = Comps
      BY <1>3, <1>4, <2>1, SetupSteps
    <3>2. StepsOK(J, "user", 0)
      BY <3>1 DEF StepsOK
    <3> QED BY <2>1, <3>1, <3>2, Components
  <2>2. CASE step[t] # Len(Component)
    BY <1>3, <1>4, <2>2, SetupSteps
  <2> QED BY <2>1, <2>2
<1>6. l \in {"user", "setup"}
  OBVIOUS
<1> HIDE DEF n, l
<1>7. SideOK(p, q, KeyOf(p, q), J, attached[p][q], l, n)
  <2>1. CASE p < q
    BY <1>1, <1>2, <1>5, <1>6, <2>1, KeysAre DEF SideOK, SlaveOK, MasterOK, Attaching, Detaching
  <2>2. CASE q < p
    BY <1>1, <1>2, <1>5, <1>6, <2>2, KeysAre DEF SideOK, SlaveOK, MasterOK, Attaching, Detaching
  <2> QED BY <1>2, <2>1, <2>2, KeysAre
<1>8. ReservedType' /\ AllocatedType' /\ KeysUnchanged /\ MemoryInv'
  <2>1. OnlySideOf(p, q) /\ instance'[p][q] = J
    BY <1>1, <1>2, TypeIs DEF IInv, SideTypes, OnlySideOf
  <2>2. MemoryInv /\ ReservedType /\ AllocatedType
    BY TypeIs DEF IInv
  <2>3. CASE p < q /\ c \notin instance[p][q]
    <3>1. allocated[p][q][c] = 0
      BY <1>2, <1>4, <2>2, <2>3 DEF MemoryInv
    <3>2. allocated' = [allocated EXCEPT ![p][q][c] = allocated[p][q][c] + 1]
      BY <2>3 DEF Setup
    <3>3. allocated' = [allocated EXCEPT ![p][q][c] = 1]
      BY <3>1, <3>2
    <3>4. SetPtr(p, q, c, "block")
      BY <2>3 DEF Setup, SetPtr
    <3> HIDE DEF c
    <3> QED BY <1>2, <1>4, <2>1, <2>2, <2>3, <3>3, <3>4, BlockMoves
  <2>4. CASE ~(p < q /\ c \notin instance[p][q])
    <3>1. UNCHANGED shared /\ (p < q => instance'[p][q] = instance[p][q])
      BY <2>1, <2>4 DEF Setup
    <3>2. PtrsStay /\ KeysUnchanged
      BY <1>2, <3>1, KeysStay DEF KeysUnchanged, shared
    <3>3. MemoryInv'
      BY <1>2, <2>1, <2>2, <3>1, <3>2, MemoryKept DEF shared
    <3> QED BY <2>2, <3>1, <3>2, <3>3 DEF shared, ReservedType, AllocatedType
  <2> QED BY <2>3, <2>4
<1>9. Turns(t, q, l, n) /\ l \in Labels /\ l # "idle" /\ pc[t] # "idle"
  BY <1>1, <1>6, TurnsIs DEF Labels, Attaching
<1>10. Opened(attached[p][q], l) => Opened(attached[p][q], pc[t])
  BY <1>1 DEF Opened
<1> HIDE DEF J
<1> QED BY <1>1, <1>5, <1>7, <1>8, <1>9, <1>10, InstanceKeeps

LEMMA SetupFailsKeeps ==
  ASSUME OneTask, IInv, NEW t \in Task, SetupFails(t), NEW p, p = procOf[t], NEW q, q = remote[t],
         NEW c, c = Component[step[t]]
  PROVE  IInv'
<1>1. pc[t] = "setup" /\ c \notin instance[p][q] /\ Failed(t) /\ UNCHANGED <<allocated, sr0, instance, attached>>
  BY DEF SetupFails, At
<1>2. /\ p \in Proc /\ q \in Proc /\ p # q /\ Label(p, q) = pc[t] /\ state[p] \notin Idle
      /\ SideOK(p, q, KeyOf(p, q), instance[p][q], attached[p][q], pc[t], step[t])
  BY <1>1, InCall, SideNow
<1>3. c \in Comps
  BY <1>1, <1>2, KeysAre, Components DEF SideOK, SlaveOK, MasterOK, StepsOK
<1>4. StateMoves(p) /\ Turns(t, q, "idle", 0)
  BY <1>1, FailedIs
<1>5. CASE p < q /\ SetPtr(p, q, c, "block")
  <2>1. /\ ReservedType' /\ KeysUnchanged
        /\ \A d \in Comps \ {c} : PtrOf(p, q)'[d] = PtrOf(p, q)[d]
        /\ \A x, y \in Proc : x < y /\ ~(x = p /\ y = q) => PtrOf(x, y)' = PtrOf(x, y)
    <3>1. ReservedType
      BY TypeIs DEF IInv
    <3>2. /\ ReservedType' /\ KeysUnchanged /\ PtrOf(p, q)' = [PtrOf(p, q) EXCEPT ![c] = "block"]
          /\ \A x, y \in Proc : x < y /\ ~(x = p /\ y = q) => PtrOf(x, y)' = PtrOf(x, y)
      BY <1>2, <1>3, <1>5, <3>1, SetPtrIs
    <3>3. PtrOf(p, q) \in [Comps -> {"invalid", "block"}]
      BY <1>2, <1>5, <3>1, PtrType
    <3> QED BY <3>2, <3>3
  <2>2. AllocatedType' /\ SideTypes'
    BY <1>1, TypeIs DEF IInv, AllocatedType, SideTypes
  <2>3. MemoryInv'
    <3> SUFFICES ASSUME NEW x \in Proc, NEW y \in Proc PROVE MemoryOK(x, y)'
      BY MemoryIs
    <3>1. MemoryOK(x, y)
      BY MemoryIs DEF IInv
    <3>2. CASE x = p /\ y = q
      BY <1>1, <2>1, <3>1, <3>2 DEF MemoryOK
    <3>3. CASE ~(x = p /\ y = q)
      BY <1>1, <2>1, <3>1, <3>3 DEF MemoryOK
    <3> QED BY <3>2, <3>3
  <2>4. SideMoves(p, q, KeyOf(p, q), instance[p][q], attached[p][q])
    BY <1>1, <1>2, <2>1, KeysAre DEF SideMoves, KeysUnchanged, OnlyKeyOf, OnlySideOf
  <2>5. /\ RegionMoves(p, q, attached[p][q], "idle")
        /\ SideOK(p, q, KeyOf(p, q), instance[p][q], attached[p][q], "idle", 0)
    BY <1>1, <1>2, ReturnOK, RegionStays DEF MayReturn
  <2>6. RouteMoves(p, q, attached[p][q], "idle")
    BY <1>1, RouteInCall
  <2>7. FreshKey(p, q, KeyOf(p, q))
    BY <1>2, KeysAre, FreshIs DEF IInv, FreshKey, FreshOK
  <2>8. "idle" \in Labels /\ 0 \in 0..Len(Component)
    BY Components DEF Labels
  <2> QED BY <1>2, <1>4, <2>1, <2>2, <2>3, <2>4, <2>5, <2>6, <2>7, <2>8, SideKeeps
<1>6. CASE UNCHANGED reserved
  BY <1>1, <1>4, <1>6, ReturnKeeps DEF MayReturn, shared
<1> QED BY <1>5, <1>6 DEF SetupFails, SetPtr

LEMMA TeardownKeeps ==
  ASSUME OneTask, IInv, NEW t \in Task, Teardown(t)
  PROVE  IInv'
<1> DEFINE p == procOf[t]
           q == remote[t]
           c == Component[step[t]]
           J == instance[p][q] \ {c}
           l == IF step[t] = 1 THEN "detachModules" ELSE "teardown"
           n == step[t] - 1
<1>1. pc[t] = "teardown" /\ UNCHANGED <<start, sr0, attached>>
  BY DEF Teardown, At
<1>2. /\ p \in Proc /\ q \in Proc /\ p # q /\ Label(p, q) = pc[t] /\ state[p] \notin Idle
      /\ SideOK(p, q, KeyOf(p, q), instance[p][q], attached[p][q], pc[t], step[t])
  BY <1>1, InCall, SideNow
<1>3. CASE Return(t) /\ UNCHANGED <<shared, instance>>
  <2>1. StateMoves(p) /\ Turns(t, q, "idle", 0)
    BY <1>1, <1>2, <1>3, StateStays, TurnsIs
  <2> QED BY <1>1, <1>3, <2>1, ReturnKeeps DEF MayReturn
<1>4. CASE /\ instance' = [instance EXCEPT ![p][q] = J]
           /\ IF Freed(p, q, c)
              THEN /\ allocated' = [allocated EXCEPT ![Slave(p, q)][Master(p, q)][c] = @ - 1]
                   /\ SetPtr(p, q, c, "invalid")
              ELSE UNCHANGED shared
           /\ GotoStep(t, l, n)
  <2>1. StepsOK(instance[p][q], "teardown", step[t])
    BY <1>1, <1>2, KeysAre DEF SideOK, SlaveOK, MasterOK
  <2>2. step[t] \in DOMAIN Component /\ instance[p][q] \in SUBSET Comps /\ c \in Comps
    <3>1. step[t] \in DOMAIN Component
      BY <2>1 DEF StepsOK
    <3>2. SideTypes
      BY TypeIs DEF IInv
    <3>3. instance[p][q] \in SUBSET Comps
      BY <1>2, <3>2 DEF SideTypes
    <3> QED BY <3>1, <3>3, Components
  <2>3. /\ J \in SUBSET Comps /\ n \in 0..Len(Component) /\ StepsOK(J, l, n)
        /\ l = "detachModules" => J = {}
    <3>1. CASE step[t] = 1
      <4>1. J = {} /\ n \in 0..Len(Component)
        BY <2>1, <2>2, <3>1, TeardownSteps
      <4>2. StepsOK(J, "detachModules", n)
        BY <4>1 DEF StepsOK
      <4> QED BY <3>1, <4>1, <4>2
    <3>2. CASE step[t] # 1
      BY <2>1, <2>2, <3>2, TeardownSteps
    <3> QED BY <3>1, <3>2
  <2>4. l \in {"detachModules", "teardown"}
    OBVIOUS
  <2>5. J \subseteq instance[p][q]
    OBVIOUS
  <2> HIDE DEF n, l
  <2>6. SideOK(p, q, KeyOf(p, q), J, attached[p][q], l, n)
    <3>1. CASE p < q
      BY <1>1, <1>2, <2>3, <2>4, <2>5, <3>1, KeysAre DEF SideOK, SlaveOK, MasterOK, Attaching, Detaching
    <3>2. CASE q < p
      <4>1. SideOK(p, q, KeyOf(p, q), instance[p][q], attached[p][q], "teardown", step[t])
        BY <1>1, <1>2
      <4>2. ~(p < q)
        BY <3>2, KeysAre, <1>2
      <4>3. /\ <<KS(q, p), KeyOf(p, q)>> \in Phases
            /\ MasterOK(KS(q, p), KeyOf(p, q), instance[p][q], attached[p][q], "teardown", step[t])
            /\ SlaveOK(KS(q, p), KeyOf(p, q), instance[q][p], attached[q][p], Label(q, p), StepAt(q, p))
        BY <3>2, <4>1 DEF SideOK
      <4>4. MasterOK(KS(q, p), KeyOf(p, q), J, attached[p][q], l, n)
        BY <2>3, <2>4, <2>5, <4>3, SMTT(40) DEF MasterOK, Attaching, Detaching
      <4> QED BY <4>2, <4>3, <4>4 DEF SideOK
    <3> QED BY <1>2, <3>1, <3>2, KeysAre
  <2>7. ReservedType' /\ AllocatedType' /\ KeysUnchanged /\ MemoryInv'
    <3>1. OnlySideOf(p, q) /\ instance'[p][q] = J
      BY <1>1, <1>2, <1>4, TypeIs DEF IInv, SideTypes, OnlySideOf
    <3>2. MemoryInv /\ ReservedType /\ AllocatedType
      BY TypeIs DEF IInv
    <3>3. CASE p < q /\ c \in instance[p][q]
      <4>1. Freed(p, q, c) /\ Slave(p, q) = p /\ Master(p, q) = q /\ allocated[p][q][c] = 1
        BY <1>2, <2>2, <3>2, <3>3, Slots, SMTT(40) DEF MemoryInv, Freed
      <4>2. allocated' = [allocated EXCEPT ![p][q][c] = allocated[p][q][c] - 1] /\ SetPtr(p, q, c, "invalid")
        BY <1>4, <4>1
      <4>3. allocated' = [allocated EXCEPT ![p][q][c] = 0]
        BY <4>1, <4>2
      <4>4. SetPtr(p, q, c, IF 0 = 1 THEN "block" ELSE "invalid")
        BY <4>2
      <4>5. instance'[p][q] = IF 0 = 1 THEN instance[p][q] \cup {c} ELSE instance[p][q] \ {c}
        BY <3>1
      <4> HIDE DEF c
      <4> QED BY <1>2, <2>2, <3>1, <3>2, <3>3, <4>3, <4>4, <4>5, BlockMoves
    <3>4. CASE ~(p < q /\ c \in instance[p][q])
      <4>1. UNCHANGED shared /\ (p < q => instance'[p][q] = instance[p][q])
        BY <1>4, <3>1, <3>4 DEF Freed
      <4>2. PtrsStay /\ KeysUnchanged
        BY <1>2, <4>1, KeysStay DEF KeysUnchanged, shared
      <4>3. MemoryInv'
        BY <1>2, <3>1, <3>2, <4>1, <4>2, MemoryKept DEF shared
      <4> QED BY <3>2, <4>1, <4>2, <4>3 DEF shared, ReservedType, AllocatedType
    <3> QED BY <3>3, <3>4
  <2>8. Turns(t, q, l, n) /\ l \in Labels /\ l # "idle" /\ pc[t] # "idle"
    BY <1>1, <1>4, <2>4, TurnsIs DEF Labels, Detaching
  <2>9. Opened(attached[p][q], l) => Opened(attached[p][q], pc[t])
    BY <1>1, <2>4 DEF Opened
  <2> HIDE DEF J
  <2> QED BY <1>1, <1>4, <2>3, <2>6, <2>7, <2>8, <2>9, InstanceKeeps
<1> QED BY <1>3, <1>4 DEF Teardown, SetPtr

-----------------------------------------------------------------------------
\* A step that counts how often the caller is attached, or begins a call.
LEMMA CountKeeps ==
  ASSUME OneTask, IInv, NEW t \in Task, NEW p, p = procOf[t], NEW q \in Proc, q # p,
         remote[t] \in {q, None}, state[p] \notin Idle, UNCHANGED <<shared, sr0, instance>>, StateMoves(p),
         NEW a \in 0..MaxAttach[p], attached' = [attached EXCEPT ![p][q] = a],
         NEW l \in Labels, NEW n \in 0..Len(Component), l = "idle" => n = 0, Turns(t, q, l, n),
         SideOK(p, q, KeyOf(p, q), instance[p][q], a, l, n), RouteMoves(p, q, a, l),
         Opened(a, l) => Opened(attached[p][q], Label(p, q))
  PROVE  IInv'
<1>1. p \in Proc
  BY IpcAssumption
<1>2. OnlyKeyOf(p, q) /\ PtrsStay
      /\ \A s, m \in Proc : s < m => KS(s, m)' = KS(s, m) /\ KM(s, m)' = KM(s, m)
  BY KeysStay DEF shared
<1>3. SideTypes /\ ReservedType /\ AllocatedType /\ MaxAttach[p] \in Nat
  BY <1>1, TypeIs, IpcAssumption DEF IInv
<1>4. attached'[p][q] = a /\ OnlySideOf(p, q)
  BY <1>1, <1>3 DEF SideTypes, OnlySideOf
<1>5. SideMoves(p, q, KeyOf(p, q), instance[p][q], a)
  BY <1>1, <1>2, <1>4, KeysAre DEF SideMoves
<1>6. SideTypes'
  <2>1. attached' \in [Proc -> [Proc -> Nat]]
    BY <1>1, <1>3 DEF SideTypes
  <2>2. \A x, y \in Proc : attached'[x][y] \in 0..MaxAttach[x]
    <3>1. \A x, y \in Proc : attached'[x][y] = IF x = p /\ y = q THEN a ELSE attached[x][y]
      BY <1>4 DEF OnlySideOf
    <3>2. \A x, y \in Proc : attached[x][y] \in 0..MaxAttach[x]
      BY <1>3 DEF SideTypes
    <3> QED BY <3>1, <3>2
  <2> QED BY <1>3, <2>1, <2>2 DEF SideTypes
<1>7. ReservedType' /\ AllocatedType'
  BY <1>3 DEF ReservedType, AllocatedType, shared
<1>8. MemoryInv'
  BY <1>1, <1>2, <1>4, MemoryKept DEF IInv, shared
<1>9. RegionMoves(p, q, a, l)
  BY <1>1, RegionStays
<1>10. FreshKey(p, q, KeyOf(p, q))
  BY <1>1, KeysAre, FreshIs DEF IInv, FreshKey, FreshOK
<1> QED BY <1>5, <1>6, <1>7, <1>8, <1>9, <1>10, SideKeeps

LEMMA CountAttachedKeeps ==
  ASSUME OneTask, IInv, NEW t \in Task, CountAttached(t), NEW p, p = procOf[t], NEW q, q = remote[t]
  PROVE  IInv'
<1> DEFINE rest == toAttach[p] \ {q}
<1>1. /\ pc[t] = "count" /\ attached' = [attached EXCEPT ![p][q] = attached[p][q] + 1] /\ Return(t)
      /\ UNCHANGED <<shared, procSync, sr0, instance>>
  BY DEF CountAttached, At
<1>2. /\ p \in Proc /\ q \in Proc /\ p # q /\ Label(p, q) = pc[t] /\ state[p] \notin Idle
      /\ SideOK(p, q, KeyOf(p, q), instance[p][q], attached[p][q], pc[t], step[t])
  BY <1>1, InCall, SideNow
<1>3. attached[p][q] = 0
  BY <1>1, <1>2, KeysAre DEF SideOK, SlaveOK, MasterOK, Attaching
<1>4. attached' = [attached EXCEPT ![p][q] = 1] /\ 1 \in 0..MaxAttach[p]
  BY <1>1, <1>2, <1>3, IpcAssumption
<1>5. StateMoves(p)
  <2>1. StartTypes
    BY TypeIs DEF IInv
  <2>2. CASE state[p] = "starting"
    <3>1. /\ toAttach' = [toAttach EXCEPT ![p] = rest]
          /\ state' = [state EXCEPT ![p] = IF rest = {} THEN "started" ELSE "starting"]
      BY <2>2 DEF CountAttached
    <3>2. rest \in SUBSET Proc /\ toAttach'[p] = rest /\ \A x \in Proc : x # p => toAttach'[x] = toAttach[x]
      BY <1>2, <2>1, <3>1 DEF StartTypes
    <3> HIDE DEF rest
    <3>3. /\ toAttach' \in [Proc -> SUBSET Proc]
          /\ state' \in [Proc -> {"stopped", "starting", "started", "failed", "refused", "finished"}]
      BY <2>1, <3>1, <3>2 DEF StartTypes
    <3>4. /\ state'[p] = IF rest = {} THEN "started" ELSE "starting"
          /\ \A x : x # p => state'[x] = state[x]
      BY <1>2, <2>1, <3>1 DEF StartTypes
    <3> QED BY <1>1, <2>1, <3>2, <3>3, <3>4 DEF StateMoves, StartTypes, OnlyStateOf, Idle
  <2>3. CASE state[p] # "starting"
    <3>1. UNCHANGED start
      BY <1>1, <2>3 DEF CountAttached, start
    <3> QED BY <1>2, <3>1, StateStays
  <2> QED BY <2>2, <2>3
<1>6. SideOK(p, q, KeyOf(p, q), instance[p][q], 1, "idle", 0)
  BY <1>1, <1>2, KeysAre, SMTT(40) DEF SideOK, SlaveOK, MasterOK, StepsOK, Attaching, Detaching
<1>7. Turns(t, q, "idle", 0) /\ RouteMoves(p, q, 1, "idle") /\ Opened(attached[p][q], Label(p, q))
  BY <1>1, <1>2, TurnsIs, RouteInCall DEF Opened
<1>8. "idle" \in Labels /\ 0 \in 0..Len(Component)
  BY Components DEF Labels
<1> QED BY <1>1, <1>2, <1>4, <1>5, <1>6, <1>7, <1>8, CountKeeps

LEMMA CountDetachedKeeps ==
  ASSUME OneTask, IInv, NEW t \in Task, CountDetached(t), NEW p, p = procOf[t], NEW q, q = remote[t]
  PROVE  IInv'
<1>1. /\ pc[t] = "uncount" /\ attached' = [attached EXCEPT ![p][q] = attached[p][q] - 1] /\ Return(t)
      /\ UNCHANGED <<shared, start, sr0, instance>>
  BY DEF CountDetached, At
<1>2. /\ p \in Proc /\ q \in Proc /\ p # q /\ Label(p, q) = pc[t] /\ state[p] \notin Idle
      /\ SideOK(p, q, KeyOf(p, q), instance[p][q], attached[p][q], pc[t], step[t])
  BY <1>1, InCall, SideNow
<1>3. attached[p][q] = 1
  BY <1>1, <1>2, KeysAre DEF SideOK, SlaveOK, MasterOK, Detaching
<1>4. attached' = [attached EXCEPT ![p][q] = 0] /\ 0 \in 0..MaxAttach[p]
  BY <1>1, <1>2, <1>3, IpcAssumption
<1>5. SideOK(p, q, KeyOf(p, q), instance[p][q], 0, "idle", 0)
  BY <1>1, <1>2, KeysAre, SMTT(40) DEF SideOK, SlaveOK, MasterOK, StepsOK, Attaching, Detaching
<1>6. Turns(t, q, "idle", 0) /\ RouteMoves(p, q, 0, "idle") /\ ~Opened(0, "idle") /\ StateMoves(p)
  BY <1>1, <1>2, TurnsIs, RouteInCall, StateStays DEF Opened
<1>7. "idle" \in Labels /\ 0 \in 0..Len(Component)
  BY Components DEF Labels
<1> QED BY <1>1, <1>2, <1>4, <1>5, <1>6, <1>7, CountKeeps

LEMMA AttachKeeps ==
  ASSUME OneTask, IInv, NEW t \in Task, NEW q \in Proc, Ipc_attach(t, q), NEW p, p = procOf[t]
  PROVE  IInv'
<1>1. /\ pc[t] = "idle" /\ q # p /\ UNCHANGED <<shared, procSync, toAttach, sr0, instance>>
      /\ state[p] \in {"started", "starting"}
  BY DEF Ipc_attach, At, MayCall
<1>2. /\ p \in Proc /\ remote[t] = None /\ \A y \in Proc : Label(p, y) = "idle" /\ StepAt(p, y) = 0
  BY <1>1, NotInCall
<1>3. SideOK(p, q, KeyOf(p, q), instance[p][q], attached[p][q], "idle", 0) /\ state[p] \notin Idle
  BY <1>1, <1>2, SideIs DEF IInv, Idle
<1>4. /\ StartTypes /\ MaxAttach[p] \in Nat \ {0} /\ attached[p][q] \in 0..MaxAttach[p]
      /\ step[t] \in 0..Len(Component) /\ attached = [attached EXCEPT ![p][q] = attached[p][q]]
      /\ \A y \in Proc : attached[p][y] \in Nat
  BY <1>2, TypeIs, IpcAssumption DEF IInv, SideTypes, TaskTypes
<1>5. "idle" \in Labels /\ "syncStart" \in Labels /\ 0 \in 0..Len(Component)
  BY Components DEF Labels, Attaching
<1>6. \A y \in Proc \ {owner} : p # owner /\ attached[p][y] > 0 => attached[p][owner] > 0
  BY <1>2 DEF IInv, RouteInv
<1>7. CASE /\ attached[p][q] \in 1..(MaxAttach[p] - 1)
           /\ attached' = [attached EXCEPT ![p][q] = @ + 1]
           /\ UNCHANGED <<task, state>>
  <2> DEFINE a == attached[p][q] + 1
  <2>1. a \in 0..MaxAttach[p] /\ a > 0 /\ attached[p][q] > 0 /\ attached' = [attached EXCEPT ![p][q] = a]
    BY <1>4, <1>7
  <2> HIDE DEF a
  <2>2. SideOK(p, q, KeyOf(p, q), instance[p][q], a, "idle", 0)
    BY <1>3, <2>1 DEF SideOK, SlaveOK, MasterOK, Attaching, Detaching
  <2>3. Turns(t, q, "idle", 0) /\ StateMoves(p)
    BY <1>1, <1>3, <1>7, TurnsIs, StateStays DEF start
  <2>4. RouteMoves(p, q, a, "idle")
    BY <1>1, <1>2, <1>6, <2>1, Procs DEF RouteMoves, Detaching
  <2>5. Opened(attached[p][q], Label(p, q))
    BY <1>2, <2>1 DEF Opened
  <2> QED BY <1>1, <1>2, <1>3, <1>5, <2>1, <2>2, <2>3, <2>4, <2>5, CountKeeps
<1>8. CASE /\ attached[p][q] = 0
           /\ owner \in {p, q} \/ attached[p][owner] > 0
           /\ pc' = [pc EXCEPT ![t] = "syncStart"]
           /\ remote' = [remote EXCEPT ![t] = q]
           /\ UNCHANGED <<step, attached, state>>
  <2>1. SideOK(p, q, KeyOf(p, q), instance[p][q], 0, "syncStart", step[t])
    BY <1>3, <1>8 DEF SideOK, SlaveOK, MasterOK, StepsOK, Attaching, Detaching
  <2>2. step = [step EXCEPT ![t] = step[t]]
    BY TypeIs DEF IInv, TaskTypes
  <2>3. Turns(t, q, "syncStart", step[t]) /\ StateMoves(p)
    BY <1>1, <1>3, <1>8, <2>2, StateStays DEF Turns, start
  <2>4. RouteMoves(p, q, 0, "syncStart")
    BY <1>1, <1>2, <1>4, <1>6, <1>8, Procs DEF RouteMoves, Detaching
  <2>5. ~Opened(0, "syncStart") /\ 0 \in 0..MaxAttach[p] /\ attached' = [attached EXCEPT ![p][q] = 0]
    BY <1>4, <1>8 DEF Opened
  <2> QED BY <1>1, <1>2, <1>3, <1>4, <1>5, <2>1, <2>3, <2>4, <2>5, CountKeeps
<1>9. CASE /\ attached[p][q] = 0
           /\ owner \notin {p, q} /\ attached[p][owner] = 0
           /\ state' = [state EXCEPT ![p] = IF @ = "starting" THEN "refused" ELSE @]
           /\ UNCHANGED <<task, attached>>
  <2>1. Turns(t, q, "idle", 0)
    BY <1>1, <1>9, TurnsIs
  <2>2. StateMoves(p)
    <3>1. /\ state'[p] = IF state[p] = "starting" THEN "refused" ELSE state[p]
          /\ \A x : x # p => state'[x] = state[x]
      BY <1>2, <1>4, <1>9 DEF StartTypes
    <3>2. state' \in [Proc -> {"stopped", "starting", "started", "failed", "refused", "finished"}]
      BY <1>4, <1>9 DEF StartTypes
    <3> QED BY <1>1, <1>4, <3>1, <3>2 DEF StateMoves, StartTypes, OnlyStateOf, Idle
  <2>3. RouteMoves(p, q, 0, "idle") /\ ~Opened(0, "idle")
    BY <1>9 DEF RouteMoves, Opened
  <2>4. 0 \in 0..MaxAttach[p] /\ attached' = [attached EXCEPT ![p][q] = 0]
    BY <1>4, <1>9
  <2>5. SideOK(p, q, KeyOf(p, q), instance[p][q], 0, "idle", 0)
    BY <1>3, <1>9
  <2> QED BY <1>1, <1>2, <1>3, <1>5, <2>1, <2>2, <2>3, <2>4, <2>5, CountKeeps
<1> QED BY <1>7, <1>8, <1>9 DEF Ipc_attach

LEMMA DetachKeeps ==
  ASSUME OneTask, IInv, NEW t \in Task, NEW q \in Proc, Ipc_detach(t, q), NEW p, p = procOf[t]
  PROVE  IInv'
<1>1. /\ pc[t] = "idle" /\ q # p /\ UNCHANGED <<shared, start, sr0, instance>> /\ state[p] = "started"
  BY DEF Ipc_detach, At, MayCall
<1>2. /\ p \in Proc /\ remote[t] = None /\ \A y \in Proc : Label(p, y) = "idle" /\ StepAt(p, y) = 0
  BY <1>1, NotInCall
<1>3. SideOK(p, q, KeyOf(p, q), instance[p][q], attached[p][q], "idle", 0) /\ state[p] \notin Idle
  BY <1>1, <1>2, SideIs DEF IInv, Idle
<1>4. /\ MaxAttach[p] \in Nat \ {0} /\ attached[p][q] \in 0..MaxAttach[p]
      /\ attached = [attached EXCEPT ![p][q] = attached[p][q]]
      /\ \A y \in Proc : attached[p][y] \in Nat
  BY <1>2, TypeIs, IpcAssumption DEF IInv, SideTypes
<1>5. /\ "idle" \in Labels /\ "teardown" \in Labels /\ 0 \in 0..Len(Component)
      /\ Len(Component) \in 0..Len(Component) /\ Len(Component) \in DOMAIN Component
      /\ \A j \in DOMAIN Component : ~(j > Len(Component))
  BY Components DEF Labels, Detaching
<1>6. \A y \in Proc \ {owner} : p # owner /\ attached[p][y] > 0 => attached[p][owner] > 0
  BY <1>2 DEF IInv, RouteInv
<1>7. StateMoves(p)
  BY <1>1, <1>3, StateStays
<1>8. CASE /\ attached[p][q] > 1
           /\ attached' = [attached EXCEPT ![p][q] = @ - 1]
           /\ UNCHANGED task
  <2> DEFINE a == attached[p][q] - 1
  <2>1. a \in 0..MaxAttach[p] /\ a > 0 /\ attached[p][q] > 0 /\ attached' = [attached EXCEPT ![p][q] = a]
    BY <1>4, <1>8
  <2> HIDE DEF a
  <2>2. SideOK(p, q, KeyOf(p, q), instance[p][q], a, "idle", 0)
    BY <1>3, <2>1 DEF SideOK, SlaveOK, MasterOK, Attaching, Detaching
  <2>3. Turns(t, q, "idle", 0)
    BY <1>1, <1>8, TurnsIs
  <2>4. RouteMoves(p, q, a, "idle")
    BY <1>1, <1>2, <1>6, <2>1, Procs DEF RouteMoves, Detaching
  <2>5. Opened(attached[p][q], Label(p, q))
    BY <1>2, <2>1 DEF Opened
  <2> QED BY <1>1, <1>2, <1>3, <1>5, <1>7, <2>1, <2>2, <2>3, <2>4, <2>5, CountKeeps
<1>9. CASE /\ Last(p, q) /\ OwnerLast(p, q) /\ MayDetach(p, q)
           /\ pc' = [pc EXCEPT ![t] = "teardown"]
           /\ remote' = [remote EXCEPT ![t] = q]
           /\ step' = [step EXCEPT ![t] = Len(Component)]
           /\ UNCHANGED attached
  <2> DEFINE n == Len(Component)
  <2>1. attached[p][q] = 1
    BY <1>9 DEF Last
  <2>2. StepsOK(instance[p][q], "teardown", n)
    BY <1>5 DEF StepsOK
  <2>3. Turns(t, q, "teardown", n)
    BY <1>9 DEF Turns
  <2> HIDE DEF n
  <2>5. SideOK(p, q, KeyOf(p, q), instance[p][q], 1, "teardown", n)
    <3>1. CASE p < q
      <4>1. KM(p, q) = "DETACH"
        BY <1>9, <3>1 DEF MayDetach, KM
      <4> QED BY <1>1, <1>2, <1>3, <2>1, <2>2, <3>1, <4>1, KeysAre DEF SideOK, SlaveOK, MasterOK, Attaching, Detaching
    <3>2. CASE q < p
      BY <1>1, <1>2, <1>3, <2>1, <2>2, <3>2, KeysAre DEF SideOK, SlaveOK, MasterOK, Attaching, Detaching
    <3> QED BY <1>1, <1>2, <3>1, <3>2, KeysAre
  <2>4. RouteMoves(p, q, 1, "teardown")
    <3>1. attached[p][p] = 0
      BY <1>2 DEF IInv, SelfInv
    <3>2. q = owner => \A y \in Proc \ {owner} : attached[p][y] = 0
      BY <1>9, <3>1 DEF OwnerLast
    <3> QED BY <1>1, <1>2, <1>6, <2>1, <3>2, Procs DEF RouteMoves, Detaching
  <2>6. Opened(attached[p][q], Label(p, q)) /\ attached' = [attached EXCEPT ![p][q] = 1] /\ 1 \in 0..MaxAttach[p]
    BY <1>2, <1>4, <1>9, <2>1 DEF Opened
  <2>7. n \in 0..Len(Component)
    BY <1>5 DEF n
  <2> QED BY <1>1, <1>2, <1>3, <1>5, <1>7, <2>3, <2>4, <2>5, <2>6, <2>7, CountKeeps
<1> QED BY <1>8, <1>9 DEF Ipc_detach

-----------------------------------------------------------------------------
\* Ipc_start and Ipc_stop move no task.
LEMMA LabelsStay ==
  ASSUME UNCHANGED task
  PROVE  /\ \A x, y : Label(x, y)' = Label(x, y) /\ StepAt(x, y)' = StepAt(x, y)
         /\ (TaskTypes => TaskTypes') /\ (TaskInv => TaskInv')
<1>1. \A x, y : Label(x, y)' = Label(x, y) /\ StepAt(x, y)' = StepAt(x, y)
  BY DEF task, Label, StepAt, Caller, Calls
<1> QED BY <1>1 DEF task, TaskTypes, TaskInv

LEMMA LabelTask ==
  ASSUME NEW x, NEW y, Label(x, y) # "idle"
  PROVE  \E t \in Task : procOf[t] = x /\ remote[t] = y /\ pc[t] = Label(x, y)
<1>1. \E t \in Task : Calls(t, x, y)
  BY DEF Label
<1>2. Caller(x, y) \in Task /\ Calls(Caller(x, y), x, y)
  BY <1>1 DEF Caller
<1> QED BY <1>1, <1>2 DEF Label, Calls

\* When the owner of region 0 starts, nobody is attached yet, and the keys that
\* it clears have not been acted upon.
LEMMA BeforeOwner ==
  ASSUME OneTask, IInv, state[owner] = "stopped", NEW s \in Proc, NEW m \in Proc, s < m
  PROVE  /\ instance[s][m] = {} /\ instance[m][s] = {}
         /\ attached[s][m] = 0 /\ attached[m][s] = 0
         /\ Label(s, m) \in {"idle", "syncStart", "syncRead"} /\ Label(m, s) \in {"idle", "syncStart"}
<1>1. FreshOK(s, m) /\ PairOK(s, m)
  BY FreshIs, PairIs DEF IInv
<1>2. attached[s][m] \in Nat /\ attached[m][s] \in Nat
  BY TypeIs DEF IInv, SideTypes
<1>3. ASSUME Label(s, m) \notin {"idle", "syncStart", "syncRead"} PROVE FALSE
  <2>1. PICK t \in Task : procOf[t] = s /\ remote[t] = m /\ pc[t] = Label(s, m)
    BY <1>3, LabelTask
  <2>2. Label(s, m) \in Labels
    BY <2>1, TypeIs DEF IInv, TaskTypes
  <2> QED BY <1>1, <1>3, <2>2 DEF FreshOK, PairOK, SlaveOK, Labels, Attaching, Detaching
<1>4. ASSUME Label(m, s) \notin {"idle", "syncStart"} PROVE FALSE
  <2>1. PICK t \in Task : procOf[t] = m /\ remote[t] = s /\ pc[t] = Label(m, s)
    BY <1>4, LabelTask
  <2>2. Label(m, s) \in Labels
    BY <2>1, TypeIs DEF IInv, TaskTypes
  <2>3. KS(s, m) = "none" /\ KM(s, m) = "none"
    BY <1>4, <2>1, OwnerStarted
  <2> QED BY <1>1, <1>4, <2>2, <2>3 DEF PairOK, MasterOK, Labels, Attaching, Detaching
<1>5. attached[s][m] = 0 /\ attached[m][s] = 0 /\ instance[s][m] = {} /\ instance[m][s] = {}
  BY <1>1, <1>2, <1>3, <1>4 DEF FreshOK, PairOK, SlaveOK, MasterOK
<1> QED BY <1>3, <1>4, <1>5

LEMMA StartTypesKept ==
  ASSUME IInv, NEW p \in Proc, Ipc_start(p)
  PROVE  StartTypes' /\ state[p] = "stopped" /\ OnlyStateOf(p) /\ state'[p] \in {"starting", "started"}
<1>1. StartTypes /\ state[p] = "stopped" /\ UNCHANGED procSync
  BY TypeIs DEF IInv, Ipc_start
<1>2. CASE /\ state' = [state EXCEPT ![p] = "starting"]
           /\ toAttach' = [toAttach EXCEPT ![p] = Proc \ {p}]
  <2>1. Proc \ {p} # {}
    <3>1. 0 \in Proc /\ 1 \in Proc
      BY IpcAssumption DEF Proc
    <3> QED BY <3>1
  <2>2. state'[p] = "starting" /\ \A x : x # p => state'[x] = state[x]
    BY <1>1, <1>2 DEF StartTypes
  <2>3. toAttach'[p] = Proc \ {p} /\ \A x : x # p => toAttach'[x] = toAttach[x]
    BY <1>1, <1>2 DEF StartTypes
  <2>4. /\ toAttach' \in [Proc -> SUBSET Proc]
        /\ state' \in [Proc -> {"stopped", "starting", "started", "failed", "refused", "finished"}]
    BY <1>1, <1>2 DEF StartTypes
  <2> QED BY <1>1, <2>1, <2>2, <2>3, <2>4 DEF StartTypes, OnlyStateOf
<1>3. CASE state' = [state EXCEPT ![p] = "started"] /\ UNCHANGED toAttach
  <2>1. state'[p] = "started" /\ \A x : x # p => state'[x] = state[x]
    BY <1>1, <1>3 DEF StartTypes
  <2>2. state' \in [Proc -> {"stopped", "starting", "started", "failed", "refused", "finished"}]
    BY <1>1, <1>3 DEF StartTypes
  <2> QED BY <1>1, <1>3, <2>1, <2>2 DEF StartTypes, OnlyStateOf
<1> QED BY <1>2, <1>3 DEF Ipc_start

LEMMA StartKeeps ==
  ASSUME OneTask, IInv, NEW p \in Proc, Ipc_start(p)
  PROVE  IInv'
<1>1. /\ UNCHANGED <<allocated, instance, attached, task>>
      /\ p = owner => reserved' = [q \in Proc |-> [s \in Proc |-> Cleared]] /\ sr0' = sr0 \cup {p}
      /\ p # owner => UNCHANGED <<reserved, sr0>>
  BY DEF Ipc_start
<1>2. StartTypes' /\ state[p] = "stopped" /\ OnlyStateOf(p) /\ state'[p] \in {"starting", "started"}
  BY StartTypesKept
<1>3. \A x, y : Label(x, y)' = Label(x, y) /\ StepAt(x, y)' = StepAt(x, y)
  BY <1>1, LabelsStay
<1>4. TypeOK'
  <2>1. ReservedType'
    <3>1. CASE p = owner
      BY <1>1, <3>1 DEF ReservedType, Cleared, Keys
    <3>2. CASE p # owner
      BY <1>1, <3>2, TypeIs DEF IInv, ReservedType
    <3> QED BY <3>1, <3>2
  <2>2. sr0' \subseteq Proc
    BY <1>1, TypeIs DEF IInv
  <2>3. AllocatedType' /\ SideTypes' /\ TaskTypes'
    BY <1>1, LabelsStay, TypeIs DEF IInv, AllocatedType, SideTypes
  <2> QED BY <1>2, <2>1, <2>2, <2>3, TypeIs
<1>5. TaskInv' /\ SelfInv'
  BY <1>1, LabelsStay DEF IInv, SelfInv
<1>6. CASE p = owner
  <2>1. state[owner] = "stopped"
    BY <1>2, <1>6
  <2>2. ASSUME NEW s \in Proc, NEW m \in Proc, s < m
        PROVE  KS(s, m)' = "none" /\ KM(s, m)' = "none"
    <3>1. m - 1 \in Proc
      BY <2>2, Slots
    <3> QED BY <1>1, <1>6, <2>2, <3>1, SlotsNext DEF Cleared
  <2>3. PairInv'
    <3> SUFFICES ASSUME NEW s \in Proc, NEW m \in Proc, s < m PROVE PairOK(s, m)'
      BY PairIs
    <3>1. /\ instance'[s][m] = {} /\ instance'[m][s] = {}
          /\ attached'[s][m] = 0 /\ attached'[m][s] = 0
          /\ Label(s, m)' \in {"idle", "syncStart", "syncRead"} /\ Label(m, s)' \in {"idle", "syncStart"}
      BY <1>1, <1>3, <2>1, BeforeOwner
    <3>2. KS(s, m)' = "none" /\ KM(s, m)' = "none"
      BY <2>2
    <3> QED BY <3>1, <3>2 DEF PairOK, SlaveOK, MasterOK, StepsOK, Phases, Attaching, Detaching
  <2>4. MemoryInv'
    <3> SUFFICES ASSUME NEW s \in Proc, NEW m \in Proc PROVE MemoryOK(s, m)'
      BY MemoryIs
    <3>1. MemoryOK(s, m)
      BY MemoryIs DEF IInv
    <3>2. s < m => instance[s][m] = {}
      BY <2>1, BeforeOwner
    <3> QED BY <1>1, <3>1, <3>2 DEF MemoryOK
  <2>5. FreshInv'
    BY <1>2, <1>6 DEF FreshInv
  <2>6. RegionInv'
    <3>1. owner \in sr0' <=> state'[owner] \notin Idle
      BY <1>1, <1>2, <1>6 DEF Idle
    <3>2. ASSUME NEW x \in Proc \ {owner}, HasRegion(x)' PROVE x \in sr0'
      BY <1>1, <1>3, <1>6, <3>2, RegionIs DEF IInv, HasRegion
    <3> QED BY <3>1, <3>2, RegionIs
  <2>7. StopInv' /\ RouteInv'
    BY <1>1, <1>2, <1>3 DEF IInv, StopInv, RouteInv, OnlyStateOf
  <2> QED BY <1>4, <1>5, <2>3, <2>4, <2>5, <2>6, <2>7 DEF IInv
<1>7. CASE p # owner
  <2>1. UNCHANGED <<reserved, sr0>>
    BY <1>1, <1>7
  <2>2. PairInv' /\ MemoryInv'
    BY <1>1, <1>3, <2>1 DEF IInv, PairInv, MemoryInv, Key
  <2>3. FreshInv' /\ RegionInv'
    BY <1>1, <1>2, <1>3, <1>7, <2>1, Procs DEF IInv, FreshInv, RegionInv, OnlyStateOf, Key
  <2>4. StopInv' /\ RouteInv'
    BY <1>1, <1>2, <1>3 DEF IInv, StopInv, RouteInv, OnlyStateOf
  <2> QED BY <1>4, <1>5, <2>2, <2>3, <2>4 DEF IInv
<1> QED BY <1>6, <1>7

LEMMA StopKeeps ==
  ASSUME OneTask, IInv, NEW p \in Proc, Ipc_stop(p)
  PROVE  IInv'
<1>1. /\ UNCHANGED <<procSync, toAttach, reserved, allocated, instance, attached, task>>
      /\ sr0' = sr0 \ {p} /\ state' = [state EXCEPT ![p] = "finished"] /\ state[p] = "started"
      /\ \A q \in Proc : attached[p][q] = 0
  BY DEF Ipc_stop, MayCall, shared
<1>2. StartTypes
  BY TypeIs DEF IInv
<1>3. state'[p] = "finished" /\ \A x : x # p => state'[x] = state[x]
  BY <1>1, <1>2 DEF StartTypes
<1>4. \A x, y : Label(x, y)' = Label(x, y) /\ StepAt(x, y)' = StepAt(x, y)
  BY <1>1, LabelsStay
<1>5. \A q \in Proc : Label(p, q) = "idle"
  BY LabelTask DEF Ipc_stop
<1>6. TypeOK'
  <2>1. state' \in [Proc -> {"stopped", "starting", "started", "failed", "refused", "finished"}]
    BY <1>1, <1>2 DEF StartTypes
  <2>2. StartTypes'
    BY <1>1, <1>2, <1>3, <2>1 DEF StartTypes
  <2>3. sr0' \subseteq Proc
    BY <1>1, TypeIs DEF IInv
  <2>4. ReservedType' /\ AllocatedType' /\ SideTypes' /\ TaskTypes'
    BY <1>1, LabelsStay, TypeIs DEF IInv, ReservedType, AllocatedType, SideTypes
  <2> QED BY <2>2, <2>3, <2>4, TypeIs
<1>7. TaskInv' /\ SelfInv' /\ PairInv' /\ MemoryInv'
  BY <1>1, <1>4, LabelsStay, SMTT(40) DEF IInv, SelfInv, PairInv, MemoryInv, Key
<1>8. StopInv'
  <2> SUFFICES ASSUME NEW x \in Proc, NEW y \in Proc, state'[x] \in Idle
               PROVE  Label(x, y)' = "idle" /\ attached'[x][y] = 0
    BY DEF StopInv, Idle
  <2> QED BY <1>1, <1>3, <1>4, <1>5 DEF IInv, StopInv, Idle
<1>9. FreshInv' /\ RouteInv'
  BY <1>1, <1>3, <1>4 DEF IInv, FreshInv, RouteInv, Key
<1>10. RegionInv'
  <2>1. owner \in sr0' <=> state'[owner] \notin Idle
    BY <1>1, <1>3, RegionIs DEF IInv, Idle
  <2>2. ASSUME NEW x \in Proc \ {owner}, HasRegion(x)' PROVE x \in sr0'
    <3>1. HasRegion(x) /\ x \in sr0
      BY <1>1, <1>4, <2>2, RegionIs DEF IInv, HasRegion
    <3>2. x # p
      BY <1>1, <1>5, <3>1, Procs DEF HasRegion, Opened
    <3> QED BY <1>1, <3>1, <3>2
  <2> QED BY <2>1, <2>2, RegionIs
<1> QED BY <1>6, <1>7, <1>8, <1>9, <1>10 DEF IInv

-----------------------------------------------------------------------------
\* The invariant is inductive.
LEMMA InitIInv ==
  ASSUME Init
  PROVE  IInv
<1>1. \A x, y \in Proc : Label(x, y) = "idle" /\ StepAt(x, y) = 0
  BY Procs DEF Init, Label, StepAt, Calls
<1>2. ReservedType
  BY DEF Init, ReservedType, Cleared, Keys
<1>3. SideTypes
  BY IpcAssumption DEF Init, SideTypes
<1>4. StartTypes /\ sr0 \subseteq Proc /\ AllocatedType /\ TaskTypes
  BY Components DEF Init, StartTypes, AllocatedType, TaskTypes, Labels
<1>5. TypeOK
  BY <1>2, <1>3, <1>4, TypeIs
<1>6. TaskInv /\ SelfInv
  BY IpcAssumption DEF Init, TaskInv, SelfInv
<1>7. ASSUME NEW s \in Proc, NEW m \in Proc, s < m
      PROVE  KS(s, m) = "none" /\ KM(s, m) = "none"
  <2>1. m - 1 \in Proc
    BY <1>7, Slots
  <2> QED BY <1>7, <2>1, Slots DEF Init, Cleared
<1>8. PairInv
  <2> SUFFICES ASSUME NEW s \in Proc, NEW m \in Proc, s < m PROVE PairOK(s, m)
    BY PairIs
  <2>1. KS(s, m) = "none" /\ KM(s, m) = "none"
    BY <1>7
  <2> QED BY <1>1, <2>1 DEF Init, PairOK, SlaveOK, MasterOK, StepsOK, Phases, Attaching, Detaching
<1>9. MemoryInv
  BY DEF Init, MemoryInv
<1>10. StopInv /\ RouteInv
  BY <1>1, Procs DEF Init, StopInv, RouteInv
<1>11. FreshInv
  BY <1>7, FreshIs DEF FreshOK
<1>12. RegionInv
  BY <1>1, Procs DEF Init, RegionInv
<1> QED BY <1>5, <1>6, <1>8, <1>9, <1>10, <1>11, <1>12 DEF IInv

LEMMA NextKeeps ==
  ASSUME OneTask, IInv, Next
  PROVE  IInv'
<1>1. ASSUME NEW p \in Proc, Ipc_start(p) \/ Ipc_stop(p) PROVE IInv'
  BY <1>1, StartKeeps, StopKeeps
<1>2. ASSUME NEW t \in Task, NEW q \in Proc, Ipc_attach(t, q) \/ Ipc_detach(t, q) PROVE IInv'
  BY <1>2, AttachKeeps, DetachKeeps
<1>3. ASSUME NEW t \in Task, Step(t) PROVE IInv'
  <2>1. CASE SyncStartSlave(t) \/ SyncStartMaster(t) \/ SyncWrite(t) \/ SyncRead(t)
    BY <2>1, SyncStartSlaveKeeps, SyncStartMasterKeeps, SyncWriteKeeps, SyncReadKeeps
  <2>2. CASE AttachModules(t) \/ Setup(t) \/ SetupFails(t) \/ UserAttach(t)
    BY <2>2, AttachModulesKeeps, SetupKeeps, SetupFailsKeeps, UserAttachKeeps
  <2>3. CASE SyncFinish(t) \/ WaitFinish(t) \/ CountAttached(t)
    BY <2>3, SyncFinishKeeps, WaitFinishKeeps, CountAttachedKeeps
  <2>4. CASE Teardown(t) \/ DetachModules(t) \/ CountDetached(t)
    BY <2>4, TeardownKeeps, DetachModulesKeeps, CountDetachedKeeps
  <2> QED BY <1>3, <2>1, <2>2, <2>3, <2>4 DEF Step
<1> QED BY <1>1, <1>2, <1>3 DEF Next

LEMMA StutterKeeps ==
  ASSUME IInv, UNCHANGED vars
  PROVE  IInv'
<1>1. UNCHANGED <<reserved, allocated, procSync, state, toAttach, sr0, instance, attached, task>>
  BY DEF vars, shared, local, start
<1>2. \A x, y : Label(x, y)' = Label(x, y) /\ StepAt(x, y)' = StepAt(x, y)
  BY <1>1, LabelsStay
<1>3. TypeOK'
  BY <1>1, LabelsStay, TypeIs DEF IInv, StartTypes, ReservedType, AllocatedType, SideTypes
<1>4. TaskInv' /\ SelfInv' /\ PairInv' /\ MemoryInv'
  BY <1>1, <1>2, LabelsStay, SMTT(40) DEF IInv, SelfInv, PairInv, MemoryInv, Key
<1>5. StopInv' /\ FreshInv' /\ RouteInv' /\ RegionInv'
  BY <1>1, <1>2 DEF IInv, StopInv, FreshInv, RouteInv, RegionInv, Key
<1> QED BY <1>3, <1>4, <1>5 DEF IInv

-----------------------------------------------------------------------------
\* Instances and blocks belong together on both sides of a pair.
LEMMA PairMemory ==
  ASSUME IInv, NEW s \in Proc, NEW m \in Proc, s < m
  PROVE  /\ instance[s][m] \in SUBSET Comps /\ instance[m][s] \subseteq instance[s][m]
         /\ \A c \in Comps : allocated[s][m][c] = IF c \in instance[s][m] THEN 1 ELSE 0
<1>1. PairOK(s, m)
  BY PairIs DEF IInv
<1>2. instance[s][m] \in SUBSET Comps /\ instance[m][s] \in SUBSET Comps
  BY TypeIs DEF IInv, SideTypes
<1>3. \A c \in Comps : allocated[s][m][c] = IF c \in instance[s][m] THEN 1 ELSE 0
  BY DEF IInv, MemoryInv
<1>4. instance[m][s] # {} => instance[s][m] = Comps
  BY <1>1 DEF PairOK, SlaveOK, MasterOK
<1> QED BY <1>2, <1>3, <1>4

LEMMA InvIs ==
  ASSUME IInv
  PROVE  InstanceHasMemory /\ BlocksAccounted
<1>1. InstanceHasMemory
  <2> SUFFICES ASSUME NEW p \in Proc, NEW q \in Proc, NEW c \in instance[p][q]
               PROVE  allocated[Slave(p, q)][Master(p, q)][c] = 1
    BY DEF InstanceHasMemory
  <2>1. p # q
    BY DEF IInv, SelfInv
  <2>2. CASE p < q
    BY <2>2, PairMemory, Slots
  <2>3. CASE q < p
    BY <2>3, PairMemory, Slots
  <2> QED BY <2>1, <2>2, <2>3, Procs
<1>2. BlocksAccounted
  BY DEF IInv, MemoryInv, BlocksAccounted
<1> QED BY <1>1, <1>2

\* No instance without its memory and no block without its instance, however
\* Ipc_attach and Ipc_detach of all processors interleave, fail and are retried.
THEOREM IpcInvHolds ==
  ASSUME OneTask
  PROVE  Spec => []Inv
<1>1. Init => IInv
  BY InitIInv
<1>2. IInv /\ [Next]_vars => IInv'
  BY NextKeeps, StutterKeeps
<1>3. IInv => Inv
  BY InvIs DEF Inv
<1> QED BY <1>1, <1>2, <1>3, PTL DEF Spec

\* After both calls of Ipc_detach nothing is left of the connection.
THEOREM DetachedCleanHolds ==
  ASSUME OneTask
  PROVE  Spec => []DetachedClean
<1>1. IInv => DetachedClean
  <2> SUFFICES ASSUME IInv, NEW s \in Proc, NEW m \in Proc, s < m, KS(s, m) = "DETACH", KM(s, m) = "DETACH"
               PROVE  /\ instance[s][m] = {} /\ instance[m][s] = {}
                      /\ \A c \in Comps : allocated[s][m][c] = 0
    BY DEF DetachedClean, KS, KM
  <2>1. PairOK(s, m)
    BY PairIs DEF IInv
  <2>2. instance[s][m] = {}
    BY <2>1 DEF PairOK, SlaveOK
  <2> QED BY <2>2, PairMemory
<1>2. Inv => DetachedClean
  BY <1>1 DEF Inv
<1> QED BY <1>2, IpcInvHolds, PTL

\* The default gate and heap of region 0 outlive every connection, when their
\* owner is processor 0, the slave of all others.
THEOREM RegionZeroThereHolds ==
  ASSUME OneTask, owner = 0
  PROVE  Spec => []RegionZeroThere
<1>1. IInv => RegionZeroThere
  <2> SUFFICES ASSUME IInv, NEW p \in Proc, NEW q \in Proc, attached[p][q] > 0, Quiet(p, q)
               PROVE  p \in sr0 /\ owner \in sr0
    BY DEF RegionZeroThere
  <2>1. owner \in Proc /\ (owner \in sr0 <=> state[owner] \notin Idle)
    BY Procs, RegionIs DEF IInv
  <2>2. CASE p = owner
    <3>1. attached[p][q] # 0
      BY TypeIs DEF IInv, SideTypes
    <3> QED BY <2>1, <2>2, <3>1 DEF IInv, StopInv, Idle
  <2>3. CASE p # owner
    <3>1. attached[p][owner] > 0 /\ Label(p, owner) \notin Detaching
      <4>1. CASE q = owner
        <5>1. Label(p, owner) = "idle"
          BY <4>1, LabelTask DEF Quiet
        <5> QED BY <4>1, <5>1 DEF Detaching
      <4>2. CASE q # owner
        BY <2>3, <4>2 DEF IInv, RouteInv
      <4> QED BY <4>1, <4>2
    <3>2. p \in sr0
      BY <2>3, <3>1, RegionIs DEF IInv, HasRegion, Opened, Detaching
    <3>3. owner < p
      BY <2>3, IpcAssumption DEF Proc
    <3>4. PairOK(owner, p)
      BY <2>1, <3>3, PairIs DEF IInv
    <3>5. KS(owner, p) = "FINISH"
      BY <3>1, <3>4 DEF PairOK, MasterOK, Phases, Detaching
    <3>6. state[owner] \notin Idle
      <4>1. ASSUME Label(owner, p) = "idle" /\ attached[owner][p] = 0 PROVE FALSE
        BY <3>4, <3>5, <4>1 DEF PairOK, SlaveOK
      <4> QED BY <2>1, <4>1 DEF IInv, StopInv, Idle
    <3> QED BY <2>1, <3>2, <3>6
  <2> QED BY <2>2, <2>3
<1>2. Inv => RegionZeroThere
  BY <1>1 DEF Inv
<1> QED BY <1>2, IpcInvHolds, PTL

\* A processor counts itself attached only when the connection is complete.
LEMMA CompleteWhenCounted ==
  ASSUME OneTask, IInv, NEW t \in Task, pc[t] = "count"
  PROVE  LET p == procOf[t]
             q == remote[t]
         IN  instance[p][q] = Comps /\ (q < p => instance[q][p] = Comps)
<1> DEFINE p == procOf[t]
           q == remote[t]
<1>1. /\ p \in Proc /\ q \in Proc /\ p # q
      /\ SideOK(p, q, KeyOf(p, q), instance[p][q], attached[p][q], pc[t], step[t])
  BY SideNow
<1>2. CASE p < q
  BY <1>1, <1>2, KeysAre DEF SideOK, SlaveOK, StepsOK
<1>3. CASE q < p
  BY <1>1, <1>3, KeysAre DEF SideOK, SlaveOK, MasterOK, StepsOK, Phases
<1> QED BY <1>1, <1>2, <1>3, KeysAre

THEOREM ConnectionCompleteHolds ==
  ASSUME OneTask
  PROVE  Spec => ConnectionComplete
<1> DEFINE A == \A p, q \in Proc :
                  attached[p][q] = 0 /\ attached'[p][q] = 1 =>
                    instance[p][q] = Comps /\ (q < p => instance[q][p] = Comps)
<1>1. Inv /\ [Next]_vars => A
  <2> SUFFICES ASSUME IInv, [Next]_vars, NEW p \in Proc, NEW q \in Proc,
                      attached[p][q] = 0, attached'[p][q] = 1
               PROVE  instance[p][q] = Comps /\ (q < p => instance[q][p] = Comps)
    BY DEF Inv
  <2>1. attached \in [Proc -> [Proc -> Nat]]
    BY TypeIs DEF IInv, SideTypes
  <2>2. PICK t \in Task : \/ \E r \in Proc : Ipc_attach(t, r) \/ Ipc_detach(t, r)
                          \/ CountAttached(t) \/ CountDetached(t)
    <3>1. attached' # attached
      OBVIOUS
    <3> QED BY <3>1
            DEF Next, Step, vars, local, Ipc_start, Ipc_stop, SyncStartSlave, SyncStartMaster, SyncWrite,
                SyncRead, AttachModules, Setup, SetupFails, UserAttach, SyncFinish, WaitFinish, Teardown,
                DetachModules, Fail
  <2>3. CASE CountAttached(t)
    <3>1. pc[t] = "count" /\ procOf[t] \in Proc /\ remote[t] \in Proc
      BY <2>3, InCall DEF CountAttached, At
    <3>2. attached' = [attached EXCEPT ![procOf[t]][remote[t]] = @ + 1]
      BY <2>3 DEF CountAttached
    <3>3. procOf[t] = p /\ remote[t] = q
      BY <2>1, <3>1, <3>2
    <3> QED BY <3>1, <3>3, CompleteWhenCounted
  <2>4. ASSUME CountDetached(t) PROVE FALSE
    <3>1. /\ pc[t] = "uncount" /\ procOf[t] \in Proc /\ remote[t] \in Proc
          /\ attached' = [attached EXCEPT ![procOf[t]][remote[t]] = @ - 1]
      BY <2>4, InCall DEF CountDetached, At
    <3> QED BY <2>1, <3>1
  <2>5. ASSUME NEW r \in Proc, Ipc_attach(t, r) PROVE FALSE
    <3>1. procOf[t] \in Proc
      BY IpcAssumption
    <3>2. attached' # attached
      OBVIOUS
    <3>3. /\ attached[procOf[t]][r] \in 1..(MaxAttach[procOf[t]] - 1)
          /\ attached' = [attached EXCEPT ![procOf[t]][r] = @ + 1]
      BY <2>5, <3>2 DEF Ipc_attach
    <3>4. attached[procOf[t]][r] > 0
      BY <3>1, <3>3, IpcAssumption
    <3> QED BY <2>1, <3>1, <3>3, <3>4
  <2>6. ASSUME NEW r \in Proc, Ipc_detach(t, r) PROVE FALSE
    <3>1. procOf[t] \in Proc
      BY IpcAssumption
    <3>2. attached[procOf[t]][r] > 1 /\ attached' = [attached EXCEPT ![procOf[t]][r] = @ - 1]
      BY <2>6 DEF Ipc_detach
    <3> QED BY <2>1, <3>1, <3>2
  <2> QED BY <2>2, <2>3, <2>4, <2>5, <2>6
<1> QED BY <1>1, IpcInvHolds, PTL DEF Spec, ConnectionComplete
=============================================================================
