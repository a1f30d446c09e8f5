-------------------------------- MODULE Ipc ---------------------------------
(***************************************************************************)
(* packages/ti/sdo/ipc/Ipc.c: processors attach to and detach from each    *)
(* other through the reserved memory of shared region 0.  Of two           *)
(* processors the one with the smaller id is the slave: it allocates the   *)
(* memory of the instances that connect the two, writes their addresses to *)
(* its slot and frees them at the end; the master comes second and goes    *)
(* first.  A startedKey in the slot of each tells the other how far it is. *)
(*                                                                         *)
(* Region 0 is not cached (SharedRegion_isCacheEnabled(0) is false).       *)
(* A processor calls Ipc_start and Ipc_stop once.                          *)
(***************************************************************************)
EXTENDS Naturals, Sequences

CONSTANTS
  numProcs,    \* processors 0 .. numProcs - 1 of the cluster
  owner,       \* owner of shared region 0
  Task,        \* tasks that call Ipc
  procOf,      \* procOf[t]: the processor of task t
  Component,   \* the instances of a connection, in the order of their setup
  MaxAttach,   \* bound: MaxAttach[p] counts how often p attaches to another
  None

Proc == 0..(numProcs - 1)
Comps == {Component[i] : i \in DOMAIN Component}

ASSUME IpcAssumption ==
  /\ numProcs \in Nat \ {0, 1} /\ owner \in Proc
  /\ procOf \in [Task -> Proc]
  /\ MaxAttach \in [Proc -> Nat \ {0}]
  /\ Component \in Seq(Comps) \ {<<>>}
  /\ None \notin Proc

VARIABLES
  procSync,   \* the configuration parameter: "ALL" or "PAIR"
  state,      \* state[p]: Ipc_start and Ipc_stop of a processor
  toAttach,   \* toAttach[p]: those to whom Ipc_start of p has still to attach
  sr0,        \* processors that have the default gate and the heap of region 0
  reserved,   \* shared: reserved[p][slot]: startedKey and addresses
  allocated,  \* allocated[s][m][c]: blocks of the heap for an instance of the
              \* slave s and the master m
  instance,   \* instance[p][q]: the instances of p that connect it to q
  attached,   \* attached[p][q]: how often p is attached to q
  pc, remote, step   \* of every task

shared == <<reserved, allocated>>
start == <<procSync, state, toAttach>>
local == <<start, sr0, instance, attached>>
task == <<pc, remote, step>>
vars == <<shared, local, task>>

-----------------------------------------------------------------------------
\* Ipc_getSlaveAddr and getMasterAddr: area and slot of the reserved memory.
SlaveAddr(self, q) ==
  IF self < q THEN <<self, q - 1>> ELSE <<q, self - 1>>
MasterAddr(self, q) ==
  IF self < q THEN <<q, self>> ELSE <<self, q>>

Slave(self, q) == IF self < q THEN self ELSE q
Master(self, q) == IF self < q THEN q ELSE self

OwnAddr(self, q) == IF self < q THEN SlaveAddr(self, q) ELSE MasterAddr(self, q)
PeerAddr(self, q) == IF self < q THEN MasterAddr(self, q) ELSE SlaveAddr(self, q)
Key(a) == reserved[a[1]][a[2]].startedKey

SetKey(a, k) == reserved' = [reserved EXCEPT ![a[1]][a[2]].startedKey = k]

Cleared == [startedKey |-> "none", ptr |-> [c \in Comps |-> "invalid"]]

Init ==
  /\ procSync \in {"ALL", "PAIR"}
  /\ state = [p \in Proc |-> "stopped"]
  /\ toAttach = [p \in Proc |-> {}]
  /\ sr0 = {}
  /\ reserved = [p \in Proc |-> [s \in Proc |-> Cleared]]
  /\ allocated = [p \in Proc |-> [q \in Proc |-> [c \in Comps |-> 0]]]
  /\ instance = [p \in Proc |-> [q \in Proc |-> {}]]
  /\ attached = [p \in Proc |-> [q \in Proc |-> 0]]
  /\ pc = [t \in Task |-> "idle"]
  /\ remote = [t \in Task |-> None]
  /\ step = [t \in Task |-> 0]

Goto(t, label) == pc' = [pc EXCEPT ![t] = label] /\ UNCHANGED <<remote, step>>
GotoStep(t, label, n) ==
  /\ pc' = [pc EXCEPT ![t] = label]
  /\ step' = [step EXCEPT ![t] = n]
  /\ UNCHANGED remote
Return(t) ==
  /\ pc' = [pc EXCEPT ![t] = "idle"]
  /\ remote' = [remote EXCEPT ![t] = None]
  /\ step' = [step EXCEPT ![t] = 0]
At(t, label) == pc[t] = label

\* An error other than E_NOTREADY also ends Ipc_start.
Failed(t) ==
  /\ state' = [state EXCEPT ![procOf[t]] = IF @ = "starting" THEN "failed" ELSE @]
  /\ Return(t)
  /\ UNCHANGED <<procSync, toAttach>>
Fail(t) == Failed(t) /\ UNCHANGED <<shared, sr0, instance, attached>>

-----------------------------------------------------------------------------
\* "Must attach to owner first to get default GateMP and HeapMemMP", to the
\* other processors in the order of their ids.
Turn(p, q) ==
  /\ q \in toAttach[p]
  /\ owner \in toAttach[p] => q = owner
  /\ owner \notin toAttach[p] => \A r \in toAttach[p] : q <= r

\* Ipc_start: the owner of region 0 clears the reserved memory and creates
\* the default gate and the heap.  With procSync ALL it goes on to attach.
Ipc_start(p) ==
  /\ state[p] = "stopped"
  /\ \/ /\ procSync = "ALL"
        /\ state' = [state EXCEPT ![p] = "starting"]
        /\ toAttach' = [toAttach EXCEPT ![p] = Proc \ {p}]
     \/ /\ procSync = "PAIR"
        /\ state' = [state EXCEPT ![p] = "started"]
        /\ UNCHANGED toAttach
  /\ \/ /\ p = owner
        /\ reserved' = [q \in Proc |-> [s \in Proc |-> Cleared]]
        /\ sr0' = sr0 \cup {p}
     \/ p # owner /\ UNCHANGED <<reserved, sr0>>
  /\ UNCHANGED <<procSync, allocated, instance, attached, task>>

\* The calls of an application are followed with procSync PAIR, with ALL the
\* model ends with Ipc_start.
MayCall(p) == procSync = "PAIR" /\ state[p] = "started"

\* Ipc_stop, "only once and only after detaching from all processors": the
\* owner deletes the heap and the default gate.
Ipc_stop(p) ==
  /\ MayCall(p)
  /\ \A q \in Proc : attached[p][q] = 0
  /\ \A t \in Task : procOf[t] = p => pc[t] = "idle"
  /\ state' = [state EXCEPT ![p] = "finished"]
  /\ sr0' = sr0 \ {p}
  /\ UNCHANGED <<procSync, toAttach, shared, instance, attached, task>>

\* Ipc_attach counts if the processor is attached, and fails if the owner of
\* region 0 must come first.
Ipc_attach(t, q) ==
  LET p == procOf[t] IN
  /\ At(t, "idle") /\ q # p
  /\ MayCall(p) \/ (state[p] = "starting" /\ Turn(p, q))
  /\ \/ /\ attached[p][q] \in 1..(MaxAttach[p] - 1)
        /\ attached' = [attached EXCEPT ![p][q] = @ + 1]
        /\ UNCHANGED <<task, state>>
     \/ /\ attached[p][q] = 0
        /\ owner \in {p, q} \/ attached[p][owner] > 0
        /\ pc' = [pc EXCEPT ![t] = "syncStart"]
        /\ remote' = [remote EXCEPT ![t] = q]
        /\ UNCHANGED <<step, attached, state>>
     \/ /\ attached[p][q] = 0
        /\ owner \notin {p, q} /\ attached[p][owner] = 0
        /\ state' = [state EXCEPT ![p] = IF @ = "starting" THEN "refused" ELSE @]
        /\ UNCHANGED <<task, attached>>
  /\ UNCHANGED <<shared, procSync, toAttach, sr0, instance>>

\* procSyncStart of the slave: its key is set before it looks for the master.
SyncStartSlave(t) ==
  LET p == procOf[t]
      q == remote[t]
  IN
  /\ At(t, "syncStart") /\ p < q
  /\ SetKey(OwnAddr(p, q), "START")
  /\ Goto(t, "syncRead")
  /\ UNCHANGED <<allocated, local>>

\* procSyncStart of the master: E_NOTREADY until one of them has started.
SyncStartMaster(t) ==
  LET p == procOf[t]
      q == remote[t]
  IN
  /\ At(t, "syncStart") /\ p > q
  /\ \/ /\ "START" \in {Key(OwnAddr(p, q)), Key(PeerAddr(p, q))}
        /\ Goto(t, "syncWrite")
     \/ /\ "START" \notin {Key(OwnAddr(p, q)), Key(PeerAddr(p, q))}
        /\ Return(t)
  /\ UNCHANGED <<shared, local>>

SyncWrite(t) ==
  /\ At(t, "syncWrite")
  /\ SetKey(OwnAddr(procOf[t], remote[t]), "START")
  /\ Goto(t, "syncRead")
  /\ UNCHANGED <<allocated, local>>

\* Mutants of Awaited: the master does not wait for the slave to finish; the
\* slave waits for the master to finish.
AwaitedStart(p, q) == "START"
AwaitedFinish(p, q) == "FINISH"

\* The slave goes on when the master has started, the master when the slave
\* has finished.
Awaited(p, q) == IF p < q THEN "START" ELSE "FINISH"

SyncRead(t) ==
  LET p == procOf[t]
      q == remote[t]
  IN
  /\ At(t, "syncRead")
  /\ \/ Key(PeerAddr(p, q)) = Awaited(p, q) /\ Goto(t, "modules")
     \/ Key(PeerAddr(p, q)) # Awaited(p, q) /\ Return(t)
  /\ UNCHANGED <<shared, local>>

\* GateMP_attach and SharedRegion_attach open the default gate and the heaps.
AttachModules(t) ==
  LET p == procOf[t] IN
  /\ At(t, "modules")
  /\ \/ /\ sr0' = IF remote[t] = owner THEN sr0 \cup {p} ELSE sr0
        /\ GotoStep(t, "setup", 1)
        /\ UNCHANGED <<shared, start, instance, attached>>
     \/ Fail(t)

\* One component: the slave allocates the memory and stores its address, both
\* create their instance.
Setup(t) ==
  LET p == procOf[t]
      q == remote[t]
      a == SlaveAddr(p, q)
      c == Component[step[t]]
  IN
  /\ At(t, "setup")
  /\ IF p < q /\ c \notin instance[p][q]
     THEN /\ allocated' = [allocated EXCEPT ![p][q][c] = @ + 1]
          /\ reserved' = [reserved EXCEPT ![a[1]][a[2]].ptr[c] = "block"]
     ELSE UNCHANGED shared
  /\ instance' = [instance EXCEPT ![p][q] = @ \cup {c}]
  /\ IF step[t] = Len(Component) THEN GotoStep(t, "user", 0)
     ELSE GotoStep(t, "setup", step[t] + 1)
  /\ UNCHANGED <<start, sr0, attached>>

\* The allocation or the attach function of the component fails; in the second
\* case the slave frees the memory, but its slot keeps the address.
SetupFails(t) ==
  LET p == procOf[t]
      q == remote[t]
      a == SlaveAddr(p, q)
      c == Component[step[t]]
  IN
  /\ At(t, "setup") /\ c \notin instance[p][q]
  /\ \/ p < q /\ reserved' = [reserved EXCEPT ![a[1]][a[2]].ptr[c] = "block"]
     \/ UNCHANGED reserved
  /\ Failed(t)
  /\ UNCHANGED <<allocated, sr0, instance, attached>>

\* "Call user attach fxns": one of them may fail.
UserAttach(t) ==
  /\ At(t, "user")
  /\ \/ Goto(t, "finish") /\ UNCHANGED <<shared, local>>
     \/ Fail(t)

\* procSyncFinish; the slave waits for the master.
SyncFinish(t) ==
  LET p == procOf[t]
      q == remote[t]
  IN
  /\ At(t, "finish")
  /\ SetKey(OwnAddr(p, q), "FINISH")
  /\ Goto(t, IF p < q THEN "waitFinish" ELSE "count")
  /\ UNCHANGED <<allocated, local>>

WaitFinish(t) ==
  /\ At(t, "waitFinish")
  /\ Key(PeerAddr(procOf[t], remote[t])) \in {"FINISH", "DETACH"}
  /\ Goto(t, "count")
  /\ UNCHANGED <<shared, local>>

CountAttached(t) ==
  LET p == procOf[t]
      rest == toAttach[p] \ {remote[t]}
  IN
  /\ At(t, "count")
  /\ attached' = [attached EXCEPT ![p][remote[t]] = @ + 1]
  /\ IF state[p] = "starting"
     THEN /\ toAttach' = [toAttach EXCEPT ![p] = rest]
          /\ state' = [state EXCEPT ![p] = IF rest = {} THEN "started" ELSE @]
     ELSE UNCHANGED <<toAttach, state>>
  /\ Return(t)
  /\ UNCHANGED <<shared, procSync, sr0, instance>>

-----------------------------------------------------------------------------
\* Mutant of MayDetach: the slave does not wait for the master.
MayDetachAlways(p, q) == TRUE

\* "check to make sure master is not trying to attach"; "The slave processor
\* waits for master to finish its detach sequence".
MayDetach(p, q) ==
  IF p < q THEN Key(MasterAddr(p, q)) = "DETACH" ELSE Key(SlaveAddr(p, q)) # "START"

\* Mutant of OwnerLast: in any order.
OwnerLastAny(p, q) == TRUE

\* "detach from all other procs in cluster before detaching from owner of SR 0".
OwnerLast(p, q) == q = owner => \A r \in Proc \ {p, owner} : attached[p][r] = 0

\* The call of Ipc_detach that tears the connection down.
Last(p, q) == attached[p][q] = 1

\* Ipc_detach counts down to 1 and tears the connection down when it is called
\* for the last time.
Ipc_detach(t, q) ==
  LET p == procOf[t] IN
  /\ At(t, "idle") /\ MayCall(p) /\ q # p
  /\ \/ /\ attached[p][q] > 1
        /\ attached' = [attached EXCEPT ![p][q] = @ - 1]
        /\ UNCHANGED task
     \/ /\ Last(p, q) /\ OwnerLast(p, q) /\ MayDetach(p, q)
        /\ pc' = [pc EXCEPT ![t] = "teardown"]
        /\ remote' = [remote EXCEPT ![t] = q]
        /\ step' = [step EXCEPT ![t] = Len(Component)]
        /\ UNCHANGED attached
  /\ UNCHANGED <<shared, start, sr0, instance>>

\* Mutant of Freed: it looks for the address in the slot of the master.
FreedOfMaster(p, q, c) ==
  LET a == MasterAddr(p, q) IN
  p < q /\ c \in instance[p][q] /\ reserved[a[1]][a[2]].ptr[c] = "block"

\* "free the memory if slave processor".
Freed(p, q, c) ==
  LET a == SlaveAddr(p, q) IN
  p < q /\ c \in instance[p][q] /\ reserved[a[1]][a[2]].ptr[c] = "block"

\* The components in reverse: the instance is deleted, then the slave frees
\* the memory; the component may also refuse.
Teardown(t) ==
  LET p == procOf[t]
      q == remote[t]
      a == SlaveAddr(p, q)
      c == Component[step[t]]
  IN
  /\ At(t, "teardown")
  /\ \/ /\ instance' = [instance EXCEPT ![p][q] = @ \ {c}]
        /\ IF Freed(p, q, c)
           THEN /\ allocated' = [allocated EXCEPT ![Slave(p, q)][Master(p, q)][c] = @ - 1]
                /\ reserved' = [reserved EXCEPT ![a[1]][a[2]].ptr[c] = "invalid"]
           ELSE UNCHANGED shared
        /\ GotoStep(t, IF step[t] = 1 THEN "detachModules" ELSE "teardown", step[t] - 1)
     \/ c \in instance[p][q] /\ Return(t) /\ UNCHANGED <<shared, instance>>
  /\ UNCHANGED <<start, sr0, attached>>

\* SharedRegion_detach and GateMP_detach close what attach has opened, or
\* fail; then the key tells the other processor.
DetachModules(t) ==
  LET p == procOf[t]
      q == remote[t]
  IN
  /\ At(t, "detachModules")
  /\ \/ /\ sr0' = IF q = owner THEN sr0 \ {p} ELSE sr0
        /\ SetKey(OwnAddr(p, q), "DETACH")
        /\ Goto(t, "uncount")
     \/ Return(t) /\ UNCHANGED <<reserved, sr0>>
  /\ UNCHANGED <<allocated, start, instance, attached>>

CountDetached(t) ==
  LET p == procOf[t] IN
  /\ At(t, "uncount")
  /\ attached' = [attached EXCEPT ![p][remote[t]] = @ - 1]
  /\ Return(t)
  /\ UNCHANGED <<shared, start, sr0, instance>>

-----------------------------------------------------------------------------
Step(t) ==
  \/ SyncStartSlave(t) \/ SyncStartMaster(t) \/ SyncWrite(t) \/ SyncRead(t)
  \/ AttachModules(t) \/ Setup(t) \/ SetupFails(t) \/ UserAttach(t)
  \/ SyncFinish(t) \/ WaitFinish(t) \/ CountAttached(t)
  \/ Teardown(t) \/ DetachModules(t) \/ CountDetached(t)

Next ==
  \/ \E p \in Proc : Ipc_start(p) \/ Ipc_stop(p)
  \/ \E t \in Task :
       \/ \E q \in Proc : Ipc_attach(t, q) \/ Ipc_detach(t, q)
       \/ Step(t)

\* Every processor is started, and its Ipc_start polls the other ones ("while
\* (status == Ipc_E_NOTREADY)").
StartAttach(t) == procSync = "ALL" /\ \E q \in Proc : Ipc_attach(t, q)

Fairness ==
  /\ \A p \in Proc : WF_vars(Ipc_start(p))
  /\ \A t \in Task : WF_vars(Step(t)) /\ WF_vars(StartAttach(t))

Spec == Init /\ [][Next]_vars /\ Fairness

-----------------------------------------------------------------------------
Attaching == {"syncStart", "syncWrite", "syncRead", "modules", "setup", "user", "finish",
              "waitFinish", "count"}
Detaching == {"teardown", "detachModules", "uncount"}

TypeOK ==
  /\ procSync \in {"ALL", "PAIR"}
  /\ state \in [Proc -> {"stopped", "starting", "started", "failed", "refused", "finished"}]
  /\ toAttach \in [Proc -> SUBSET Proc]
  /\ \A p \in Proc :
       IF state[p] = "starting" THEN toAttach[p] # {}
       ELSE state[p] \notin {"failed", "refused"} => toAttach[p] = {}
  /\ sr0 \subseteq Proc
  /\ reserved \in [Proc -> [Proc ->
       [startedKey : {"none", "START", "FINISH", "DETACH"},
        ptr : [Comps -> {"invalid", "block"}]]]]
  /\ allocated \in [Proc -> [Proc -> [Comps -> Nat]]]
  /\ instance \in [Proc -> [Proc -> SUBSET Comps]]
  /\ attached \in [Proc -> [Proc -> Nat]]
  /\ \A p, q \in Proc : attached[p][q] \in 0..MaxAttach[p]
  /\ pc \in [Task -> {"idle"} \cup Attaching \cup Detaching]
  /\ remote \in [Task -> Proc \cup {None}]
  /\ step \in [Task -> 0..Len(Component)]

\* No instance uses memory that the slave has not allocated yet or has freed
\* already, on neither side.
InstanceHasMemory ==
  \A p, q \in Proc : \A c \in instance[p][q] :
    allocated[Slave(p, q)][Master(p, q)][c] = 1

\* Every block belongs to an instance of the slave that knows its address:
\* no failed attach leaks memory of region 0.
BlocksAccounted ==
  \A s, m \in Proc, c \in Comps :
    allocated[s][m][c] > 0 =>
      s < m /\ c \in instance[s][m] /\ reserved[SlaveAddr(s, m)[1]][SlaveAddr(s, m)[2]].ptr[c] = "block"

\* When a master counts itself attached, every component of the connection has
\* its instance at both ends; a slave then has its own ones complete.
ConnectionComplete ==
  [][\A p, q \in Proc :
       attached[p][q] = 0 /\ attached'[p][q] = 1 =>
         instance[p][q] = Comps /\ (q < p => instance[q][p] = Comps)]_vars

\* Two processors that have both detached leave nothing behind, however often
\* an attach of theirs had failed before: no instance and no block.
DetachedClean ==
  \A s, m \in Proc :
    s < m /\ Key(SlaveAddr(s, m)) = "DETACH" /\ Key(MasterAddr(s, m)) = "DETACH" =>
      /\ instance[s][m] = {} /\ instance[m][s] = {}
      /\ \A c \in Comps : allocated[s][m][c] = 0

\* Whoever is attached to anybody has the default gate and the heap of region
\* 0, and their owner has not deleted them.
Quiet(p, q) == \A t \in Task : procOf[t] = p => remote[t] # q
RegionZeroThere ==
  \A p, q \in Proc :
    attached[p][q] > 0 /\ Quiet(p, q) => p \in sr0 /\ owner \in sr0

\* With procSync ALL the processors do not wait for each other in a circle:
\* unless an attach fails, every Ipc_start ends, attached to all others.
StartEnds ==
  procSync = "ALL" ~>
    \/ \E p \in Proc : state[p] = "failed"
    \/ \A p, q \in Proc : p # q => attached[p][q] = 1

\* The inductive invariant, for processors with one task.  Where p is in its
\* attach or detach of q:
OneTask == \A t, u \in Task : procOf[t] = procOf[u] => t = u
Calls(t, p, q) == procOf[t] = p /\ remote[t] = q
Caller(p, q) == CHOOSE t \in Task : Calls(t, p, q)
Label(p, q) == IF \E t \in Task : Calls(t, p, q) THEN pc[Caller(p, q)] ELSE "idle"
StepAt(p, q) == IF \E t \in Task : Calls(t, p, q) THEN step[Caller(p, q)] ELSE 0

TaskInv ==
  \A t \in Task :
    /\ pc[t] = "idle" <=> remote[t] = None
    /\ remote[t] # procOf[t]
SelfInv == \A p \in Proc : attached[p][p] = 0 /\ instance[p][p] = {}

\* The keys of slave and master, from the first attach to the next one.
Phases == {<<"none", "none">>, <<"START", "none">>, <<"START", "START">>, <<"FINISH", "START">>,
           <<"FINISH", "FINISH">>, <<"FINISH", "DETACH">>, <<"DETACH", "DETACH">>,
           <<"START", "DETACH">>}

\* The instances I of a processor while it is at step n of label l.
StepsOK(I, l, n) ==
  /\ l = "setup" => n \in DOMAIN Component /\ \A j \in 1..(n - 1) : Component[j] \in I
  /\ l \in {"user", "finish", "waitFinish", "count"} => I = Comps
  /\ l = "teardown" =>
       n \in DOMAIN Component /\ \A j \in DOMAIN Component : j > n => Component[j] \notin I
  /\ l \in {"detachModules", "uncount"} => I = {}

\* Keys ks and km of a pair, and of one of them the instances I, the count a of
\* its attaches and the step n of its label l.
SlaveOK(ks, km, I, a, l, n) ==
  /\ StepsOK(I, l, n)
  /\ a > 0 <=> (ks = "FINISH" /\ l \notin {"waitFinish", "count"}) \/ l = "uncount"
  /\ l \in Attaching => a = 0
  /\ l \in Detaching => a = 1
  /\ l # "syncWrite"
  /\ l = "syncRead" => ks = "START" \/ km = "none"
  /\ l \in {"modules", "setup", "user", "finish"} => ks = "START" /\ km = "START"
  /\ l \in {"waitFinish", "count"} => ks = "FINISH"
  /\ l = "count" => km # "START"
  /\ l \in Detaching => km = "DETACH"
  /\ l = "uncount" => ks = "DETACH"
  /\ ks = "FINISH" /\ km # "DETACH" => I = Comps
  /\ ks \in {"none", "DETACH"} \/ km = "none" => I = {}

MasterOK(ks, km, I, a, l, n) ==
  /\ StepsOK(I, l, n)
  /\ a > 0 <=> (km = "FINISH" /\ l # "count") \/ l = "uncount"
  /\ l \in Attaching => a = 0
  /\ l \in Detaching => a = 1
  /\ l # "waitFinish"
  /\ l = "syncWrite" => "START" \in {ks, km}
  /\ l = "syncRead" => km = "START"
  /\ l \in {"modules", "setup", "user", "finish"} => ks = "FINISH" /\ km = "START"
  /\ l = "count" => km = "FINISH"
  /\ l = "uncount" => km = "DETACH"
  /\ I # {} => ks = "FINISH" /\ km \in {"START", "FINISH"}

PairInv ==
  \A s, m \in Proc : s < m =>
    LET ks == Key(SlaveAddr(s, m))
        km == Key(MasterAddr(s, m))
    IN
    /\ <<ks, km>> \in Phases
    /\ SlaveOK(ks, km, instance[s][m], attached[s][m], Label(s, m), StepAt(s, m))
    /\ MasterOK(ks, km, instance[m][s], attached[m][s], Label(m, s), StepAt(m, s))

MemoryInv ==
  \A s, m \in Proc, c \in Comps :
    /\ allocated[s][m][c] = IF s < m /\ c \in instance[s][m] THEN 1 ELSE 0
    /\ s < m /\ c \in instance[s][m] =>
         reserved[SlaveAddr(s, m)[1]][SlaveAddr(s, m)[2]].ptr[c] = "block"

\* Before its start and after its stop a processor does nothing; before the
\* start of the owner, which clears the keys, slaves have at most begun.
StopInv ==
  \A p, q \in Proc : state[p] \in {"stopped", "finished"} =>
    Label(p, q) = "idle" /\ attached[p][q] = 0
FreshInv ==
  state[owner] = "stopped" => \A s, m \in Proc : s < m =>
    /\ Key(MasterAddr(s, m)) = "none"
    /\ Key(SlaveAddr(s, m)) \in {"none", "START"}
    /\ Key(SlaveAddr(s, m)) = "START" => s # owner

\* The connection to the owner of region 0 comes first and goes last.
RouteInv ==
  \A p, q \in Proc \ {owner} :
    Label(p, q) # "idle" \/ attached[p][q] > 0 =>
      attached[p][owner] > 0 /\ Label(p, owner) \notin Detaching
RegionInv ==
  /\ owner \in sr0 <=> state[owner] \notin {"stopped", "finished"}
  /\ \A p \in Proc \ {owner} :
       \/ attached[p][owner] > 0 /\ Label(p, owner) # "uncount"
       \/ Label(p, owner) \in {"setup", "user", "finish", "waitFinish", "count"}
       => p \in sr0

IInv ==
  /\ TypeOK /\ TaskInv /\ SelfInv /\ PairInv /\ MemoryInv
  /\ StopInv /\ FreshInv /\ RouteInv /\ RegionInv

\* Types, instances only on memory that the slave has allocated, and no block
\* without its instance, however attach and detach of the two sides interleave.
Inv == InstanceHasMemory /\ BlocksAccounted /\ IInv
=============================================================================
