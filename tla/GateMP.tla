------------------------------- MODULE GateMP -------------------------------
(***************************************************************************)
(* packages/ti/sdo/ipc/GateMP.c: how the processors share gates.  A gate   *)
(* with remote protection owns a resource id, marked in the inUse array in *)
(* shared memory; its attrs (status, resource id) lie in shared memory     *)
(* too, and are found through the NameServer.  Each processor keeps one    *)
(* object per gate it uses, in its table of remote gates, and counts the   *)
(* opens of its threads.  What a lock does once it is open is the subject  *)
(* of GatePeterson and GatePetersonN; here is who locks what.              *)
(*                                                                         *)
(* GateMP does not count the opens of other processors.  The application   *)
(* deletes a gate only when nobody uses it; with AppLocks the threads of a *)
(* processor also keep their opens and closes of one gate apart.           *)
(***************************************************************************)
EXTENDS Naturals, FiniteSets

CONSTANTS
  Thread,      \* threads of all processors
  procOf,      \* procOf[t]: the processor of thread t
  Addr,        \* places for attrs; one also names the gate that lives there
  NumRemote,   \* numRemoteSystem: resource ids, without the reserved ones
  LocalAddr,   \* places whose gates are created with RemoteProtect_NONE
  NULL,
  AppLocks     \* do threads of a processor exclude each other in open and close?

Proc == {procOf[t] : t \in Thread}
Rid == 0..(NumRemote - 1)

ASSUME ThreadAssumption == DOMAIN procOf = Thread /\ IsFiniteSet(Thread)
ASSUME AddrAssumption == LocalAddr \subseteq Addr /\ NULL \notin Addr \cup Rid
ASSUME ResourceAssumption == NumRemote \in Nat /\ AppLocks \in BOOLEAN

VARIABLES
  inUse,       \* shared, region 0: which resource ids are "USED"
  status,      \* shared attrs: "CREATED", "0" or, before any use, "free"
  arg,         \* shared attrs: the resource id, NULL for a local gate
  names,       \* external: the gates whose name is in the NameServer
  gates,       \* gates[p][r]: remoteSystemGates, the gate of the object
  obj,         \* obj[p][a]: the object of processor p for the gate at a
  handle,      \* the handle that a thread has from create or open
  pc, tAddr,   \* where each thread is, and with which gate
  asserts      \* the assertions and NULL accesses that happened

shared == <<inUse, status, arg, names>>
local == <<gates, obj>>
thread == <<pc, tAddr>>
vars == <<shared, local, handle, thread, asserts>>

NoObject ==
  [objType |-> "none", attrs |-> NULL, resourceId |-> NULL, numOpens |-> 0]
NoHandle == [kind |-> "none", gate |-> NULL]

Init ==
  /\ inUse = [r \in Rid |-> "UNUSED"]
  /\ status = [a \in Addr |-> "free"]
  /\ arg = [a \in Addr |-> NULL]
  /\ names = {}
  /\ gates = [p \in Proc |-> [r \in Rid |-> NULL]]
  /\ obj = [p \in Proc |-> [a \in Addr |-> NoObject]]
  /\ handle = [t \in Thread |-> NoHandle]
  /\ pc = [t \in Thread |-> "idle"]
  /\ tAddr = [t \in Thread |-> NULL]
  /\ asserts = {}

Goto(t, label) == pc' = [pc EXCEPT ![t] = label] /\ UNCHANGED tAddr
Call(t, label, a) == pc' = [pc EXCEPT ![t] = label] /\ tAddr' = [tAddr EXCEPT ![t] = a]
Return(t) == Call(t, "idle", NULL)

\* A thread that is idle and has room for a handle.
Ready(t) == pc[t] = "idle" /\ handle[t] = NoHandle
Object(t) == obj[procOf[t]][tAddr[t]]

-----------------------------------------------------------------------------
(* GateMP_create.                                                          *)

\* Instance_init: the object, and memory for its attrs.
create(t, a) ==
  /\ Ready(t)
  /\ status[a] = "free"
  /\ status' = [status EXCEPT ![a] = "0"]
  /\ obj' = [obj EXCEPT ![procOf[t]][a] =
               [NoObject EXCEPT !.objType = "create", !.attrs = a]]
  /\ Call(t, IF a \in LocalAddr THEN "fill" ELSE "getResource", a)
  /\ UNCHANGED <<inUse, arg, names, gates, handle, asserts>>

\* Memory_alloc fails: Instance_init returns 2 or 3, and Instance_finalize is
\* called for an object without attrs (a is only its name meanwhile).
createWithoutMemory(t, a) ==
  /\ Ready(t)
  /\ status[a] = "free"
  /\ status' = [status EXCEPT ![a] = "0"]
  /\ obj' = [obj EXCEPT ![procOf[t]][a] = [NoObject EXCEPT !.objType = "create"]]
  /\ Call(t, "finalize", a)
  /\ UNCHANGED <<inUse, arg, names, gates, handle, asserts>>

\* The lowest resource id that is free.
FirstFree == {r \in Rid : inUse[r] = "UNUSED" /\ \A q \in Rid : q < r => inUse[q] = "USED"}

\* Under the default gate: the id is found and marked, or create fails.
getFreeResource(t) ==
  /\ pc[t] = "getResource"
  /\ \/ \E r \in FirstFree :
          /\ inUse' = [inUse EXCEPT ![r] = "USED"]
          /\ obj' = [obj EXCEPT ![procOf[t]][tAddr[t]].resourceId = r]
          /\ Goto(t, "publish")
     \/ FirstFree = {} /\ Goto(t, "finalize") /\ UNCHANGED <<inUse, obj>>
  /\ UNCHANGED <<status, arg, names, gates, handle, asserts>>

\* The proxy is created and the object entered into the table, or the proxy
\* cannot be created.
publish(t) ==
  /\ pc[t] = "publish"
  /\ \/ /\ gates' = [gates EXCEPT ![procOf[t]][Object(t).resourceId] = tAddr[t]]
        /\ Goto(t, "fill")
     \/ Goto(t, "finalize") /\ UNCHANGED gates
  /\ UNCHANGED <<shared, obj, handle, asserts>>

\* The attrs are filled in, status last.
fill(t) ==
  /\ pc[t] = "fill"
  /\ arg' = [arg EXCEPT ![tAddr[t]] = Object(t).resourceId]
  /\ status' = [status EXCEPT ![tAddr[t]] = "CREATED"]
  /\ Goto(t, "name")
  /\ UNCHANGED <<inUse, names, local, handle, asserts>>

\* NameServer_add, which fails if the name is taken.
name(t) ==
  /\ pc[t] = "name"
  /\ \/ /\ names' = names \cup {tAddr[t]}
        /\ handle' = [handle EXCEPT ![t] = [kind |-> "created", gate |-> tAddr[t]]]
        /\ Return(t)
     \/ Goto(t, "finalize") /\ UNCHANGED <<names, handle>>
  /\ UNCHANGED <<inUse, status, arg, local, asserts>>

-----------------------------------------------------------------------------
(* GateMP_open and GateMP_openByAddr.                                      *)

\* A thread of processor p is between the stages of a close (or of an open) of
\* the gate at a.
Busy(p, a, stages) ==
  \E u \in Thread : procOf[u] = p /\ tAddr[u] = a /\ pc[u] \in stages

\* The NameServer knows the gate (a local gate of another processor is
\* refused) and its attrs say that it is there; otherwise E_NOTFOUND.
open(t, a) ==
  /\ Ready(t)
  /\ a \in names
  /\ a \in LocalAddr => obj[procOf[t]][a] # NoObject
  /\ status[a] = "CREATED"
  /\ AppLocks => ~Busy(procOf[t], a, {"finalize", "proxy"})
  /\ Call(t, "open", a)
  /\ UNCHANGED <<shared, local, handle, asserts>>

\* Between Hwi_disable and Hwi_restore: an object of this processor is counted
\* once more, and a gate that it does not know gets an object, unless
\* GateMP_create fails and leaves nothing behind.
openObject(t) ==
  LET p == procOf[t]
      r == arg[tAddr[t]]
      known == IF r = NULL THEN tAddr[t] ELSE gates[p][r]
      a == IF known = NULL THEN tAddr[t] ELSE known
      opened == [handle EXCEPT ![t] = [kind |-> "opened", gate |-> a]]
  IN
  /\ pc[t] = "open"
  /\ \/ /\ known # NULL
        /\ obj' = [obj EXCEPT ![p][a].numOpens = @ + 1]
        /\ handle' = opened
        /\ UNCHANGED gates
     \/ /\ known = NULL
        /\ obj' = [obj EXCEPT ![p][a] =
                     [objType |-> "open", attrs |-> a, resourceId |-> r,
                      numOpens |-> 1]]
        /\ gates' = [gates EXCEPT ![p][r] = a]
        /\ handle' = opened
     \/ known = NULL /\ UNCHANGED <<gates, obj, handle>>
  /\ Return(t)
  /\ UNCHANGED <<shared, asserts>>

-----------------------------------------------------------------------------
(* GateMP_close, GateMP_delete and Instance_finalize.                      *)

\* Mutant of close: an opened object is deleted whatever its count.
closeAlways(t) ==
  LET a == handle[t].gate
      o == obj[procOf[t]][a]
  IN
  /\ pc[t] = "idle" /\ handle[t].kind = "opened"
  /\ AppLocks => ~Busy(procOf[t], a, {"open"})
  /\ obj' = [obj EXCEPT ![procOf[t]][a].numOpens = @ - 1]
  /\ handle' = [handle EXCEPT ![t] = NoHandle]
  /\ IF o.objType = "open" THEN Call(t, "finalize", a) ELSE Return(t)
  /\ UNCHANGED <<shared, gates, asserts>>

\* numOpens is counted down with interrupts disabled; the last close of an
\* opened object deletes it, with interrupts enabled.
close(t) ==
  LET a == handle[t].gate
      o == obj[procOf[t]][a]
  IN
  /\ pc[t] = "idle" /\ handle[t].kind = "opened"
  /\ AppLocks => ~Busy(procOf[t], a, {"open"})
  /\ obj' = [obj EXCEPT ![procOf[t]][a].numOpens = @ - 1]
  /\ handle' = [handle EXCEPT ![t] = NoHandle]
  /\ IF o.numOpens = 1 /\ o.objType = "open" THEN Call(t, "finalize", a) ELSE Return(t)
  /\ UNCHANGED <<shared, gates, asserts>>

\* Instance_finalize: "Cannot call when numOpen is non-zero."  The name goes
\* and, unless the gate belongs to another processor, the status is written.
Finalize(t, a) ==
  LET o == obj[procOf[t]][a] IN
  /\ asserts' = asserts
       \cup (IF o.numOpens # 0 THEN {"A_invalidDelete"} ELSE {})
       \cup (IF o.objType = "create" /\ o.attrs = NULL THEN {"attrs NULL"} ELSE {})
  /\ IF o.objType = "create" /\ o.attrs # NULL
     THEN names' = names \ {a} /\ status' = [status EXCEPT ![a] = "0"]
     ELSE UNCHANGED <<names, status>>
  /\ Call(t, "proxy", a)
  /\ UNCHANGED <<inUse, arg, local>>

\* The creator deletes its gate, when no thread has it open or is about to
\* open or to close it.
delete(t) ==
  LET a == handle[t].gate IN
  /\ pc[t] = "idle" /\ handle[t].kind = "created"
  /\ \A u \in Thread : handle[u] # [kind |-> "opened", gate |-> a] /\ tAddr[u] # a
  /\ handle' = [handle EXCEPT ![t] = NoHandle]
  /\ Finalize(t, a)

\* After the last close, or after a create that failed.
finalize(t) ==
  /\ pc[t] = "finalize"
  /\ Finalize(t, tAddr[t])
  /\ UNCHANGED handle

\* Mutant of deleteProxy: also an opened object frees the resource id.
deleteProxyAlways(t) ==
  LET r == Object(t).resourceId IN
  /\ pc[t] = "proxy"
  /\ gates' = IF r # NULL THEN [gates EXCEPT ![procOf[t]][r] = NULL] ELSE gates
  /\ Goto(t, "freeResource")
  /\ UNCHANGED <<shared, obj, handle, asserts>>

\* The proxy and the entry of the table; an opened object is then gone.
deleteProxy(t) ==
  LET r == Object(t).resourceId IN
  /\ pc[t] = "proxy"
  /\ gates' = IF r # NULL THEN [gates EXCEPT ![procOf[t]][r] = NULL] ELSE gates
  /\ \/ /\ Object(t).objType = "open"
        /\ obj' = [obj EXCEPT ![procOf[t]][tAddr[t]] = NoObject]
        /\ Return(t)
     \/ /\ Object(t).objType # "open"
        /\ Goto(t, "freeResource")
        /\ UNCHANGED obj
  /\ UNCHANGED <<shared, handle, asserts>>

\* Mutant of freeResource: a failed create leaves its resource id in use.
freeResourceForgotten(t) ==
  /\ pc[t] = "freeResource"
  /\ status' = [status EXCEPT ![tAddr[t]] = "free"]
  /\ obj' = [obj EXCEPT ![procOf[t]][tAddr[t]] = NoObject]
  /\ Return(t)
  /\ UNCHANGED <<inUse, arg, names, gates, handle, asserts>>

\* Under the default gate: the creator's resource id is free again; then the
\* memory of the attrs.
freeResource(t) ==
  LET r == Object(t).resourceId IN
  /\ pc[t] = "freeResource"
  /\ inUse' = IF r # NULL THEN [inUse EXCEPT ![r] = "UNUSED"] ELSE inUse
  /\ status' = [status EXCEPT ![tAddr[t]] = "free"]
  /\ obj' = [obj EXCEPT ![procOf[t]][tAddr[t]] = NoObject]
  /\ Return(t)
  /\ UNCHANGED <<arg, names, gates, handle, asserts>>

-----------------------------------------------------------------------------
Step(t) ==
  getFreeResource(t) \/ publish(t) \/ fill(t) \/ name(t) \/ openObject(t)
    \/ finalize(t) \/ deleteProxy(t) \/ freeResource(t)

Next ==
  \E t \in Thread :
    \/ Step(t) \/ close(t) \/ delete(t)
    \/ \E a \in Addr : create(t, a) \/ createWithoutMemory(t, a) \/ open(t, a)

Spec == Init /\ [][Next]_vars

-----------------------------------------------------------------------------
TypeOK ==
  /\ inUse \in [Rid -> {"USED", "UNUSED"}]
  /\ status \in [Addr -> {"free", "0", "CREATED"}]
  /\ arg \in [Addr -> Rid \cup {NULL}]
  /\ names \subseteq Addr
  /\ gates \in [Proc -> [Rid -> Addr \cup {NULL}]]
  /\ obj \in [Proc -> [Addr -> [objType : {"none", "create", "open"},
                                attrs : Addr \cup {NULL},
                                resourceId : Rid \cup {NULL},
                                numOpens : 0..Cardinality(Thread)]]]
  /\ handle \in [Thread -> [kind : {"none", "created", "opened"},
                            gate : Addr \cup {NULL}]]
  /\ pc \in [Thread -> {"idle", "getResource", "publish", "fill", "name", "open",
                        "finalize", "proxy", "freeResource"}]
  /\ tAddr \in [Thread -> Addr \cup {NULL}]
  /\ asserts \subseteq {"A_invalidDelete", "attrs NULL"}

\* The resource id behind the handle of a thread.
Lock(t) == obj[procOf[t]][handle[t].gate].resourceId
Remote(t) == handle[t] # NoHandle /\ handle[t].gate \notin LocalAddr

\* Two threads of any processors have the same gate exactly if their handles
\* lead to the same resource id, the hardware lock or shared words that keep
\* them apart: no two gates share one, and no gate has two.
OneLockPerGate ==
  \A t, u \in Thread :
    Remote(t) /\ Remote(u) =>
      /\ Lock(t) \in Rid
      /\ handle[t].gate = handle[u].gate <=> Lock(t) = Lock(u)

\* A resource id is in use exactly if one object of a creator has it, also
\* when a create fails halfway: none is lost, none is given out twice.
ResourcesAccounted ==
  \A r \in Rid :
    Cardinality({x \in Proc \X Addr :
                   /\ obj[x[1]][x[2]].objType = "create"
                   /\ obj[x[1]][x[2]].resourceId = r})
      = (IF inUse[r] = "USED" THEN 1 ELSE 0)

\* numOpens of an object counts the handles that open gave to threads of its
\* processor, and a processor that has a gate open finds it in its table.
Opened(t, a) == handle[t] = [kind |-> "opened", gate |-> a]
Users(p, a) == {t \in Thread : procOf[t] = p /\ Opened(t, a)}
OpensCounted ==
  \A p \in Proc, a \in Addr :
    /\ obj[p][a].numOpens = Cardinality(Users(p, a))
    /\ Users(p, a) # {} /\ a \notin LocalAddr => gates[p][obj[p][a].resourceId] = a

\* Instance_finalize: "Cannot call when numOpen is non-zero."
NoInvalidDelete == "A_invalidDelete" \notin asserts

-----------------------------------------------------------------------------
(* Why these hold when AppLocks is TRUE: every gate has one owner, the     *)
(* thread that creates it, has its handle from create or deletes it.       *)

Creating(t) == pc[t] \in {"getResource", "publish", "fill", "name"}
Finalizing(t) == pc[t] \in {"finalize", "proxy"}
Private(t) ==
  \/ Creating(t) \/ pc[t] = "freeResource"
  \/ Finalizing(t) /\ Object(t).objType = "create"
Created(t, a) == handle[t] = [kind |-> "created", gate |-> a]
Owner(t, a) == Created(t, a) \/ (tAddr[t] = a /\ Private(t))

\* A thread in a call has no handle: it gets one or gives it away.
ThreadInv ==
  \A t \in Thread :
    /\ pc[t] = "idle" <=> tAddr[t] = NULL
    /\ pc[t] # "idle" => handle[t] = NoHandle
    /\ handle[t].kind = "none" <=> handle[t].gate = NULL

\* A gate has at most one owner, on the one processor whose object says so.
OwnerInv ==
  \A a \in Addr, t \in Thread :
    Owner(t, a) =>
      /\ status[a] # "free"
      /\ \A u \in Thread : Owner(u, a) => t = u
      /\ \A p \in Proc : obj[p][a].objType = "create" <=> p = procOf[t]

\* The memory of attrs that nobody owns is not in use in any other way.
VacantInv ==
  \A a \in Addr :
    \/ \E t \in Thread : Owner(t, a)
    \/ /\ status[a] = "free" /\ a \notin names
       /\ \A p \in Proc : obj[p][a] = NoObject
       /\ \A t \in Thread : tAddr[t] # a /\ handle[t].gate # a

\* While a gate is created or deleted, only its owner has to do with it.
PrivateInv ==
  \A t \in Thread :
    Private(t) =>
      /\ tAddr[t] \notin names
      /\ Object(t).numOpens = 0
      /\ \A u \in Thread : u # t => tAddr[u] # tAddr[t] /\ handle[u].gate # tAddr[t]
      /\ \A p \in Proc : p # procOf[t] => obj[p][tAddr[t]] = NoObject

\* The object of a creator knows the attrs; once they are filled in they say
\* what the object says, and then the name can be found.
CreatedInv ==
  \A t \in Thread, a \in Addr :
    /\ Created(t, a) => a \in names
    /\ Created(t, a) \/ (tAddr[t] = a /\ Creating(t)) => obj[procOf[t]][a].attrs = a
    /\ Created(t, a) \/ (tAddr[t] = a /\ pc[t] = "name") =>
         status[a] = "CREATED" /\ arg[a] = obj[procOf[t]][a].resourceId

\* A gate that is open, or about to be, is there; the thread that closes it
\* last is alone on its processor.
OpeningInv ==
  \A t \in Thread :
    /\ handle[t].kind = "opened" => handle[t].gate \in names
    /\ pc[t] = "open" =>
         /\ tAddr[t] \in names
         /\ tAddr[t] \in LocalAddr => Object(t).objType = "create"
    /\ Finalizing(t) =>
         /\ Object(t).objType # "none"
         /\ Object(t).numOpens = 0
         /\ \A u \in Thread : u # t /\ procOf[u] = procOf[t] => tAddr[u] # tAddr[t]

\* An object that open made has the resource id of the attrs, and is deleted
\* when its count is zero.
OpenObjectInv ==
  \A p \in Proc, a \in Addr :
    /\ obj[p][a].objType = "none" => obj[p][a] = NoObject
    /\ obj[p][a].objType = "open" =>
         /\ a \notin LocalAddr
         /\ obj[p][a].resourceId = arg[a]
         /\ arg[a] \in Rid
         /\ gates[p][arg[a]] = a
         /\ obj[p][a].numOpens = 0 =>
              \E t \in Thread : procOf[t] = p /\ tAddr[t] = a /\ Finalizing(t)

\* An owner has a resource id between getFreeResource and freeResource, and
\* an entry in the table between publish and deleteProxy.
ResourceInv ==
  \A t \in Thread, a \in Addr :
    LET r == obj[procOf[t]][a].resourceId IN
    /\ Owner(t, a) /\ a \in LocalAddr => r = NULL
    /\ tAddr[t] = a =>
         /\ pc[t] \in {"getResource", "publish"} => a \notin LocalAddr
         /\ pc[t] = "getResource" => r = NULL
         /\ pc[t] = "publish" => r \in Rid
         /\ pc[t] = "freeResource" /\ r # NULL => gates[procOf[t]][r] # a
    /\ a \notin LocalAddr /\ (Created(t, a) \/ (tAddr[t] = a /\ pc[t] \in {"fill", "name"})) =>
         r \in Rid /\ gates[procOf[t]][r] = a

\* The object of a creator that has resource id r.
Holds(p, a, r) == obj[p][a].objType = "create" /\ obj[p][a].resourceId = r

\* inUse marks the resource ids of the creators, each of one object.
UsedInv ==
  \A r \in Rid :
    /\ inUse[r] = "USED" <=> \E p \in Proc, a \in Addr : Holds(p, a, r)
    /\ \A p, q \in Proc, a, c \in Addr : Holds(p, a, r) /\ Holds(q, c, r) => p = q /\ a = c

\* An entry of the table is an object that has this resource id.
TableInv ==
  \A p \in Proc, r \in Rid :
    gates[p][r] # NULL =>
      /\ obj[p][gates[p][r]].objType # "none"
      /\ obj[p][gates[p][r]].resourceId = r

IInv ==
  /\ TypeOK /\ ThreadInv /\ OwnerInv /\ VacantInv /\ PrivateInv /\ CreatedInv
  /\ OpeningInv /\ OpenObjectInv /\ ResourceInv /\ UsedInv /\ TableInv
  /\ OpensCounted /\ NoInvalidDelete

\* Types, GateMP_open and GateMP_close counted per processor, no
\* Instance_finalize of a gate that its own processor has open, and the
\* one owner of every gate that these rest on.
Inv == IInv

\* Instance_finalize knows that "obj->attrs might be NULL if the Memory_alloc
\* failed in Instance_init" and does not write through it.
NoNullAttrs == "attrs NULL" \notin asserts
=============================================================================
