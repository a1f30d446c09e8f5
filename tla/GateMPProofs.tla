---------------------------- MODULE GateMPProofs ----------------------------
(***************************************************************************)
(* When the threads of a processor keep their opens and closes of a gate   *)
(* apart, GateMP gives every gate one lock of its own, accounts for every  *)
(* resource id and counts every open: for any number of processors,        *)
(* threads, gates and resource ids.                                        *)
(***************************************************************************)
EXTENDS GateMP, FiniteSetTheorems, TLAPS

-----------------------------------------------------------------------------
\* What the types say of single values.

Labels == {"idle", "getResource", "publish", "fill", "name", "open",
           "finalize", "proxy", "freeResource"}
Objects == [objType : {"none", "create", "open"}, attrs : Addr \cup {NULL},
            resourceId : Rid \cup {NULL}, numOpens : 0..Cardinality(Thread)]
Handles == [kind : {"none", "created", "opened"}, gate : Addr \cup {NULL}]

LEMMA TypesAre ==
  LET types == /\ inUse \in [Rid -> {"USED", "UNUSED"}]
               /\ status \in [Addr -> {"free", "0", "CREATED"}]
               /\ arg \in [Addr -> Rid \cup {NULL}]
               /\ names \subseteq Addr
               /\ gates \in [Proc -> [Rid -> Addr \cup {NULL}]]
               /\ obj \in [Proc -> [Addr -> Objects]]
               /\ handle \in [Thread -> Handles]
               /\ pc \in [Thread -> Labels]
               /\ tAddr \in [Thread -> Addr \cup {NULL}]
               /\ asserts \subseteq {"A_invalidDelete", "attrs NULL"}
  IN  (TypeOK <=> types) /\ (TypeOK' <=> types')
BY DEF TypeOK, Objects, Handles, Labels

LEMMA Procs ==
  ASSUME NEW t \in Thread
  PROVE  procOf[t] \in Proc
BY DEF Proc

LEMMA Constants ==
  /\ IsFiniteSet(Thread) /\ Cardinality(Thread) \in Nat
  /\ NULL \notin Addr /\ NULL \notin Rid /\ LocalAddr \subseteq Addr /\ Rid \subseteq Nat
BY ThreadAssumption, AddrAssumption, ResourceAssumption, FS_CardinalityType DEF Rid

LEMMA ObjectTypes ==
  ASSUME TypeOK, NEW p \in Proc, NEW a \in Addr
  PROVE  /\ obj[p][a] \in Objects
         /\ obj[p][a].objType \in {"none", "create", "open"}
         /\ obj[p][a].resourceId \in Rid \cup {NULL}
         /\ obj[p][a].numOpens \in 0..Cardinality(Thread)
<1>1. obj \in [Proc -> [Addr -> Objects]]
  BY DEF TypeOK, Objects
<1>2. obj[p][a] \in Objects
  BY <1>1
<1> QED BY ONLY <1>2 DEF Objects

LEMMA TableTypes ==
  ASSUME TypeOK, NEW p \in Proc, NEW r \in Rid
  PROVE  gates[p][r] \in Addr \cup {NULL}
<1>1. gates \in [Proc -> [Rid -> Addr \cup {NULL}]]
  BY DEF TypeOK
<1> QED BY ONLY <1>1, p \in Proc, r \in Rid

LEMMA NoObjectIs ==
  /\ NoObject \in Objects
  /\ NoObject.objType = "none" /\ NoObject.resourceId = NULL /\ NoObject.numOpens = 0
BY Constants DEF NoObject, Objects

LEMMA HandleTypes ==
  ASSUME TypeOK, NEW t \in Thread
  PROVE  /\ handle[t] \in Handles
         /\ handle[t].kind \in {"none", "created", "opened"}
         /\ handle[t].gate \in Addr \cup {NULL}
         /\ pc[t] \in Labels
         /\ tAddr[t] \in Addr \cup {NULL}
<1>1. /\ handle[t] \in Handles /\ pc[t] \in Labels /\ tAddr[t] \in Addr \cup {NULL}
  BY DEF TypeOK, Handles, Labels
<1> QED BY ONLY <1>1 DEF Handles

\* A handle is what its two fields say.
LEMMA HandleIs ==
  ASSUME TypeOK, ThreadInv, NEW t \in Thread
  PROVE  /\ \A a \in Addr : Created(t, a) <=> handle[t].kind = "created" /\ handle[t].gate = a
         /\ \A a \in Addr : Opened(t, a) <=> handle[t].kind = "opened" /\ handle[t].gate = a
         /\ handle[t] = NoHandle <=> handle[t].kind = "none"
         /\ handle[t].kind # "none" => handle[t].gate \in Addr
<1>1. handle[t] \in Handles /\ handle[t].kind = "none" <=> handle[t].gate = NULL
  BY HandleTypes DEF ThreadInv
<1>2. handle[t].kind \in {"none", "created", "opened"} /\ handle[t].gate \in Addr \cup {NULL}
  BY HandleTypes
<1> QED BY HandleTypes, <1>1, <1>2 DEF Handles, Created, Opened, NoHandle, ThreadInv

\* A thread goes on to a label, or calls.
LEMMA PcMoves ==
  ASSUME TypeOK, NEW t \in Thread, NEW label, pc' = [pc EXCEPT ![t] = label]
  PROVE  pc'[t] = label /\ \A u \in Thread : u # t => pc'[u] = pc[u]
<1>1. pc \in [Thread -> Labels]
  BY DEF TypeOK, Labels
<1> QED BY ONLY <1>1, pc' = [pc EXCEPT ![t] = label], t \in Thread

-----------------------------------------------------------------------------
\* The users of a gate.

LEMMA UsersFinite ==
  ASSUME NEW p, NEW a
  PROVE  /\ IsFiniteSet(Users(p, a)) /\ Cardinality(Users(p, a)) \in Nat
         /\ Users(p, a) \subseteq Thread
         /\ Cardinality(Users(p, a)) <= Cardinality(Thread)
<1>1. Users(p, a) \subseteq Thread
  BY DEF Users
<1> QED BY <1>1, Constants, FS_Subset, FS_CardinalityType

LEMMA NoUsers ==
  ASSUME NEW p, NEW a, Cardinality(Users(p, a)) = 0
  PROVE  Users(p, a) = {}
BY UsersFinite, FS_EmptySet

\* A processor with an object that counts no opens has no handle to it.
LEMMA NobodyHasIt ==
  ASSUME TypeOK, OpensCounted, NEW t \in Thread, NEW a \in Addr,
         obj[procOf[t]][a].numOpens = 0
  PROVE  ~Opened(t, a)
<1>1. Users(procOf[t], a) = {}
  BY Procs, NoUsers DEF OpensCounted
<1> QED BY <1>1 DEF Users

-----------------------------------------------------------------------------
\* What every step leaves alone.

Others(t) ==
  \A u \in Thread : u # t => pc'[u] = pc[u] /\ tAddr'[u] = tAddr[u] /\ handle'[u] = handle[u]
OtherObjects(p, a) ==
  \A q \in Proc, c \in Addr : q # p \/ c # a => obj'[q][c] = obj[q][c]

\* Between calls a thread is no owner unless its handle is from create, and in
\* a call it has no handle.
LEMMA OwnerIs ==
  ASSUME TypeOK, ThreadInv, NEW t \in Thread, NEW a \in Addr
  PROVE  /\ handle[t] = NoHandle => (Owner(t, a) <=> tAddr[t] = a /\ Private(t))
         /\ pc[t] = "idle" => (Owner(t, a) <=> Created(t, a))
         /\ Private(t) => pc[t] # "idle" /\ handle[t] = NoHandle /\ tAddr[t] \in Addr
<1>1. /\ pc[t] = "idle" <=> tAddr[t] = NULL
      /\ pc[t] # "idle" => handle[t] = NoHandle
      /\ tAddr[t] \in Addr \cup {NULL}
  BY HandleTypes DEF ThreadInv
<1>2. handle[t] = NoHandle => ~Created(t, a)
  BY HandleIs DEF Created, NoHandle
<1>3. Private(t) => pc[t] # "idle"
  BY DEF Private, Creating, Finalizing
<1>4. NULL \notin Addr
  BY Constants
<1> QED BY ONLY <1>1, <1>2, <1>3, <1>4, a \in Addr DEF Owner

\* The owner of a gate does not change for the threads that take no step.
LEMMA OwnerOthers ==
  ASSUME NEW t \in Thread, Others(t), TypeOK, NEW u \in Thread, u # t,
         tAddr[u] \in Addr => (obj'[procOf[u]][tAddr[u]].objType = "create"
                                  <=> obj[procOf[u]][tAddr[u]].objType = "create")
  PROVE  /\ \A c \in Addr : Owner(u, c)' <=> Owner(u, c)
         /\ \A c \in Addr : Created(u, c)' <=> Created(u, c)
         /\ \A c \in Addr : Opened(u, c)' <=> Opened(u, c)
         /\ tAddr[u] \in Addr => (Private(u)' <=> Private(u))
         /\ Finalizing(u)' <=> Finalizing(u)
<1>1. /\ pc'[u] = pc[u] /\ tAddr'[u] = tAddr[u] /\ handle'[u] = handle[u]
  BY DEF Others
<1>3. tAddr[u] \in Addr => (Object(u).objType' = "create" <=> Object(u).objType = "create")
  BY <1>1 DEF Object
<1>4. tAddr[u] \in Addr => (Private(u)' <=> Private(u))
  BY <1>1, <1>3 DEF Private, Creating, Finalizing
<1> QED BY <1>1, <1>4 DEF Owner, Created, Opened, Finalizing

\* Nothing about resources and counts is disturbed by a step that leaves the
\* objects, the table, the handles and the resource ids alone.
LEMMA ResourcesKept ==
  ASSUME IInv, UNCHANGED <<obj, gates, handle, inUse, asserts>>
  PROVE  UsedInv' /\ TableInv' /\ OpensCounted' /\ NoInvalidDelete'
<1>1. \A p, a : Users(p, a)' = Users(p, a)
  BY DEF Users, Opened
<1>2. \A p, a, r : Holds(p, a, r)' <=> Holds(p, a, r)
  BY DEF Holds
<1>3. UsedInv'
  BY <1>2 DEF UsedInv, IInv
<1>4. TableInv'
  BY DEF TableInv, IInv
<1>5. OpensCounted'
  BY <1>1 DEF OpensCounted, IInv
<1> QED BY <1>3, <1>4, <1>5 DEF NoInvalidDelete, IInv

-----------------------------------------------------------------------------
\* GateMP_open: the gate is found, and nothing but the thread changes.
LEMMA openKeeps ==
  ASSUME IInv, AppLocks = TRUE, NEW t \in Thread, NEW a \in Addr, open(t, a)
  PROVE  IInv'
<1> USE Procs, Constants
<1>1. /\ pc[t] = "idle" /\ handle[t] = NoHandle /\ a \in names
      /\ a \in LocalAddr => obj[procOf[t]][a] # NoObject
      /\ ~Busy(procOf[t], a, {"finalize", "proxy"})
  BY DEF open, Ready
<1>2. /\ pc' = [pc EXCEPT ![t] = "open"] /\ tAddr' = [tAddr EXCEPT ![t] = a]
      /\ handle' = handle /\ obj' = obj /\ gates' = gates /\ inUse' = inUse
      /\ status' = status /\ arg' = arg /\ names' = names /\ asserts' = asserts
  BY DEF open, Call, shared, local
<1>3. TypeOK /\ ThreadInv
  BY DEF IInv
<1>4. TypeOK'
  BY <1>2, <1>3 DEF TypeOK
<1>5. /\ pc'[t] = "open" /\ tAddr'[t] = a
      /\ \A u \in Thread : u # t => pc'[u] = pc[u] /\ tAddr'[u] = tAddr[u]
  BY <1>2, <1>3 DEF TypeOK
<1>6. Others(t)
  BY <1>2, <1>5 DEF Others
<1>7. ~Private(t) /\ ~Private(t)' /\ ~Created(t, a)
  BY <1>1, <1>5, HandleIs, <1>3 DEF Private, Creating, Finalizing
<1>8. \A u \in Thread, c \in Addr : (Owner(u, c)' <=> Owner(u, c)) /\ (Created(u, c)' <=> Created(u, c))
  <2> SUFFICES ASSUME NEW u \in Thread, NEW c \in Addr
               PROVE  (Owner(u, c)' <=> Owner(u, c)) /\ (Created(u, c)' <=> Created(u, c))
    OBVIOUS
  <2>1. CASE u = t
    BY <2>1, <1>2, <1>7 DEF Owner, Created
  <2>2. CASE u # t
    BY <2>2, <1>2, <1>3, <1>6, OwnerOthers
  <2> QED BY <2>1, <2>2
<1>9. \A u \in Thread : u # t => (Private(u)' <=> Private(u)) /\ (Finalizing(u)' <=> Finalizing(u))
  BY <1>2, <1>5 DEF Private, Creating, Finalizing, Object
<1>10. ThreadInv'
  BY <1>1, <1>2, <1>3, <1>5 DEF ThreadInv
<1>11. OwnerInv'
  BY <1>2, <1>8 DEF OwnerInv, IInv
<1>12. VacantInv'
  BY <1>1, <1>2, <1>5, <1>8 DEF VacantInv, IInv
<1>13. PrivateInv'
  BY <1>1, <1>2, <1>5, <1>7, <1>9 DEF PrivateInv, IInv, Object
<1>14. CreatedInv'
  BY <1>2, <1>5, <1>8 DEF CreatedInv, IInv, Creating
<1>15. OpeningInv'
  BY <1>1, <1>2, <1>3, <1>5, <1>9, ObjectTypes DEF OpeningInv, IInv, Object, Finalizing, Busy, OpenObjectInv
<1>16. OpenObjectInv'
  BY <1>1, <1>2, <1>5, <1>9 DEF OpenObjectInv, IInv, Finalizing
<1>17. ResourceInv'
  BY <1>2, <1>5, <1>8 DEF ResourceInv, IInv
<1>18. UsedInv' /\ TableInv' /\ OpensCounted' /\ NoInvalidDelete'
  BY <1>2, ResourcesKept
<1> QED BY <1>4, <1>10, <1>11, <1>12, <1>13, <1>14, <1>15, <1>16, <1>17, <1>18 DEF IInv

-----------------------------------------------------------------------------
\* GateMP_create: the memory of the attrs, with or without which the object
\* is there and has no resource id yet.
LEMMA VacantIs ==
  ASSUME IInv, NEW a \in Addr, status[a] = "free"
  PROVE  /\ a \notin names
         /\ \A p \in Proc : obj[p][a] = NoObject
         /\ \A u \in Thread : tAddr[u] # a /\ handle[u].gate # a /\ ~Owner(u, a)
<1>1. \A u \in Thread : ~Owner(u, a)
  BY DEF OwnerInv, IInv
<1> QED BY <1>1 DEF VacantInv, IInv

LEMMA CreateStep ==
  ASSUME IInv, NEW t \in Thread, NEW a \in Addr, NEW o \in Objects, NEW label \in Labels,
         pc[t] = "idle", handle[t] = NoHandle, status[a] = "free",
         o.objType = "create", o.resourceId = NULL, o.numOpens = 0,
         label \in {"fill", "getResource", "finalize"},
         label = "fill" => a \in LocalAddr,
         label = "getResource" => a \notin LocalAddr,
         label # "finalize" => o.attrs = a,
         status' = [status EXCEPT ![a] = "0"],
         obj' = [obj EXCEPT ![procOf[t]][a] = o],
         pc' = [pc EXCEPT ![t] = label], tAddr' = [tAddr EXCEPT ![t] = a],
         UNCHANGED <<inUse, arg, names, gates, handle, asserts>>
  PROVE  IInv'
<1> USE Procs, Constants
<1> DEFINE p == procOf[t]
<1>1. TypeOK /\ ThreadInv
  BY DEF IInv
<1>2. /\ a \notin names
      /\ \A q \in Proc : obj[q][a] = NoObject
      /\ \A u \in Thread : tAddr[u] # a /\ handle[u].gate # a /\ ~Owner(u, a)
  BY VacantIs
<1>3. TypeOK'
  <2>1. obj \in [Proc -> [Addr -> Objects]]
    BY <1>1 DEF TypeOK, Objects
  <2>2. obj' \in [Proc -> [Addr -> Objects]]
    BY <2>1
  <2> QED BY <1>1, <2>2 DEF TypeOK, Objects, Labels
<1>4. /\ OtherObjects(p, a) /\ obj'[p][a] = o
      /\ status'[a] = "0" /\ \A c \in Addr : c # a => status'[c] = status[c]
  BY <1>1 DEF OtherObjects, TypeOK
<1>5. /\ pc'[t] = label /\ tAddr'[t] = a
      /\ \A u \in Thread : u # t => pc'[u] = pc[u] /\ tAddr'[u] = tAddr[u]
  BY <1>1 DEF TypeOK
<1>6. Others(t)
  BY <1>5 DEF Others
<1>7. ~Private(t) /\ Private(t)' /\ (\A c \in Addr : ~Created(t, c) /\ ~Created(t, c)')
  BY <1>4, <1>5, HandleIs, <1>1 DEF Private, Creating, Finalizing, Object, Created
<1>8. \A u \in Thread, c \in Addr :
        /\ Owner(u, c)' <=> (Owner(u, c) \/ (u = t /\ c = a))
        /\ Created(u, c)' <=> Created(u, c)
  <2> SUFFICES ASSUME NEW u \in Thread, NEW c \in Addr
               PROVE  /\ Owner(u, c)' <=> (Owner(u, c) \/ (u = t /\ c = a))
                      /\ Created(u, c)' <=> Created(u, c)
    OBVIOUS
  <2>1. CASE u = t
    BY <2>1, <1>5, <1>7 DEF Owner, Created
  <2>2. CASE u # t
    <3>1. tAddr[u] # a /\ ~(u = t)
      BY <1>2, <2>2
    <3>2. (Owner(u, c)' <=> Owner(u, c)) /\ (Created(u, c)' <=> Created(u, c))
      BY <3>1, <1>1, <1>4, <1>6, OwnerOthers DEF OtherObjects
    <3> QED BY <3>1, <3>2
  <2> QED BY <2>1, <2>2
<1>9. \A u \in Thread : u # t =>
         /\ tAddr[u] \in Addr => (Private(u)' <=> Private(u))
         /\ Finalizing(u)' <=> Finalizing(u)
  BY <1>1, <1>2, <1>4, <1>5, <1>6, OwnerOthers DEF Finalizing
<1>10. \A u \in Thread : Private(u) => tAddr[u] \in Addr
  BY <1>1, OwnerIs
<1>11. \A u \in Thread : u # t /\ (tAddr[u] \in Addr) =>
          Object(u)' = Object(u)
  BY <1>2, <1>4, <1>5 DEF Object, OtherObjects
<1> HIDE DEF p
<1>12. ThreadInv'
  BY <1>1, <1>5 DEF ThreadInv
<1>13. OwnerInv'
  BY <1>2, <1>4, <1>8, NoObjectIs DEF OwnerInv, IInv, OtherObjects, p
<1>14. VacantInv'
  <2> SUFFICES ASSUME NEW c \in Addr, c # a, ~(\E u \in Thread : Owner(u, c)')
               PROVE  /\ status'[c] = "free" /\ c \notin names'
                      /\ \A q \in Proc : obj'[q][c] = NoObject
                      /\ \A u \in Thread : tAddr'[u] # c /\ handle'[u].gate # c
    BY <1>8 DEF VacantInv
  <2>1. /\ status[c] = "free" /\ c \notin names
        /\ \A q \in Proc : obj[q][c] = NoObject
        /\ \A u \in Thread : tAddr[u] # c /\ handle[u].gate # c
    <3>1. VacantInv
      BY DEF IInv
    <3>2. \A u \in Thread : ~Owner(u, c)
      BY <1>8
    <3> QED BY <3>1, <3>2 DEF VacantInv
  <2> QED BY <2>1, <1>4, <1>5 DEF OtherObjects
<1>15. PrivateInv'
  <2> SUFFICES ASSUME NEW u \in Thread, Private(u)'
               PROVE  /\ tAddr'[u] \notin names
                      /\ Object(u)'.numOpens = 0
                      /\ \A v \in Thread : v # u => tAddr'[v] # tAddr'[u] /\ handle'[v].gate # tAddr'[u]
                      /\ \A q \in Proc : q # procOf[u] => obj'[q][tAddr'[u]] = NoObject
    BY DEF PrivateInv
  <2>1. CASE u = t
    BY <2>1, <1>2, <1>4, <1>5 DEF Object, OtherObjects, p
  <2>2. CASE u # t
    <3>1. tAddr'[u] = tAddr[u] /\ tAddr[u] # a
      BY <2>2, <1>2, <1>5
    <3>2. tAddr[u] \in Addr
      BY <3>1, <1>12, HandleTypes, <1>1, <1>3 DEF ThreadInv, Private, Creating, Finalizing
    <3>3. Private(u)
      BY <2>2, <3>2, <1>9
    <3>4. /\ tAddr[u] \notin names
          /\ Object(u).numOpens = 0
          /\ \A v \in Thread : v # u => tAddr[v] # tAddr[u] /\ handle[v].gate # tAddr[u]
          /\ \A q \in Proc : q # procOf[u] => obj[q][tAddr[u]] = NoObject
      BY <3>3 DEF PrivateInv, IInv
    <3> QED BY <3>1, <3>2, <3>4, <2>2, <1>4, <1>5, <1>11 DEF OtherObjects
  <2> QED BY <2>1, <2>2
<1>16. CreatedInv'
  <2> SUFFICES ASSUME NEW u \in Thread, NEW c \in Addr
               PROVE  /\ Created(u, c) => c \in names
                      /\ Created(u, c) \/ (tAddr'[u] = c /\ Creating(u)') => obj'[procOf[u]][c].attrs = c
                      /\ Created(u, c) \/ (tAddr'[u] = c /\ pc'[u] = "name") =>
                           status'[c] = "CREATED" /\ arg[c] = obj'[procOf[u]][c].resourceId
    BY <1>8 DEF CreatedInv
  <2>1. CASE c = a
    <3>1. ~Created(u, c) /\ (tAddr'[u] = c => u = t)
      BY <2>1, <1>2, <1>5, HandleIs, <1>1
    <3> QED BY <2>1, <3>1, <1>4, <1>5 DEF Creating, p
  <2>2. CASE c # a
    BY <2>2, <1>4, <1>5 DEF CreatedInv, IInv, OtherObjects, Creating
  <2> QED BY <2>1, <2>2
<1>17. OpeningInv'
  <2> SUFFICES ASSUME NEW u \in Thread
               PROVE  /\ handle[u].kind = "opened" => handle[u].gate \in names
                      /\ pc'[u] = "open" =>
                           /\ tAddr'[u] \in names
                           /\ tAddr'[u] \in LocalAddr => Object(u)'.objType = "create"
                      /\ Finalizing(u)' =>
                           /\ Object(u)'.objType # "none"
                           /\ Object(u)'.numOpens = 0
                           /\ \A v \in Thread : v # u /\ procOf[v] = procOf[u] => tAddr'[v] # tAddr'[u]
    BY DEF OpeningInv
  <2>1. CASE u = t
    BY <2>1, <1>1, <1>2, <1>4, <1>5, HandleIs, NoObjectIs DEF Object, p, NoHandle
  <2>2. CASE u # t
    <3>1. /\ tAddr'[u] = tAddr[u] /\ tAddr[u] # a /\ pc'[u] = pc[u]
          /\ Finalizing(u)' <=> Finalizing(u)
      BY <2>2, <1>2, <1>5, <1>9
    <3>2. pc[u] # "idle" => tAddr[u] \in Addr
      BY <3>1, HandleTypes, <1>1 DEF ThreadInv
    <3>3. /\ handle[u].kind = "opened" => handle[u].gate \in names
          /\ pc[u] = "open" =>
               /\ tAddr[u] \in names
               /\ tAddr[u] \in LocalAddr => Object(u).objType = "create"
          /\ Finalizing(u) =>
               /\ Object(u).objType # "none"
               /\ Object(u).numOpens = 0
               /\ \A v \in Thread : v # u /\ procOf[v] = procOf[u] => tAddr[v] # tAddr[u]
      BY DEF OpeningInv, IInv
    <3>4. Finalizing(u) => pc[u] # "idle"
      BY DEF Finalizing
    <3>5. pc[u] # "idle" => Object(u)' = Object(u)
      BY <3>2, <1>11, <2>2
    <3> QED BY <3>1, <3>2, <3>3, <3>4, <3>5, <1>5
  <2> QED BY <2>1, <2>2
<1>18. OpenObjectInv'
  <2> SUFFICES ASSUME NEW q \in Proc, NEW c \in Addr
               PROVE  /\ obj'[q][c].objType = "none" => obj'[q][c] = NoObject
                      /\ obj'[q][c].objType = "open" =>
                           /\ c \notin LocalAddr
                           /\ obj'[q][c].resourceId = arg[c]
                           /\ arg[c] \in Rid
                           /\ gates[q][arg[c]] = c
                           /\ obj'[q][c].numOpens = 0 =>
                                \E u \in Thread : procOf[u] = q /\ tAddr'[u] = c /\ Finalizing(u)'
    BY DEF OpenObjectInv
  <2>1. CASE c = a
    BY <2>1, <1>2, <1>4, NoObjectIs DEF OtherObjects, p
  <2>2. CASE c # a
    <3>1. /\ obj'[q][c] = obj[q][c]
          /\ obj[q][c].objType = "none" => obj[q][c] = NoObject
          /\ obj[q][c].objType = "open" =>
               /\ c \notin LocalAddr
               /\ obj[q][c].resourceId = arg[c]
               /\ arg[c] \in Rid
               /\ gates[q][arg[c]] = c
               /\ obj[q][c].numOpens = 0 =>
                     \E u \in Thread : procOf[u] = q /\ tAddr[u] = c /\ Finalizing(u)
      BY <2>2, <1>4 DEF OpenObjectInv, IInv, OtherObjects
    <3>2. tAddr[t] # c
      BY <1>1 DEF ThreadInv
    <3> QED BY <3>1, <3>2, <1>5, <1>9
  <2> QED BY <2>1, <2>2
<1>19. ResourceInv'
  <2> SUFFICES ASSUME NEW u \in Thread, NEW c \in Addr
               PROVE  /\ Owner(u, c)' /\ c \in LocalAddr => obj'[procOf[u]][c].resourceId = NULL
                      /\ tAddr'[u] = c =>
                           /\ pc'[u] \in {"getResource", "publish"} => c \notin LocalAddr
                           /\ pc'[u] = "getResource" => obj'[procOf[u]][c].resourceId = NULL
                           /\ pc'[u] = "publish" => obj'[procOf[u]][c].resourceId \in Rid
                           /\ pc'[u] = "freeResource" /\ obj'[procOf[u]][c].resourceId # NULL =>
                                gates[procOf[u]][obj'[procOf[u]][c].resourceId] # c
                      /\ c \notin LocalAddr /\ (Created(u, c)' \/ (tAddr'[u] = c /\ pc'[u] \in {"fill", "name"})) =>
                           /\ obj'[procOf[u]][c].resourceId \in Rid
                           /\ gates[procOf[u]][obj'[procOf[u]][c].resourceId] = c
    BY SMTT(40) DEF ResourceInv
  <2>1. CASE c = a
    <3>1. ~Created(u, c)' /\ (Owner(u, c)' => u = t)
      BY <2>1, <1>2, <1>8 DEF Owner
    <3>2. tAddr'[u] = c => u = t
      BY <2>1, <1>2, <1>5
    <3>3. obj'[procOf[t]][a].resourceId = NULL
      BY <1>4 DEF p
    <3>4. CASE u # t
      <4>1. ~Owner(u, c)' /\ ~Created(u, c)' /\ tAddr'[u] # c
        BY <3>1, <3>2, <3>4
      <4> QED BY <4>1
    <3>5. CASE u = t
      <4>1. obj'[procOf[u]][c].resourceId = NULL
        BY <2>1, <3>3, <3>5
      <4>2. ~Created(u, c)'
        BY <3>1
      <4>3. tAddr'[u] = c => /\ pc'[u] \in {"getResource", "publish"} => c \notin LocalAddr
                             /\ pc'[u] \notin {"publish", "name"}
                             /\ pc'[u] = "fill" => c \in LocalAddr
                             /\ pc'[u] # "freeResource"
        BY <2>1, <3>5, <1>5
      <4> QED BY <4>1, <4>2, <4>3
    <3> QED BY <3>4, <3>5
  <2>2. CASE c # a
    <3>1. obj'[procOf[u]][c] = obj[procOf[u]][c]
      BY <2>2, <1>4 DEF OtherObjects
    <3>2. tAddr'[u] = c => tAddr[u] = c /\ pc'[u] = pc[u]
      BY <2>2, <1>5
    <3>3. (Owner(u, c)' <=> Owner(u, c)) /\ (Created(u, c)' <=> Created(u, c))
      BY <2>2, <1>8
    <3>4. ResourceInv
      BY DEF IInv
    <3> QED BY <3>1, <3>2, <3>3, <3>4, SMTT(40) DEF ResourceInv
  <2> QED BY <2>1, <2>2
<1>20. \A q \in Proc, c \in Addr, r \in Rid : Holds(q, c, r)' <=> Holds(q, c, r)
  <2> SUFFICES ASSUME NEW q \in Proc, NEW c \in Addr, NEW r \in Rid
               PROVE  Holds(q, c, r)' <=> Holds(q, c, r)
    OBVIOUS
  <2>1. CASE c = a
    BY <2>1, <1>2, <1>4, NoObjectIs DEF Holds, OtherObjects, p
  <2>2. CASE c # a
    BY <2>2, <1>4 DEF Holds, OtherObjects
  <2> QED BY <2>1, <2>2
<1>21. UsedInv'
  BY <1>20 DEF UsedInv, IInv
<1>22. TableInv'
  <2> SUFFICES ASSUME NEW q \in Proc, NEW r \in Rid, gates[q][r] # NULL
               PROVE  /\ obj'[q][gates[q][r]].objType # "none"
                      /\ obj'[q][gates[q][r]].resourceId = r
    BY DEF TableInv
  <2>1. /\ obj[q][gates[q][r]].objType # "none" /\ obj[q][gates[q][r]].resourceId = r
    BY DEF TableInv, IInv
  <2>2. gates[q][r] \in Addr
    BY <1>1, TableTypes
  <2>3. gates[q][r] # a
    BY <2>1, <1>2, NoObjectIs
  <2> QED BY <2>1, <2>2, <2>3, <1>4 DEF OtherObjects
<1>23. OpensCounted'
  <2>1. \A q, c : Users(q, c)' = Users(q, c)
    BY DEF Users, Opened
  <2> SUFFICES ASSUME NEW q \in Proc, NEW c \in Addr
               PROVE  /\ obj'[q][c].numOpens = Cardinality(Users(q, c))
                      /\ Users(q, c) # {} /\ c \notin LocalAddr => gates[q][obj'[q][c].resourceId] = c
    BY <2>1 DEF OpensCounted
  <2>2. /\ obj[q][c].numOpens = Cardinality(Users(q, c))
        /\ Users(q, c) # {} /\ c \notin LocalAddr => gates[q][obj[q][c].resourceId] = c
    BY DEF OpensCounted, IInv
  <2>3. CASE c = a
    <3>1. Cardinality(Users(q, c)) = 0
      BY <2>3, <2>2, <1>2, NoObjectIs
    <3>2. obj'[q][c].numOpens = 0
      BY <2>3, <1>2, <1>4, NoObjectIs DEF OtherObjects, p
    <3> QED BY <3>1, <3>2, NoUsers
  <2>4. CASE c # a
    BY <2>2, <2>4, <1>4 DEF OtherObjects
  <2> QED BY <2>3, <2>4
<1>24. NoInvalidDelete'
  BY DEF NoInvalidDelete, IInv
<1> QED BY <1>3, <1>12, <1>13, <1>14, <1>15, <1>16, <1>17, <1>18, <1>19, <1>21, <1>22, <1>23, <1>24 DEF IInv

LEMMA createKeeps ==
  ASSUME IInv, NEW t \in Thread, NEW a \in Addr, create(t, a)
  PROVE  IInv'
<1> DEFINE o == [NoObject EXCEPT !.objType = "create", !.attrs = a]
<1>1. o \in Objects /\ o.objType = "create" /\ o.resourceId = NULL /\ o.numOpens = 0
  BY NoObjectIs, Constants DEF Objects, NoObject
<1> DEFINE label == IF a \in LocalAddr THEN "fill" ELSE "getResource"
<1>2. label \in Labels /\ label \in {"fill", "getResource", "finalize"}
  BY DEF Labels
<1>3. (label = "fill" => a \in LocalAddr) /\ (label = "getResource" => a \notin LocalAddr) /\ o.attrs = a
  BY DEF NoObject
<1>4. /\ pc[t] = "idle" /\ handle[t] = NoHandle /\ status[a] = "free"
      /\ status' = [status EXCEPT ![a] = "0"]
      /\ obj' = [obj EXCEPT ![procOf[t]][a] = o]
      /\ pc' = [pc EXCEPT ![t] = label] /\ tAddr' = [tAddr EXCEPT ![t] = a]
      /\ UNCHANGED <<inUse, arg, names, gates, handle, asserts>>
  BY DEF create, Ready, Call
<1> HIDE DEF o, label
<1> QED BY <1>1, <1>2, <1>3, <1>4, CreateStep

LEMMA createWithoutMemoryKeeps ==
  ASSUME IInv, NEW t \in Thread, NEW a \in Addr, createWithoutMemory(t, a)
  PROVE  IInv'
<1> DEFINE o == [NoObject EXCEPT !.objType = "create"]
<1>1. o \in Objects /\ o.objType = "create" /\ o.resourceId = NULL /\ o.numOpens = 0
  BY NoObjectIs, Constants DEF Objects, NoObject
<1>2. /\ pc[t] = "idle" /\ handle[t] = NoHandle /\ status[a] = "free"
      /\ status' = [status EXCEPT ![a] = "0"]
      /\ obj' = [obj EXCEPT ![procOf[t]][a] = o]
      /\ pc' = [pc EXCEPT ![t] = "finalize"] /\ tAddr' = [tAddr EXCEPT ![t] = a]
      /\ UNCHANGED <<inUse, arg, names, gates, handle, asserts>>
  BY DEF createWithoutMemory, Ready, Call
<1>3. "finalize" \in Labels
  BY DEF Labels
<1> HIDE DEF o
<1> QED BY <1>1, <1>2, <1>3, CreateStep

-----------------------------------------------------------------------------
\* A resource id leads to one gate.

\* Every object with a resource id has it from the creator of its gate.
LEMMA Backed ==
  ASSUME IInv, NEW p \in Proc, NEW a \in Addr, NEW r \in Rid,
         obj[p][a].objType # "none", obj[p][a].resourceId = r
  PROVE  \E q \in Proc : Holds(q, a, r)
<1> USE Procs
<1>1. CASE obj[p][a].objType = "create"
  BY <1>1 DEF Holds
<1>2. CASE obj[p][a].objType = "open"
  <2>1. arg[a] = r /\ obj[p][a] # NoObject
    BY <1>2, NoObjectIs DEF OpenObjectInv, IInv
  <2>2. PICK t \in Thread : Owner(t, a)
    BY <2>1 DEF VacantInv, IInv
  <2>3. p # procOf[t] /\ obj[procOf[t]][a].objType = "create"
    BY <1>2, <2>2 DEF OwnerInv, IInv
  <2>4. ~(tAddr[t] = a /\ Private(t))
    BY <2>1, <2>3 DEF PrivateInv, IInv
  <2>5. Created(t, a)
    BY <2>2, <2>4 DEF Owner
  <2>6. obj[procOf[t]][a].resourceId = r
    BY <2>1, <2>5 DEF CreatedInv, IInv
  <2> QED BY <2>3, <2>6 DEF Holds
<1>3. TypeOK
  BY DEF IInv
<1> QED BY <1>1, <1>2, <1>3, ObjectTypes

LEMMA OneGate ==
  ASSUME IInv, NEW p \in Proc, NEW q \in Proc, NEW a \in Addr, NEW c \in Addr, NEW r \in Rid,
         obj[p][a].objType # "none", obj[p][a].resourceId = r,
         obj[q][c].objType # "none", obj[q][c].resourceId = r
  PROVE  a = c
<1>1. PICK x \in Proc : Holds(x, a, r)
  BY Backed
<1>2. PICK y \in Proc : Holds(y, c, r)
  BY Backed
<1> QED BY <1>1, <1>2 DEF UsedInv, IInv

\* So an entry of the table for the resource id of a gate is the gate.
LEMMA EntryIs ==
  ASSUME IInv, NEW p \in Proc, NEW a \in Addr, NEW r \in Rid,
         obj[p][a].objType # "none", obj[p][a].resourceId = r
  PROVE  \A q \in Proc : gates[q][r] \in {NULL, a}
<1> SUFFICES ASSUME NEW q \in Proc, gates[q][r] # NULL
             PROVE  gates[q][r] = a
  OBVIOUS
<1>1. gates[q][r] \in Addr
  BY TableTypes DEF IInv
<1>2. obj[q][gates[q][r]].objType # "none" /\ obj[q][gates[q][r]].resourceId = r
  BY DEF TableInv, IInv
<1> QED BY <1>1, <1>2, OneGate

\* The gate of a handle is there, created and with the resource id of its
\* attrs in the object of the processor.
LEMMA CreatedOwner ==
  ASSUME IInv, NEW a \in Addr, a \in names
  PROVE  \E t \in Thread : Created(t, a)
<1>1. PICK t \in Thread : Owner(t, a)
  BY DEF VacantInv, IInv
<1>2. ~(tAddr[t] = a /\ Private(t))
  BY DEF PrivateInv, IInv
<1> QED BY <1>1, <1>2 DEF Owner

LEMMA NullOfLocal ==
  ASSUME IInv, NEW a \in Addr, NEW t \in Thread, Created(t, a), a \in LocalAddr
  PROVE  arg[a] = NULL
<1>1. Owner(t, a)
  BY DEF Owner
<1>2. arg[a] = obj[procOf[t]][a].resourceId
  BY DEF CreatedInv, IInv
<1> QED BY <1>1, <1>2 DEF ResourceInv, IInv

LEMMA ObjectOfCreated ==
  ASSUME IInv, NEW a \in Addr, a \in names, NEW p \in Proc, obj[p][a].objType # "none"
  PROVE  /\ a \notin LocalAddr => arg[a] \in Rid /\ gates[p][arg[a]] = a
         /\ a \in LocalAddr => arg[a] = NULL /\ obj[p][a].objType = "create"
         /\ obj[p][a].resourceId = arg[a]
<1> USE Procs
<1>1. PICK t \in Thread : Created(t, a)
  BY CreatedOwner
<1>2. Owner(t, a)
  BY <1>1 DEF Owner
<1>3. arg[a] = obj[procOf[t]][a].resourceId
  BY <1>1 DEF CreatedInv, IInv
<1>4. /\ a \notin LocalAddr => arg[a] \in Rid /\ gates[procOf[t]][arg[a]] = a
      /\ a \in LocalAddr => arg[a] = NULL
  BY <1>1, <1>2, <1>3 DEF ResourceInv, IInv
<1>5. CASE obj[p][a].objType = "create"
  <2>1. p = procOf[t]
    BY <1>2, <1>5 DEF OwnerInv, IInv
  <2> QED BY <2>1, <1>3, <1>4, <1>5
<1>6. CASE obj[p][a].objType = "open"
  BY <1>4, <1>6 DEF OpenObjectInv, IInv
<1>7. TypeOK
  BY DEF IInv
<1> QED BY <1>5, <1>6, <1>7, ObjectTypes

\* A user of a gate has an object of it.
LEMMA UserIs ==
  ASSUME IInv, NEW t \in Thread, handle[t].kind = "opened"
  PROVE  LET p == procOf[t]
             a == handle[t].gate
         IN  /\ a \in Addr /\ a \in names /\ t \in Users(p, a) /\ Opened(t, a)
             /\ obj[p][a].objType # "none" /\ obj[p][a].numOpens \in Nat \ {0}
<1> USE Procs
<1> DEFINE p == procOf[t]
           a == handle[t].gate
<1>1. TypeOK /\ ThreadInv /\ OpeningInv /\ OpensCounted /\ OpenObjectInv
  BY DEF IInv
<1>2. a \in Addr /\ a \in names /\ Opened(t, a)
  BY <1>1, HandleIs DEF OpeningInv
<1>3. t \in Users(p, a)
  BY <1>2 DEF Users
<1>4. Cardinality(Users(p, a)) # 0
  BY <1>3, NoUsers
<1>5. obj[p][a].numOpens \in Nat \ {0}
  BY <1>1, <1>2, <1>4, UsersFinite DEF OpensCounted
<1>6. obj[p][a].objType # "none"
  BY <1>1, <1>2, <1>5, NoObjectIs DEF OpenObjectInv
<1> QED BY <1>2, <1>3, <1>5, <1>6

LEMMA UserHasRid ==
  ASSUME IInv, NEW p \in Proc, NEW a \in Addr, Users(p, a) # {}, a \notin LocalAddr
  PROVE  obj[p][a].resourceId \in Rid /\ obj[p][a].objType # "none"
<1>1. PICK t \in Thread : procOf[t] = p /\ Opened(t, a)
  BY DEF Users
<1>2. handle[t].kind = "opened" /\ handle[t].gate = a
  BY <1>1 DEF Opened
<1>3. a \in names /\ obj[p][a].objType # "none"
  BY <1>1, <1>2, UserIs
<1> QED BY <1>3, ObjectOfCreated

-----------------------------------------------------------------------------
\* What a step of the thread that creates or deletes the gate keeps.
LEMMA PrivateStep ==
  ASSUME IInv, TypeOK', NEW t \in Thread, NEW a \in Addr, NEW label,
         tAddr[t] = a, Private(t),
         label \in {"publish", "fill", "name", "finalize", "proxy", "freeResource"},
         pc' = [pc EXCEPT ![t] = label],
         UNCHANGED <<tAddr, handle, names>>,
         OtherObjects(procOf[t], a),
         obj'[procOf[t]][a].objType = "create", obj'[procOf[t]][a].numOpens = 0,
         status'[a] # "free", \A c \in Addr : c # a => status'[c] = status[c] /\ arg'[c] = arg[c],
         label \in {"publish", "fill", "name"} => obj'[procOf[t]][a].attrs = a,
         label = "name" => status'[a] = "CREATED" /\ arg'[a] = obj'[procOf[t]][a].resourceId,
         \A q \in Proc, s \in Rid : \/ gates'[q][s] = gates[q][s]
                                    \/ gates[q][s] \in {NULL, a} /\ gates'[q][s] \in {NULL, a}
  PROVE  /\ ThreadInv' /\ OwnerInv' /\ VacantInv' /\ PrivateInv' /\ CreatedInv'
         /\ OpeningInv' /\ OpenObjectInv' /\ OpensCounted'
         /\ \A u \in Thread, c \in Addr : Owner(u, c)' <=> Owner(u, c)
         /\ \A u \in Thread, c \in Addr : Owner(u, a) => u = t
<1> USE Procs, Constants
<1> DEFINE p == procOf[t]
<1>1. TypeOK /\ ThreadInv
  BY DEF IInv
<1>2. /\ pc[t] # "idle" /\ handle[t] = NoHandle
  BY <1>1, OwnerIs
<1>3. /\ a \notin names
      /\ obj[p][a].objType = "create" /\ obj[p][a].numOpens = 0
      /\ \A u \in Thread : u # t => tAddr[u] # a /\ handle[u].gate # a
      /\ \A q \in Proc : q # p => obj[q][a] = NoObject
  <2>1. PrivateInv /\ OwnerInv /\ Owner(t, a)
    BY DEF IInv, Owner
  <2>2. obj[p][a].objType = "create"
    BY <2>1 DEF OwnerInv
  <2> QED BY <2>1, <2>2 DEF PrivateInv, Object
<1>4. /\ pc'[t] = label /\ label # "idle" /\ label # "open"
      /\ \A u \in Thread : u # t => pc'[u] = pc[u]
  BY <1>1, PcMoves, ZenonT(40)
<1>5. Others(t)
  BY <1>4 DEF Others
<1>6. \A c \in Addr : ~Created(t, c) /\ ~Created(t, c)' /\ ~Opened(t, c)
  BY <1>1, <1>2, HandleIs DEF Created
<1>7. Private(t)'
  BY <1>4 DEF Private, Creating, Finalizing, Object
<1>8. \A u \in Thread : u # t =>
         /\ \A c \in Addr : Owner(u, c)' <=> Owner(u, c)
         /\ \A c \in Addr : Created(u, c)' <=> Created(u, c)
         /\ tAddr[u] \in Addr => (Private(u)' <=> Private(u))
         /\ Finalizing(u)' <=> Finalizing(u)
         /\ tAddr[u] \in Addr => Object(u)' = Object(u)
  <2> SUFFICES ASSUME NEW u \in Thread, u # t
               PROVE  /\ \A c \in Addr : Owner(u, c)' <=> Owner(u, c)
                      /\ \A c \in Addr : Created(u, c)' <=> Created(u, c)
                      /\ tAddr[u] \in Addr => (Private(u)' <=> Private(u))
                      /\ Finalizing(u)' <=> Finalizing(u)
                      /\ tAddr[u] \in Addr => Object(u)' = Object(u)
    OBVIOUS
  <2>1. tAddr[u] # a
    BY <1>3
  <2>2. tAddr[u] \in Addr => obj'[procOf[u]][tAddr[u]] = obj[procOf[u]][tAddr[u]]
    BY <2>1 DEF OtherObjects
  <2> QED BY <2>2, <1>1, <1>5, OwnerOthers DEF Object
<1>9. \A u \in Thread, c \in Addr :
        /\ Owner(u, c)' <=> Owner(u, c)
        /\ Created(u, c)' <=> Created(u, c)
  BY <1>6, <1>7, <1>8 DEF Owner
<1>10. \A u \in Thread : Owner(u, a) => u = t
  BY <1>3 DEF Owner, Created
<1>11. ThreadInv'
  BY <1>1, <1>2, <1>4 DEF ThreadInv
<1>12. Owner(t, a)
  BY DEF Owner
<1>13. \A q \in Proc : obj'[q][a].objType = "create" <=> q = p
  BY <1>3, NoObjectIs DEF OtherObjects
<1>14. OwnerInv'
  <2> SUFFICES ASSUME NEW c \in Addr, NEW u \in Thread, Owner(u, c)
               PROVE  /\ status'[c] # "free"
                      /\ \A v \in Thread : Owner(v, c) => u = v
                      /\ \A q \in Proc : obj'[q][c].objType = "create" <=> q = procOf[u]
    BY <1>9 DEF OwnerInv
  <2>1. /\ status[c] # "free"
        /\ \A v \in Thread : Owner(v, c) => u = v
        /\ \A q \in Proc : obj[q][c].objType = "create" <=> q = procOf[u]
    BY DEF OwnerInv, IInv
  <2>2. CASE c = a
    BY <2>1, <2>2, <1>10, <1>13
  <2>3. CASE c # a
    BY <2>1, <2>3 DEF OtherObjects
  <2> QED BY <2>2, <2>3
<1>15. VacantInv'
  <2> SUFFICES ASSUME NEW c \in Addr, \A u \in Thread : ~Owner(u, c)
               PROVE  /\ status'[c] = "free" /\ c \notin names
                      /\ \A q \in Proc : obj'[q][c] = NoObject
                      /\ \A u \in Thread : tAddr[u] # c /\ handle[u].gate # c
    BY <1>9 DEF VacantInv
  <2>1. c # a
    BY <1>12
  <2>2. VacantInv
    BY DEF IInv
  <2>3. /\ status[c] = "free" /\ c \notin names
        /\ \A q \in Proc : obj[q][c] = NoObject
        /\ \A u \in Thread : tAddr[u] # c /\ handle[u].gate # c
    BY <2>2 DEF VacantInv
  <2> QED BY <2>1, <2>3 DEF OtherObjects
<1>16. PrivateInv'
  <2> SUFFICES ASSUME NEW u \in Thread, Private(u)'
               PROVE  /\ tAddr[u] \notin names
                      /\ Object(u)'.numOpens = 0
                      /\ \A v \in Thread : v # u => tAddr[v] # tAddr[u] /\ handle[v].gate # tAddr[u]
                      /\ \A q \in Proc : q # procOf[u] => obj'[q][tAddr[u]] = NoObject
    BY DEF PrivateInv
  <2>1. CASE u = t
    BY <2>1, <1>3 DEF Object, OtherObjects
  <2>2. CASE u # t
    <3>1. tAddr[u] # a
      BY <2>2, <1>3
    <3>2. tAddr[u] \in Addr
      BY <1>11, HandleTypes, <1>1 DEF ThreadInv, Private, Creating, Finalizing
    <3>3. Private(u) /\ Object(u)' = Object(u)
      BY <2>2, <3>2, <1>8
    <3>4. /\ tAddr[u] \notin names
          /\ Object(u).numOpens = 0
          /\ \A v \in Thread : v # u => tAddr[v] # tAddr[u] /\ handle[v].gate # tAddr[u]
          /\ \A q \in Proc : q # procOf[u] => obj[q][tAddr[u]] = NoObject
      BY <3>3 DEF PrivateInv, IInv
    <3> QED BY <3>1, <3>2, <3>3, <3>4 DEF OtherObjects
  <2> QED BY <2>1, <2>2
<1>17. CreatedInv'
  <2> SUFFICES ASSUME NEW u \in Thread, NEW c \in Addr
               PROVE  /\ Created(u, c) => c \in names
                      /\ Created(u, c) \/ (tAddr[u] = c /\ Creating(u)') => obj'[procOf[u]][c].attrs = c
                      /\ Created(u, c) \/ (tAddr[u] = c /\ pc'[u] = "name") =>
                           status'[c] = "CREATED" /\ arg'[c] = obj'[procOf[u]][c].resourceId
    BY <1>9 DEF CreatedInv
  <2>1. CreatedInv
    BY DEF IInv
  <2>2. CASE c = a
    <3>1. ~Created(u, c) /\ (tAddr[u] = c => u = t)
      BY <2>1, <2>2, <1>3 DEF CreatedInv
    <3> QED BY <2>2, <3>1, <1>4 DEF Creating
  <2>3. CASE c # a
    BY <2>1, <2>3, <1>4 DEF CreatedInv, OtherObjects, Creating
  <2> QED BY <2>2, <2>3
<1>18. OpeningInv'
  <2> SUFFICES ASSUME NEW u \in Thread
               PROVE  /\ handle[u].kind = "opened" => handle[u].gate \in names
                      /\ pc'[u] = "open" =>
                           /\ tAddr[u] \in names
                           /\ tAddr[u] \in LocalAddr => Object(u)'.objType = "create"
                      /\ Finalizing(u)' =>
                           /\ Object(u)'.objType # "none"
                           /\ Object(u)'.numOpens = 0
                           /\ \A v \in Thread : v # u /\ procOf[v] = procOf[u] => tAddr[v] # tAddr[u]
    BY DEF OpeningInv
  <2>1. OpeningInv
    BY DEF IInv
  <2>2. CASE u = t
    BY <2>1, <2>2, <1>3, <1>4 DEF OpeningInv, Object
  <2>3. CASE u # t
    <3>1. /\ pc[u] # "idle" => tAddr[u] \in Addr
          /\ Finalizing(u) => pc[u] # "idle"
      BY HandleTypes, <1>1 DEF ThreadInv, Finalizing
    <3>2. pc'[u] = pc[u] /\ (Finalizing(u)' <=> Finalizing(u))
      BY <2>3, <1>4, <1>8
    <3>3. pc[u] # "idle" => Object(u)' = Object(u)
      BY <2>3, <3>1, <1>8
    <3> QED BY <2>1, <2>3, <3>1, <3>2, <3>3 DEF OpeningInv
  <2> QED BY <2>2, <2>3
<1>19. OpenObjectInv'
  <2> SUFFICES ASSUME NEW q \in Proc, NEW c \in Addr
               PROVE  /\ obj'[q][c].objType = "none" => obj'[q][c] = NoObject
                      /\ obj'[q][c].objType = "open" =>
                           /\ c \notin LocalAddr
                           /\ obj'[q][c].resourceId = arg'[c]
                           /\ arg'[c] \in Rid
                           /\ gates'[q][arg'[c]] = c
                           /\ obj'[q][c].numOpens = 0 =>
                                \E u \in Thread : procOf[u] = q /\ tAddr[u] = c /\ Finalizing(u)'
    BY DEF OpenObjectInv
  <2>1. CASE c = a
    BY <2>1, <1>3, NoObjectIs DEF OtherObjects
  <2>2. CASE c # a
    <3>1. /\ obj[q][c].objType = "none" => obj[q][c] = NoObject
          /\ obj[q][c].objType = "open" =>
               /\ c \notin LocalAddr
               /\ obj[q][c].resourceId = arg[c]
               /\ arg[c] \in Rid
               /\ gates[q][arg[c]] = c
               /\ obj[q][c].numOpens = 0 =>
                     \E u \in Thread : procOf[u] = q /\ tAddr[u] = c /\ Finalizing(u)
      BY DEF OpenObjectInv, IInv
    <3>2. obj'[q][c] = obj[q][c] /\ arg'[c] = arg[c] /\ tAddr[t] # c
      BY <2>2 DEF OtherObjects
    <3>3. arg[c] \in Rid /\ gates[q][arg[c]] = c => gates'[q][arg[c]] = c
      BY <2>2
    <3>4. \A u \in Thread : tAddr[u] = c => (Finalizing(u)' <=> Finalizing(u))
      BY <3>2, <1>8
    <3> QED BY <3>1, <3>2, <3>3, <3>4
  <2> QED BY <2>1, <2>2
<1>20. OpensCounted'
  <2>1. \A q, c : Users(q, c)' = Users(q, c)
    BY DEF Users, Opened
  <2> SUFFICES ASSUME NEW q \in Proc, NEW c \in Addr
               PROVE  /\ obj'[q][c].numOpens = Cardinality(Users(q, c))
                      /\ Users(q, c) # {} /\ c \notin LocalAddr => gates'[q][obj'[q][c].resourceId] = c
    BY <2>1 DEF OpensCounted
  <2>2. /\ obj[q][c].numOpens = Cardinality(Users(q, c))
        /\ Users(q, c) # {} /\ c \notin LocalAddr => gates[q][obj[q][c].resourceId] = c
    BY DEF OpensCounted, IInv
  <2>3. CASE c = a
    <3>1. obj[q][a].numOpens = 0 /\ obj'[q][a].numOpens = 0
      BY <1>3, NoObjectIs DEF OtherObjects
    <3> QED BY <2>2, <2>3, <3>1, NoUsers
  <2>4. CASE c # a
    <3>1. obj'[q][c] = obj[q][c]
      BY <2>4 DEF OtherObjects
    <3>2. ASSUME Users(q, c) # {}, c \notin LocalAddr
          PROVE  gates'[q][obj'[q][c].resourceId] = c
      <4>1. obj[q][c].resourceId \in Rid
        BY <2>2, <3>2, UserHasRid
      <4> QED BY <4>1, <2>2, <2>4, <3>1, <3>2, ZenonT(40)
    <3> QED BY <2>2, <3>1, <3>2
  <2> QED BY <2>3, <2>4
<1> QED BY <1>9, <1>10, <1>11, <1>14, <1>15, <1>16, <1>17, <1>18, <1>19, <1>20

\* The resource id and the entry of that thread, and all others.
LEMMA PrivateResources ==
  ASSUME IInv, TypeOK', NEW t \in Thread, NEW a \in Addr,
         tAddr[t] = a, Private(t),
         \A u \in Thread : u # t => pc'[u] = pc[u],
         UNCHANGED <<tAddr, handle>>,
         OtherObjects(procOf[t], a),
         obj'[procOf[t]][a].objType = "create",
         \A u \in Thread, c \in Addr : Owner(u, c)' <=> Owner(u, c),
         \A q \in Proc, s \in Rid : \/ gates'[q][s] = gates[q][s]
                                    \/ gates[q][s] \in {NULL, a} /\ gates'[q][s] \in {NULL, a},
         \A q \in Proc, s \in Rid : q # procOf[t] => gates'[q][s] = gates[q][s],
         \A s \in Rid : gates'[procOf[t]][s] = a => obj'[procOf[t]][a].resourceId = s,
         a \in LocalAddr => obj'[procOf[t]][a].resourceId = NULL,
         pc'[t] \notin {"getResource", "idle"},
         pc'[t] = "publish" => a \notin LocalAddr /\ obj'[procOf[t]][a].resourceId \in Rid,
         pc'[t] = "freeResource" /\ obj'[procOf[t]][a].resourceId # NULL =>
           gates'[procOf[t]][obj'[procOf[t]][a].resourceId] # a,
         a \notin LocalAddr /\ pc'[t] \in {"fill", "name"} =>
           /\ obj'[procOf[t]][a].resourceId \in Rid
           /\ gates'[procOf[t]][obj'[procOf[t]][a].resourceId] = a
  PROVE  ResourceInv' /\ TableInv'
<1> USE Procs, Constants
<1> DEFINE p == procOf[t]
<1>1. TypeOK /\ ThreadInv
  BY DEF IInv
<1>2. Owner(t, a) /\ handle[t] = NoHandle
  BY <1>1, OwnerIs
<1>3. /\ \A u \in Thread : u # t => tAddr[u] # a /\ handle[u].gate # a
      /\ \A q \in Proc : q # p => obj[q][a] = NoObject
  BY DEF PrivateInv, IInv
<1>4. \A u \in Thread : ~Created(u, a) /\ (Owner(u, a) <=> u = t)
  BY <1>1, <1>2, <1>3, HandleIs DEF Created, Owner
<1>5. ResourceInv'
  <2> SUFFICES ASSUME NEW u \in Thread, NEW c \in Addr
               PROVE  LET r == obj'[procOf[u]][c].resourceId IN
                      /\ Owner(u, c) /\ c \in LocalAddr => r = NULL
                      /\ tAddr[u] = c =>
                           /\ pc'[u] \in {"getResource", "publish"} => c \notin LocalAddr
                           /\ pc'[u] = "getResource" => r = NULL
                           /\ pc'[u] = "publish" => r \in Rid
                           /\ pc'[u] = "freeResource" /\ r # NULL => gates'[procOf[u]][r] # c
                      /\ c \notin LocalAddr /\ (Created(u, c) \/ (tAddr[u] = c /\ pc'[u] \in {"fill", "name"})) =>
                           r \in Rid /\ gates'[procOf[u]][r] = c
    <3>1. \A u \in Thread, c \in Addr : Created(u, c)' <=> Created(u, c)
      BY DEF Created
    <3> QED BY <3>1 DEF ResourceInv
  <2>1. CASE c = a
    <3>1. CASE u = t
      BY <2>1, <3>1, <1>4
    <3>2. CASE u # t
      BY <2>1, <3>2, <1>3, <1>4
    <3> QED BY <3>1, <3>2
  <2>2. CASE c # a
    <3> DEFINE r == obj[procOf[u]][c].resourceId
    <3>1. obj'[procOf[u]][c].resourceId = r
      BY <2>2 DEF OtherObjects
    <3>2. /\ Owner(u, c) /\ c \in LocalAddr => r = NULL
          /\ tAddr[u] = c =>
               /\ pc[u] \in {"getResource", "publish"} => c \notin LocalAddr
               /\ pc[u] = "getResource" => r = NULL
               /\ pc[u] = "publish" => r \in Rid
               /\ pc[u] = "freeResource" /\ r # NULL => gates[procOf[u]][r] # c
          /\ c \notin LocalAddr /\ (Created(u, c) \/ (tAddr[u] = c /\ pc[u] \in {"fill", "name"})) =>
               r \in Rid /\ gates[procOf[u]][r] = c
      BY DEF ResourceInv, IInv
    <3>3. tAddr[u] = c => pc'[u] = pc[u]
      BY <2>2
    <3>4. r \in Rid => (gates'[procOf[u]][r] = c <=> gates[procOf[u]][r] = c)
      <4> SUFFICES ASSUME NEW s \in Rid
                   PROVE  gates'[procOf[u]][s] = c <=> gates[procOf[u]][s] = c
        OBVIOUS
      <4>1. \/ gates'[procOf[u]][s] = gates[procOf[u]][s]
            \/ gates[procOf[u]][s] \in {NULL, a} /\ gates'[procOf[u]][s] \in {NULL, a}
        OBVIOUS
      <4>2. c # NULL
        OBVIOUS
      <4> QED BY ONLY <4>1, <4>2, <2>2
    <3>5. r \in Rid \cup {NULL}
      BY <1>1, ObjectTypes
    <3> HIDE DEF r
    <3> QED BY ONLY <3>1, <3>2, <3>3, <3>4, <3>5
  <2> QED BY <2>1, <2>2
<1>6. TableInv'
  <2> SUFFICES ASSUME NEW q \in Proc, NEW s \in Rid, gates'[q][s] # NULL
               PROVE  /\ obj'[q][gates'[q][s]].objType # "none"
                      /\ obj'[q][gates'[q][s]].resourceId = s
    BY DEF TableInv
  <2>1. CASE gates'[q][s] = a
    <3>1. q = p
      <4> SUFFICES ASSUME q # p PROVE FALSE
        OBVIOUS
      <4>1. gates[q][s] = a /\ obj[q][a] = NoObject
        BY <2>1, <1>3
      <4> QED BY <4>1, NoObjectIs DEF TableInv, IInv
    <3> QED BY <2>1, <3>1
  <2>2. CASE gates'[q][s] # a
    <3>1. gates'[q][s] = gates[q][s] /\ gates[q][s] \in Addr
      BY <2>2, <1>1, TableTypes
    <3>2. obj[q][gates[q][s]].objType # "none" /\ obj[q][gates[q][s]].resourceId = s
      BY <3>1 DEF TableInv, IInv
    <3> QED BY <2>2, <3>1, <3>2 DEF OtherObjects
  <2> QED BY <2>1, <2>2
<1> QED BY <1>5, <1>6

LEMMA UsedKept ==
  ASSUME IInv, UNCHANGED <<obj, inUse>>
  PROVE  UsedInv'
<1>1. \A p, a, r : Holds(p, a, r)' <=> Holds(p, a, r)
  BY DEF Holds
<1> QED BY <1>1 DEF UsedInv, IInv

\* Where the owner of a gate that is created or deleted is.
LEMMA PrivateIs ==
  ASSUME IInv, NEW t \in Thread, Private(t)
  PROVE  LET p == procOf[t]
             a == tAddr[t]
         IN  /\ a \in Addr /\ a \notin names /\ Owner(t, a) /\ handle[t] = NoHandle
             /\ status[a] # "free"
             /\ obj[p][a].objType = "create" /\ obj[p][a].numOpens = 0
             /\ obj[p][a].resourceId \in Rid \cup {NULL}
             /\ a \in LocalAddr => obj[p][a].resourceId = NULL
<1> USE Procs
<1>1. TypeOK /\ ThreadInv
  BY DEF IInv
<1>2. /\ tAddr[t] \in Addr /\ Owner(t, tAddr[t]) /\ handle[t] = NoHandle
  <2>1. \E a : a \in Addr
    BY <1>1, HandleTypes DEF ThreadInv, Private, Creating, Finalizing
  <2>2. tAddr[t] \in Addr /\ handle[t] = NoHandle
    BY <2>1, <1>1, OwnerIs
  <2> QED BY <2>2 DEF Owner
<1>3. /\ status[tAddr[t]] # "free" /\ obj[procOf[t]][tAddr[t]].objType = "create"
  BY <1>2 DEF OwnerInv, IInv
<1>4. tAddr[t] \notin names /\ obj[procOf[t]][tAddr[t]].numOpens = 0
  BY DEF PrivateInv, IInv, Object
<1>5. obj[procOf[t]][tAddr[t]].resourceId \in Rid \cup {NULL}
  BY <1>1, <1>2, ObjectTypes
<1>6. tAddr[t] \in LocalAddr => obj[procOf[t]][tAddr[t]].resourceId = NULL
  BY <1>2 DEF ResourceInv, IInv
<1> QED BY <1>2, <1>3, <1>4, <1>5, <1>6

\* A thread that goes on without touching objects or the table.
LEMMA PrivateGoesOn ==
  ASSUME IInv, TypeOK', NEW t \in Thread, NEW label,
         Private(t), label \in {"name", "finalize", "proxy"},
         pc' = [pc EXCEPT ![t] = label],
         UNCHANGED <<tAddr, handle, names, obj, gates, inUse>>,
         status'[tAddr[t]] # "free",
         \A c \in Addr : c # tAddr[t] => status'[c] = status[c] /\ arg'[c] = arg[c],
         label = "name" => /\ pc[t] = "fill" /\ status'[tAddr[t]] = "CREATED"
                           /\ arg'[tAddr[t]] = obj[procOf[t]][tAddr[t]].resourceId,
         NoInvalidDelete'
  PROVE  IInv'
<1> USE Procs, Constants
<1> DEFINE p == procOf[t]
           a == tAddr[t]
           r == obj[p][a].resourceId
<1>1. /\ a \in Addr /\ Owner(t, a) /\ obj[p][a].objType = "create" /\ obj[p][a].numOpens = 0
      /\ r \in Rid \cup {NULL} /\ (a \in LocalAddr => r = NULL)
  BY PrivateIs
<1>2. OtherObjects(p, a)
  BY DEF OtherObjects
<1>3. label = "name" => obj[p][a].attrs = a
  BY <1>1 DEF CreatedInv, IInv, Creating
<1>4. /\ ThreadInv' /\ OwnerInv' /\ VacantInv' /\ PrivateInv' /\ CreatedInv'
      /\ OpeningInv' /\ OpenObjectInv' /\ OpensCounted'
      /\ \A u \in Thread, c \in Addr : Owner(u, c)' <=> Owner(u, c)
  BY <1>1, <1>3, <1>2, PrivateStep, ZenonT(40)
<1>5. /\ pc'[t] = label /\ \A u \in Thread : u # t => pc'[u] = pc[u]
  BY PcMoves DEF IInv
<1>6. \A s \in Rid : gates[p][s] = a => r = s
  BY <1>1 DEF TableInv, IInv
<1>7. pc[t] = "fill" /\ a \notin LocalAddr => r \in Rid /\ gates[p][r] = a
  BY <1>1 DEF ResourceInv, IInv
<1>8. /\ pc'[t] \notin {"getResource", "idle", "publish", "freeResource", "fill"}
      /\ pc'[t] = "name" => pc[t] = "fill"
  BY <1>5
<1>9. ResourceInv' /\ TableInv'
  BY <1>1, <1>2, <1>4, <1>5, <1>6, <1>7, <1>8, PrivateResources, SMTT(40)
<1>10. UsedInv'
  BY UsedKept
<1> QED BY <1>4, <1>9, <1>10 DEF IInv

-----------------------------------------------------------------------------
\* The rest of GateMP_create.

\* getFreeResource finds an id that no object has.
LEMMA TakeResource ==
  ASSUME IInv, NEW t \in Thread, NEW r \in FirstFree, pc[t] = "getResource",
         inUse' = [inUse EXCEPT ![r] = "USED"],
         obj' = [obj EXCEPT ![procOf[t]][tAddr[t]].resourceId = r],
         pc' = [pc EXCEPT ![t] = "publish"],
         UNCHANGED <<status, arg, names, gates, handle, tAddr, asserts>>
  PROVE  IInv'
<1> USE Procs, Constants
<1> DEFINE p == procOf[t]
           a == tAddr[t]
<1>1. r \in Rid /\ inUse[r] = "UNUSED" /\ TypeOK
  BY DEF FirstFree, IInv
<1>2. Private(t)
  BY DEF Private, Creating
<1>3. /\ a \in Addr /\ obj[p][a].objType = "create" /\ obj[p][a].numOpens = 0
      /\ status[a] # "free" /\ Owner(t, a)
  BY <1>2, PrivateIs
<1>4. a \notin LocalAddr /\ obj[p][a].resourceId = NULL /\ obj[p][a].attrs = a
  BY <1>3 DEF ResourceInv, CreatedInv, IInv, Creating
<1>5. obj \in [Proc -> [Addr -> Objects]]
  BY <1>1 DEF TypeOK, Objects
<1>6. obj[p][a] \in Objects /\ obj' = [obj EXCEPT ![p][a] = [obj[p][a] EXCEPT !.resourceId = r]]
  BY <1>3, <1>5
<1>7. [obj[p][a] EXCEPT !.resourceId = r] \in Objects
  BY <1>1, <1>6 DEF Objects
<1>8. obj' \in [Proc -> [Addr -> Objects]]
  BY <1>3, <1>5, <1>6, <1>7
<1>9. inUse' \in [Rid -> {"USED", "UNUSED"}] /\ pc' \in [Thread -> Labels]
  BY <1>1 DEF TypeOK, Labels
<1>10. TypeOK'
  BY <1>1, <1>8, <1>9 DEF TypeOK, Objects, Labels
<1>11. obj'[p][a] = [obj[p][a] EXCEPT !.resourceId = r] /\ OtherObjects(p, a)
  BY <1>3, <1>5, <1>6, SMTT(40) DEF OtherObjects
<1>12. /\ obj'[p][a].objType = "create" /\ obj'[p][a].numOpens = 0 /\ obj'[p][a].resourceId = r
       /\ obj'[p][a].attrs = a
  BY <1>3, <1>4, <1>6, <1>11 DEF Objects
<1>13. pc'[t] = "publish" /\ \A u \in Thread : u # t => pc'[u] = pc[u]
  BY <1>1, PcMoves
<1>14. /\ ThreadInv' /\ OwnerInv' /\ VacantInv' /\ PrivateInv' /\ CreatedInv'
       /\ OpeningInv' /\ OpenObjectInv' /\ OpensCounted'
       /\ \A u \in Thread, c \in Addr : Owner(u, c)' <=> Owner(u, c)
  BY <1>2, <1>3, <1>10, <1>11, <1>12, PrivateStep
<1>15. \A s \in Rid : gates[p][s] # a
  BY <1>3, <1>4 DEF TableInv, IInv
<1>16. ResourceInv' /\ TableInv'
  <2>1. \A s \in Rid : gates'[p][s] = a => obj'[p][a].resourceId = s
    BY <1>15
  <2>2. a \in LocalAddr => obj'[p][a].resourceId = NULL
    BY <1>4
  <2>3. pc'[t] = "publish" => a \notin LocalAddr /\ obj'[p][a].resourceId \in Rid
    BY <1>1, <1>4, <1>12
  <2> QED BY <1>2, <1>3, <1>10, <1>11, <1>12, <1>13, <1>14, <2>1, <2>2, <2>3, PrivateResources
<1>17. \A q \in Proc, c \in Addr, s \in Rid : Holds(q, c, s)' <=> (Holds(q, c, s) \/ (q = p /\ c = a /\ s = r))
  <2> SUFFICES ASSUME NEW q \in Proc, NEW c \in Addr, NEW s \in Rid
               PROVE  Holds(q, c, s)' <=> (Holds(q, c, s) \/ (q = p /\ c = a /\ s = r))
    OBVIOUS
  <2>1. CASE q = p /\ c = a
    BY <2>1, <1>4, <1>12 DEF Holds
  <2>2. CASE ~(q = p /\ c = a)
    BY <2>2, <1>11 DEF Holds, OtherObjects
  <2> QED BY <2>1, <2>2
<1>18. \A q \in Proc, c \in Addr : ~Holds(q, c, r)
  BY <1>1 DEF UsedInv, IInv
<1>19. inUse'[r] = "USED" /\ \A s \in Rid : s # r => inUse'[s] = inUse[s]
  BY <1>1 DEF TypeOK
<1>20. UsedInv'
  <2> SUFFICES ASSUME NEW s \in Rid
               PROVE  /\ inUse'[s] = "USED" <=> \E q \in Proc, c \in Addr : Holds(q, c, s)'
                      /\ \A q, x \in Proc, c, d \in Addr : Holds(q, c, s)' /\ Holds(x, d, s)' => q = x /\ c = d
    BY DEF UsedInv
  <2>1. CASE s = r
    BY <2>1, <1>3, <1>17, <1>18, <1>19
  <2>2. CASE s # r
    BY <2>2, <1>17, <1>19 DEF UsedInv, IInv
  <2> QED BY <2>1, <2>2
<1> QED BY <1>10, <1>14, <1>16, <1>20 DEF NoInvalidDelete, IInv

LEMMA getFreeResourceKeeps ==
  ASSUME IInv, NEW t \in Thread, getFreeResource(t)
  PROVE  IInv'
<1>1. CASE \E r \in FirstFree :
             /\ inUse' = [inUse EXCEPT ![r] = "USED"]
             /\ obj' = [obj EXCEPT ![procOf[t]][tAddr[t]].resourceId = r]
             /\ Goto(t, "publish")
  BY <1>1, TakeResource DEF getFreeResource, Goto
<1>2. CASE Goto(t, "finalize") /\ UNCHANGED <<inUse, obj>>
  <2>1. TypeOK /\ Private(t) /\ pc' = [pc EXCEPT ![t] = "finalize"]
    BY <1>2 DEF IInv, getFreeResource, Goto, Private, Creating
  <2>2. UNCHANGED <<tAddr, handle, names, obj, gates, inUse, status, arg, asserts>>
    BY <1>2 DEF getFreeResource, Goto
  <2>3. pc' \in [Thread -> Labels]
    BY <2>1 DEF TypeOK, Labels
  <2>4. TypeOK'
    BY <2>1, <2>2, <2>3 DEF TypeOK, Labels
  <2>5. NoInvalidDelete' /\ status'[tAddr[t]] # "free"
    BY <2>1, <2>2, PrivateIs DEF NoInvalidDelete, IInv
  <2> QED BY <2>1, <2>2, <2>4, <2>5, PrivateGoesOn
<1> QED BY <1>1, <1>2 DEF getFreeResource

LEMMA publishKeeps ==
  ASSUME IInv, NEW t \in Thread, publish(t)
  PROVE  IInv'
<1> USE Procs, Constants
<1> DEFINE p == procOf[t]
           a == tAddr[t]
<1>1. /\ pc[t] = "publish" /\ TypeOK /\ Private(t)
      /\ UNCHANGED <<inUse, status, arg, names, obj, handle, asserts>>
  BY DEF publish, shared, IInv, Private, Creating
<1>2. /\ a \in Addr /\ obj[p][a].objType = "create" /\ obj[p][a].numOpens = 0
      /\ status[a] # "free"
  BY <1>1, PrivateIs
<1>3. a \notin LocalAddr /\ obj[p][a].resourceId \in Rid /\ obj[p][a].attrs = a
  BY <1>1, <1>2 DEF ResourceInv, CreatedInv, IInv, Creating
<1> PICK r \in Rid : obj[p][a].resourceId = r
  BY <1>3
<1>4. CASE gates' = [gates EXCEPT ![p][r] = a] /\ Goto(t, "fill")
  <2>1. pc' = [pc EXCEPT ![t] = "fill"] /\ UNCHANGED tAddr
    BY <1>4 DEF Goto
  <2>2. gates \in [Proc -> [Rid -> Addr \cup {NULL}]] /\ pc' \in [Thread -> Labels]
    BY <1>1, <2>1 DEF TypeOK, Labels
  <2>3. gates' \in [Proc -> [Rid -> Addr \cup {NULL}]]
    BY <1>2, <1>3, <1>4, <2>2
  <2>4. TypeOK'
    BY <1>1, <2>1, <2>2, <2>3 DEF TypeOK, Labels
  <2>5. /\ gates'[p][r] = a
        /\ \A q \in Proc, s \in Rid : q # p \/ s # r => gates'[q][s] = gates[q][s]
    BY <1>3, <1>4, <2>2
  <2>6. gates[p][r] \in {NULL, a}
    BY <1>2, <1>3, EntryIs
  <2>7. \A q \in Proc, s \in Rid : \/ gates'[q][s] = gates[q][s]
                                   \/ gates[q][s] \in {NULL, a} /\ gates'[q][s] \in {NULL, a}
    BY <2>5, <2>6
  <2>8. OtherObjects(p, a)
    BY <1>1 DEF OtherObjects
  <2>9. pc'[t] = "fill" /\ \A u \in Thread : u # t => pc'[u] = pc[u]
    BY <1>1, <2>1, PcMoves
  <2>10. /\ ThreadInv' /\ OwnerInv' /\ VacantInv' /\ PrivateInv' /\ CreatedInv'
         /\ OpeningInv' /\ OpenObjectInv' /\ OpensCounted'
         /\ \A u \in Thread, c \in Addr : Owner(u, c)' <=> Owner(u, c)
    BY <1>1, <1>2, <1>3, <2>1, <2>4, <2>7, <2>8, PrivateStep
  <2>11. \A s \in Rid : gates'[p][s] = a => r = s
    <3>1. \A s \in Rid : gates[p][s] = a => obj[p][a].resourceId = s
      BY <1>2 DEF TableInv, IInv
    <3> QED BY <2>5, <3>1
  <2>12. ResourceInv' /\ TableInv'
    <3>1. \A q \in Proc, s \in Rid : q # p => gates'[q][s] = gates[q][s]
      BY <2>5
    <3>2. \A s \in Rid : gates'[p][s] = a => obj'[p][a].resourceId = s
      BY <1>1, <2>11
    <3>3. /\ a \in LocalAddr => obj'[p][a].resourceId = NULL
          /\ obj'[p][a].resourceId = r /\ gates'[p][r] = a
          /\ obj'[p][a].objType = "create"
      BY <1>1, <1>2, <1>3, <2>5
    <3>4. UNCHANGED <<tAddr, handle>>
      BY <1>1, <2>1
    <3> QED BY <1>1, <1>2, <2>4, <2>7, <2>8, <2>9, <2>10, <3>1, <3>2, <3>3, <3>4, PrivateResources
  <2>13. UsedInv'
    BY <1>1, UsedKept
  <2> QED BY <1>1, <2>4, <2>10, <2>12, <2>13 DEF NoInvalidDelete, IInv
<1>5. CASE Goto(t, "finalize") /\ UNCHANGED gates
  <2>1. pc' = [pc EXCEPT ![t] = "finalize"] /\ UNCHANGED tAddr
    BY <1>5 DEF Goto
  <2>2. pc' \in [Thread -> Labels]
    BY <1>1, <2>1 DEF TypeOK, Labels
  <2>3. TypeOK'
    BY <1>1, <1>5, <2>1, <2>2 DEF TypeOK, Labels
  <2> QED BY <1>1, <1>2, <1>5, <2>1, <2>3, PrivateGoesOn DEF NoInvalidDelete, IInv
<1> QED BY <1>4, <1>5 DEF publish, Object

LEMMA fillKeeps ==
  ASSUME IInv, NEW t \in Thread, fill(t)
  PROVE  IInv'
<1> USE Procs, Constants
<1> DEFINE a == tAddr[t]
           r == obj[procOf[t]][a].resourceId
<1>1. /\ pc[t] = "fill" /\ TypeOK /\ Private(t)
      /\ arg' = [arg EXCEPT ![a] = r] /\ status' = [status EXCEPT ![a] = "CREATED"]
      /\ pc' = [pc EXCEPT ![t] = "name"]
      /\ UNCHANGED <<inUse, names, gates, obj, handle, tAddr, asserts>>
  BY DEF fill, local, Goto, Object, IInv, Private, Creating
<1>2. a \in Addr /\ r \in Rid \cup {NULL}
  BY <1>1, PrivateIs
<1>3. /\ arg' \in [Addr -> Rid \cup {NULL}] /\ status' \in [Addr -> {"free", "0", "CREATED"}]
      /\ pc' \in [Thread -> Labels]
  BY <1>1, <1>2 DEF TypeOK, Labels
<1>4. TypeOK'
  BY <1>1, <1>3 DEF TypeOK, Labels
<1>5. /\ arg'[a] = r /\ status'[a] = "CREATED"
      /\ \A c \in Addr : c # a => status'[c] = status[c] /\ arg'[c] = arg[c]
  BY <1>1, <1>2 DEF TypeOK
<1>6. NoInvalidDelete'
  BY <1>1 DEF NoInvalidDelete, IInv
<1> QED BY <1>1, <1>4, <1>5, <1>6, PrivateGoesOn

\* The thread is where a call leads it, and the others are where they were.
LEMMA Called ==
  ASSUME TypeOK, NEW t \in Thread, NEW label \in Labels, NEW a \in Addr \cup {NULL}, Call(t, label, a)
  PROVE  /\ pc'[t] = label /\ \A u \in Thread : u # t => pc'[u] = pc[u]
         /\ tAddr'[t] = a /\ \A u \in Thread : u # t => tAddr'[u] = tAddr[u]
         /\ pc' \in [Thread -> Labels] /\ tAddr' \in [Thread -> Addr \cup {NULL}]
<1>1. pc \in [Thread -> Labels] /\ tAddr \in [Thread -> Addr \cup {NULL}]
  BY DEF TypeOK, Labels
<1>2. pc' = [pc EXCEPT ![t] = label] /\ tAddr' = [tAddr EXCEPT ![t] = a]
  BY DEF Call
<1> QED BY ONLY <1>1, <1>2, t \in Thread, label \in Labels, a \in Addr \cup {NULL}

LEMMA HandleSet ==
  ASSUME TypeOK, NEW t \in Thread, NEW h \in Handles, handle' = [handle EXCEPT ![t] = h]
  PROVE  /\ handle'[t] = h /\ \A u \in Thread : u # t => handle'[u] = handle[u]
         /\ handle' \in [Thread -> Handles]
<1>1. handle \in [Thread -> Handles]
  BY DEF TypeOK, Handles
<1> QED BY ONLY <1>1, handle' = [handle EXCEPT ![t] = h], t \in Thread, h \in Handles

\* NameServer_add makes the gate known, and the creator has its handle.
LEMMA nameDone ==
  ASSUME IInv, NEW t \in Thread, pc[t] = "name",
         names' = names \cup {tAddr[t]},
         handle' = [handle EXCEPT ![t] = [kind |-> "created", gate |-> tAddr[t]]],
         Return(t),
         UNCHANGED <<inUse, status, arg, obj, gates, asserts>>
  PROVE  IInv'
<1> USE Procs, Constants
<1> DEFINE p == procOf[t]
<1>1. TypeOK /\ ThreadInv /\ Private(t)
  BY DEF IInv, Private, Creating
<1> PICK a \in Addr : tAddr[t] = a
  BY <1>1, PrivateIs
<1>2. /\ a \in Addr /\ a \notin names /\ Owner(t, a) /\ handle[t] = NoHandle
      /\ obj[p][a].objType = "create"
  BY <1>1, PrivateIs
<1>3. /\ \A u \in Thread : u # t => tAddr[u] # a /\ handle[u].gate # a
      /\ \A q \in Proc : q # p => obj[q][a] = NoObject
  BY <1>1 DEF PrivateInv, IInv
<1>4. /\ pc'[t] = "idle" /\ \A u \in Thread : u # t => pc'[u] = pc[u]
      /\ tAddr'[t] = NULL /\ \A u \in Thread : u # t => tAddr'[u] = tAddr[u]
      /\ pc' \in [Thread -> Labels] /\ tAddr' \in [Thread -> Addr \cup {NULL}]
  BY <1>1, Called DEF Return, Labels
<1>5. /\ handle'[t] = [kind |-> "created", gate |-> a]
      /\ \A u \in Thread : u # t => handle'[u] = handle[u]
      /\ handle' \in [Thread -> Handles]
  <2>1. [kind |-> "created", gate |-> a] \in Handles
    BY <1>2 DEF Handles
  <2> QED BY <1>1, <2>1, HandleSet
<1>6. TypeOK'
  BY <1>1, <1>2, <1>4, <1>5 DEF TypeOK, Labels, Handles
<1>7. Others(t)
  BY <1>4, <1>5 DEF Others
<1>8. /\ ~Private(t)' /\ Created(t, a)' /\ \A c \in Addr : c # a => ~Created(t, c)'
      /\ \A c \in Addr : ~Created(t, c) /\ ~Opened(t, c) /\ ~Opened(t, c)'
  <2>1. ~Private(t)'
    BY <1>4 DEF Private, Creating, Finalizing
  <2>2. \A c \in Addr : ~Created(t, c) /\ ~Opened(t, c)
    BY <1>1, <1>2, HandleIs
  <2>3. Created(t, a)' /\ \A c \in Addr : ~Opened(t, c)' /\ (c # a => ~Created(t, c)')
    BY <1>5 DEF Created, Opened
  <2> QED BY <2>1, <2>2, <2>3
<1>9. \A u \in Thread : u # t =>
        /\ \A c \in Addr : (Owner(u, c)' <=> Owner(u, c)) /\ (Created(u, c)' <=> Created(u, c))
        /\ \A c \in Addr : Opened(u, c)' <=> Opened(u, c)
        /\ tAddr[u] \in Addr => (Private(u)' <=> Private(u))
        /\ Finalizing(u)' <=> Finalizing(u)
        /\ tAddr[u] \in Addr => Object(u)' = Object(u)
  BY <1>1, <1>4, <1>7, OwnerOthers DEF Object
<1>10. \A u \in Thread, c \in Addr : Owner(u, c)' <=> Owner(u, c)
  <2>1. \A c \in Addr : Owner(t, c)' <=> Owner(t, c)
    <3> SUFFICES ASSUME NEW c \in Addr PROVE Owner(t, c)' <=> Owner(t, c)
      OBVIOUS
    <3>1. CASE c = a
      BY <3>1, <1>2, <1>8 DEF Owner
    <3>2. CASE c # a
      BY <3>2, <1>8 DEF Owner
    <3> QED BY <3>1, <3>2
  <2> QED BY <2>1, <1>9
<1>11. ThreadInv'
  BY <1>1, <1>2, <1>4, <1>5 DEF ThreadInv
<1>12. OwnerInv'
  BY <1>10 DEF OwnerInv, IInv
<1>13. VacantInv'
  <2> SUFFICES ASSUME NEW c \in Addr, \A u \in Thread : ~Owner(u, c)
               PROVE  /\ status[c] = "free" /\ c \notin names'
                      /\ \A q \in Proc : obj[q][c] = NoObject
                      /\ \A u \in Thread : tAddr'[u] # c /\ handle'[u].gate # c
    BY <1>10 DEF VacantInv
  <2>1. c # a
    BY <1>2
  <2>2. VacantInv
    BY DEF IInv
  <2>3. /\ status[c] = "free" /\ c \notin names
        /\ \A q \in Proc : obj[q][c] = NoObject
        /\ \A u \in Thread : tAddr[u] # c /\ handle[u].gate # c
    BY <2>2 DEF VacantInv
  <2> QED BY <2>1, <2>3, <1>4, <1>5
<1>14. PrivateInv'
  <2> SUFFICES ASSUME NEW u \in Thread, Private(u)'
               PROVE  /\ tAddr'[u] \notin names'
                      /\ Object(u)'.numOpens = 0
                      /\ \A v \in Thread : v # u => tAddr'[v] # tAddr'[u] /\ handle'[v].gate # tAddr'[u]
                      /\ \A q \in Proc : q # procOf[u] => obj[q][tAddr'[u]] = NoObject
    BY DEF PrivateInv
  <2>1. u # t
    BY <1>8
  <2>2. tAddr'[u] = tAddr[u] /\ tAddr[u] # a
    BY <2>1, <1>3, <1>4
  <2>3. tAddr[u] \in Addr
    BY <2>1, <1>4, HandleTypes, <1>1 DEF ThreadInv, Private, Creating, Finalizing
  <2>4. Private(u) /\ Object(u)' = Object(u)
    BY <2>1, <2>3, <1>9
  <2>5. /\ tAddr[u] \notin names
        /\ Object(u).numOpens = 0
        /\ \A v \in Thread : v # u => tAddr[v] # tAddr[u] /\ handle[v].gate # tAddr[u]
        /\ \A q \in Proc : q # procOf[u] => obj[q][tAddr[u]] = NoObject
    BY <2>4 DEF PrivateInv, IInv
  <2> QED BY <2>1, <2>2, <2>3, <2>4, <2>5, <1>4, <1>5
<1>15. CreatedInv'
  <2> SUFFICES ASSUME NEW u \in Thread, NEW c \in Addr
               PROVE  /\ Created(u, c)' => c \in names'
                      /\ Created(u, c)' \/ (tAddr'[u] = c /\ Creating(u)') => obj[procOf[u]][c].attrs = c
                      /\ Created(u, c)' \/ (tAddr'[u] = c /\ pc'[u] = "name") =>
                           status[c] = "CREATED" /\ arg[c] = obj[procOf[u]][c].resourceId
    BY DEF CreatedInv
  <2>1. CreatedInv
    BY DEF IInv
  <2>2. CASE u = t
    BY <2>1, <2>2, <1>2, <1>4, <1>8 DEF CreatedInv, Creating
  <2>3. CASE u # t
    BY <2>1, <2>3, <1>4, <1>9 DEF CreatedInv, Creating
  <2> QED BY <2>2, <2>3
<1>16. OpeningInv'
  <2> SUFFICES ASSUME NEW u \in Thread
               PROVE  /\ handle'[u].kind = "opened" => handle'[u].gate \in names'
                      /\ pc'[u] = "open" =>
                           /\ tAddr'[u] \in names'
                           /\ tAddr'[u] \in LocalAddr => Object(u)'.objType = "create"
                      /\ Finalizing(u)' =>
                           /\ Object(u)'.objType # "none"
                           /\ Object(u)'.numOpens = 0
                           /\ \A v \in Thread : v # u /\ procOf[v] = procOf[u] => tAddr'[v] # tAddr'[u]
    BY DEF OpeningInv
  <2>1. OpeningInv
    BY DEF IInv
  <2>2. CASE u = t
    BY <2>2, <1>4, <1>5 DEF Finalizing
  <2>3. CASE u # t
    <3>1. /\ pc[u] # "idle" => tAddr[u] \in Addr
          /\ Finalizing(u) => pc[u] # "idle"
      BY HandleTypes, <1>1 DEF ThreadInv, Finalizing
    <3>2. /\ pc'[u] = pc[u] /\ tAddr'[u] = tAddr[u] /\ handle'[u] = handle[u]
          /\ Finalizing(u)' <=> Finalizing(u)
      BY <2>3, <1>4, <1>5, <1>9
    <3>3. pc[u] # "idle" => Object(u)' = Object(u)
      BY <2>3, <3>1, <1>9
    <3> QED BY <2>1, <2>3, <3>1, <3>2, <3>3, <1>4 DEF OpeningInv
  <2> QED BY <2>2, <2>3
<1>17. OpenObjectInv'
  <2>1. \A u \in Thread, c \in Addr : tAddr[u] = c /\ Finalizing(u) => tAddr'[u] = c /\ Finalizing(u)'
    BY <1>4, <1>9 DEF Finalizing
  <2> QED BY <2>1 DEF OpenObjectInv, IInv
<1>18. ResourceInv'
  <2>1. ResourceInv
    BY DEF IInv
  <2> SUFFICES ASSUME NEW u \in Thread, NEW c \in Addr
               PROVE  LET r == obj[procOf[u]][c].resourceId IN
                      /\ Owner(u, c) /\ c \in LocalAddr => r = NULL
                      /\ tAddr'[u] = c =>
                           /\ pc'[u] \in {"getResource", "publish"} => c \notin LocalAddr
                           /\ pc'[u] = "getResource" => r = NULL
                           /\ pc'[u] = "publish" => r \in Rid
                           /\ pc'[u] = "freeResource" /\ r # NULL => gates[procOf[u]][r] # c
                      /\ c \notin LocalAddr /\ (Created(u, c)' \/ (tAddr'[u] = c /\ pc'[u] \in {"fill", "name"})) =>
                           r \in Rid /\ gates[procOf[u]][r] = c
    BY <1>10 DEF ResourceInv
  <2>2. CASE u = t
    BY <2>1, <2>2, <1>4, <1>8 DEF ResourceInv
  <2>3. CASE u # t
    BY <2>1, <2>3, <1>4, <1>9 DEF ResourceInv
  <2> QED BY <2>2, <2>3
<1>19. UsedInv' /\ TableInv'
  BY UsedKept DEF TableInv, IInv
<1>20. OpensCounted'
  <2>1. \A q \in Proc, c \in Addr : Users(q, c)' = Users(q, c)
    BY <1>8, <1>9 DEF Users
  <2> QED BY <2>1 DEF OpensCounted, IInv
<1> QED BY <1>6, <1>11, <1>12, <1>13, <1>14, <1>15, <1>16, <1>17, <1>18, <1>19, <1>20 DEF NoInvalidDelete, IInv

LEMMA nameKeeps ==
  ASSUME IInv, NEW t \in Thread, name(t)
  PROVE  IInv'
<1>1. UNCHANGED <<inUse, status, arg, obj, gates, asserts>> /\ pc[t] = "name"
  BY DEF name, local
<1>2. CASE /\ names' = names \cup {tAddr[t]}
           /\ handle' = [handle EXCEPT ![t] = [kind |-> "created", gate |-> tAddr[t]]]
           /\ Return(t)
  BY <1>1, <1>2, nameDone
<1>3. CASE Goto(t, "finalize") /\ UNCHANGED <<names, handle>>
  <2>1. TypeOK /\ Private(t) /\ pc' = [pc EXCEPT ![t] = "finalize"]
    BY <1>1, <1>3 DEF IInv, Goto, Private, Creating
  <2>2. UNCHANGED <<tAddr, handle, names, obj, gates, inUse, status, arg, asserts>>
    BY <1>1, <1>3 DEF Goto
  <2>3. pc' \in [Thread -> Labels]
    BY <2>1 DEF TypeOK, Labels
  <2>4. TypeOK'
    BY <2>1, <2>2, <2>3 DEF TypeOK, Labels
  <2>5. NoInvalidDelete' /\ status'[tAddr[t]] # "free"
    BY <2>1, <2>2, PrivateIs DEF NoInvalidDelete, IInv
  <2> QED BY <2>1, <2>2, <2>4, <2>5, PrivateGoesOn
<1> QED BY <1>2, <1>3 DEF name

-----------------------------------------------------------------------------
\* GateMP_delete and Instance_finalize.

\* What Instance_finalize does to the gate of a creator, which no thread of
\* the processor has open.
LEMMA FinalizeIs ==
  ASSUME TypeOK, NoInvalidDelete, NEW t \in Thread, NEW a \in Addr, Finalize(t, a),
         obj[procOf[t]][a].numOpens = 0
  PROVE  /\ NoInvalidDelete' /\ Call(t, "proxy", a)
         /\ asserts' \subseteq {"A_invalidDelete", "attrs NULL"}
         /\ UNCHANGED <<inUse, arg, obj, gates>>
         /\ names' \subseteq names /\ \A c \in Addr : c # a => (c \in names' <=> c \in names)
         /\ status' \in [Addr -> {"free", "0", "CREATED"}]
         /\ \A c \in Addr : c # a => status'[c] = status[c]
         /\ status'[a] \in {status[a], "0"}
         /\ obj[procOf[t]][a].objType = "create" /\ obj[procOf[t]][a].attrs # NULL => a \notin names'
         /\ obj[procOf[t]][a].objType # "create" => UNCHANGED <<names, status>>
<1> DEFINE o == obj[procOf[t]][a]
<1>1. /\ asserts' = asserts \cup (IF o.objType = "create" /\ o.attrs = NULL THEN {"attrs NULL"} ELSE {})
      /\ Call(t, "proxy", a) /\ UNCHANGED <<inUse, arg, obj, gates>>
  BY DEF Finalize, local
<1>2. NoInvalidDelete' /\ asserts' \subseteq {"A_invalidDelete", "attrs NULL"}
  BY <1>1 DEF NoInvalidDelete, TypeOK
<1>3. status \in [Addr -> {"free", "0", "CREATED"}]
  BY DEF TypeOK
<1>4. CASE o.objType = "create" /\ o.attrs # NULL
  <2>1. names' = names \ {a} /\ status' = [status EXCEPT ![a] = "0"]
    BY <1>4 DEF Finalize
  <2> QED BY <1>1, <1>2, <1>3, <1>4, <2>1
<1>5. CASE ~(o.objType = "create" /\ o.attrs # NULL)
  <2>1. UNCHANGED <<names, status>>
    BY <1>5 DEF Finalize
  <2> QED BY <1>1, <1>2, <1>3, <1>5, <2>1
<1> QED BY <1>4, <1>5

\* A create that failed takes its gate away.
LEMMA finalizeCreated ==
  ASSUME IInv, NEW t \in Thread, finalize(t), Object(t).objType = "create"
  PROVE  IInv'
<1> USE Procs, Constants
<1>1. TypeOK /\ NoInvalidDelete /\ pc[t] = "finalize" /\ Private(t)
  BY DEF IInv, finalize, Private, Finalizing
<1> PICK a \in Addr : tAddr[t] = a
  BY <1>1, PrivateIs
<1>2. /\ a \notin names /\ status[a] # "free"
      /\ obj[procOf[t]][a].objType = "create" /\ obj[procOf[t]][a].numOpens = 0
  BY <1>1, PrivateIs
<1>3. Finalize(t, a) /\ handle' = handle
  BY DEF finalize
<1>4. /\ NoInvalidDelete' /\ Call(t, "proxy", a)
      /\ asserts' \subseteq {"A_invalidDelete", "attrs NULL"}
      /\ UNCHANGED <<inUse, arg, obj, gates>>
      /\ names' \subseteq names /\ \A c \in Addr : c # a => (c \in names' <=> c \in names)
      /\ status' \in [Addr -> {"free", "0", "CREATED"}]
      /\ \A c \in Addr : c # a => status'[c] = status[c]
      /\ status'[a] \in {status[a], "0"}
  BY ONLY <1>1, <1>2, <1>3, t \in Thread, a \in Addr, FinalizeIs, ZenonT(40)
<1>5. names \subseteq Addr
  BY <1>1 DEF TypeOK
<1>6. names' = names
  BY ONLY <1>2, <1>4, <1>5
<1>7. tAddr' = tAddr /\ pc' = [pc EXCEPT ![t] = "proxy"]
  BY <1>1, <1>4 DEF Call, TypeOK
<1>8. pc' \in [Thread -> Labels]
  BY <1>1, <1>7 DEF TypeOK, Labels
<1>9. TypeOK'
  BY <1>1, <1>3, <1>4, <1>6, <1>7, <1>8 DEF TypeOK, Labels
<1>10. status'[a] # "free"
  BY <1>2, <1>4
<1> QED BY <1>1, <1>3, <1>4, <1>6, <1>7, <1>9, <1>10, PrivateGoesOn

\* The last close goes on to the proxy of its object.
LEMMA finalizeOpened ==
  ASSUME IInv, NEW t \in Thread, finalize(t), Object(t).objType # "create"
  PROVE  IInv'
<1> USE Procs, Constants
<1>1. TypeOK /\ ThreadInv /\ NoInvalidDelete /\ pc[t] = "finalize"
  BY DEF IInv, finalize
<1> PICK a \in Addr : tAddr[t] = a
  BY <1>1, HandleTypes DEF ThreadInv
<1>2. obj[procOf[t]][a].objType # "create" /\ obj[procOf[t]][a].numOpens = 0
  BY <1>1 DEF OpeningInv, IInv, Finalizing, Object
<1>3. Finalize(t, a) /\ handle' = handle
  BY DEF finalize
<1>4. /\ NoInvalidDelete' /\ Call(t, "proxy", a)
      /\ asserts' \subseteq {"A_invalidDelete", "attrs NULL"}
      /\ UNCHANGED <<inUse, arg, obj, gates, names, status>>
  BY <1>1, <1>2, <1>3, FinalizeIs, ZenonT(40)
<1>5. tAddr' = tAddr /\ pc' = [pc EXCEPT ![t] = "proxy"]
  BY <1>1, <1>4 DEF Call, TypeOK
<1>6. pc' \in [Thread -> Labels]
  BY <1>1, <1>5 DEF TypeOK, Labels
<1>7. TypeOK'
  BY <1>1, <1>3, <1>4, <1>5, <1>6 DEF TypeOK, Labels
<1>8. pc'[t] = "proxy" /\ \A u \in Thread : u # t => pc'[u] = pc[u]
  BY <1>1, <1>5, PcMoves
<1>9. \A u \in Thread : /\ Private(u)' <=> Private(u)
                        /\ Finalizing(u)' <=> Finalizing(u)
                        /\ Creating(u)' <=> Creating(u)
                        /\ Object(u)' = Object(u)
                        /\ pc'[u] = pc[u] \/ (pc[u] = "finalize" /\ pc'[u] = "proxy")
  BY <1>1, <1>4, <1>5, <1>8 DEF Private, Finalizing, Creating, Object
<1>10. UNCHANGED <<tAddr, handle, inUse, arg, obj, gates, names, status>>
  BY <1>3, <1>4, <1>5
<1>11. \A u \in Thread, c \in Addr : (Owner(u, c)' <=> Owner(u, c)) /\ (Created(u, c)' <=> Created(u, c))
  BY <1>10, <1>9 DEF Owner, Created
<1>12. ThreadInv'
  BY <1>1, <1>10, <1>9 DEF ThreadInv
<1>13. OwnerInv' /\ VacantInv'
  BY <1>10, <1>11 DEF OwnerInv, VacantInv, IInv
<1>14. PrivateInv'
  BY <1>10, <1>9 DEF PrivateInv, IInv
<1>15. CreatedInv'
  BY <1>10, <1>9, <1>11 DEF CreatedInv, IInv
<1>16. OpeningInv'
  BY <1>10, <1>9 DEF OpeningInv, IInv
<1>17. OpenObjectInv'
  BY <1>10, <1>9 DEF OpenObjectInv, IInv
<1>18. ResourceInv'
  BY <1>10, <1>9, <1>11 DEF ResourceInv, IInv
<1>19. UsedInv' /\ TableInv' /\ OpensCounted'
  <2>1. \A q, c : Users(q, c)' = Users(q, c)
    BY <1>3 DEF Users, Opened
  <2>2. OpensCounted'
    BY <1>4, <2>1 DEF OpensCounted, IInv
  <2> QED BY <1>4, <2>2, UsedKept, ZenonT(40) DEF TableInv, IInv
<1> QED BY <1>4, <1>7, <1>12, <1>13, <1>14, <1>15, <1>16, <1>17, <1>18, <1>19 DEF IInv

LEMMA finalizeKeeps ==
  ASSUME IInv, NEW t \in Thread, finalize(t)
  PROVE  IInv'
BY finalizeCreated, finalizeOpened

-----------------------------------------------------------------------------
\* The proxy and the entry of the table.

\* The entry that deleteProxy clears is that of its gate, or there was none.
LEMMA EntryCleared ==
  ASSUME IInv, NEW p \in Proc, NEW a \in Addr, obj[p][a].objType # "none",
         gates' = IF obj[p][a].resourceId # NULL
                  THEN [gates EXCEPT ![p][obj[p][a].resourceId] = NULL] ELSE gates
  PROVE  /\ gates' \in [Proc -> [Rid -> Addr \cup {NULL}]]
         /\ \A q \in Proc, s \in Rid : \/ gates'[q][s] = gates[q][s]
                                       \/ q = p /\ gates[q][s] = a /\ gates'[q][s] = NULL
         /\ \A s \in Rid : gates'[p][s] # a
<1> USE Constants
<1>1. gates \in [Proc -> [Rid -> Addr \cup {NULL}]] /\ TypeOK
  BY DEF TypeOK, IInv
<1>2. \A s \in Rid : gates[p][s] = a => obj[p][a].resourceId = s
  BY DEF TableInv, IInv
<1>3. CASE obj[p][a].resourceId = NULL
  BY <1>1, <1>2, <1>3
<1>4. CASE obj[p][a].resourceId # NULL
  <2> PICK r \in Rid : obj[p][a].resourceId = r
    BY <1>1, <1>4, ObjectTypes
  <2>1. gates' = [gates EXCEPT ![p][r] = NULL] /\ gates[p][r] \in {NULL, a}
    BY <1>4, EntryIs
  <2>2. /\ gates' \in [Proc -> [Rid -> Addr \cup {NULL}]]
        /\ gates'[p][r] = NULL
        /\ \A q \in Proc, s \in Rid : q # p \/ s # r => gates'[q][s] = gates[q][s]
    BY <1>1, <2>1
  <2> QED BY <1>2, <2>1, <2>2
<1> QED BY <1>3, <1>4

LEMMA deleteProxyCreated ==
  ASSUME IInv, NEW t \in Thread, deleteProxy(t), Object(t).objType # "open"
  PROVE  IInv'
<1> USE Procs, Constants
<1> DEFINE p == procOf[t]
<1>1. TypeOK /\ ThreadInv /\ pc[t] = "proxy"
  BY DEF IInv, deleteProxy
<1>2. tAddr[t] \in Addr
  BY <1>1, HandleTypes DEF ThreadInv
<1>3. Private(t)
  <2>1. Object(t).objType \in {"create", "open"}
    BY <1>1, <1>2, ObjectTypes DEF OpeningInv, IInv, Finalizing, Object
  <2> QED BY <1>1, <2>1 DEF Private, Finalizing
<1> PICK a \in Addr : tAddr[t] = a
  BY <1>2
<1>4. /\ obj[p][a].objType = "create" /\ obj[p][a].numOpens = 0 /\ status[a] # "free"
      /\ a \in LocalAddr => obj[p][a].resourceId = NULL
      /\ obj[p][a].resourceId \in Rid \cup {NULL}
  BY <1>3, PrivateIs
<1>20. gates' = IF obj[p][a].resourceId # NULL
                 THEN [gates EXCEPT ![p][obj[p][a].resourceId] = NULL] ELSE gates
  BY DEF deleteProxy, Object
<1>21. obj[p][a].objType # "none" /\ p \in Proc
  BY <1>4
<1>5. /\ pc' = [pc EXCEPT ![t] = "freeResource"]
      /\ UNCHANGED <<inUse, status, arg, names, obj, handle, tAddr, asserts>>
  BY DEF deleteProxy, Goto, shared, Object
<1>6. /\ gates' \in [Proc -> [Rid -> Addr \cup {NULL}]]
      /\ \A q \in Proc, s \in Rid : \/ gates'[q][s] = gates[q][s]
                                    \/ q = p /\ gates[q][s] = a /\ gates'[q][s] = NULL
      /\ \A s \in Rid : gates'[p][s] # a
  BY ONLY <1>20, <1>21, IInv, a \in Addr, EntryCleared
<1>7. pc' \in [Thread -> Labels]
  BY <1>1, <1>5 DEF TypeOK, Labels
<1>8. TypeOK'
  BY <1>1, <1>5, <1>6, <1>7 DEF TypeOK, Labels
<1>9. OtherObjects(p, a)
  BY <1>5 DEF OtherObjects
<1>10. pc'[t] = "freeResource" /\ \A u \in Thread : u # t => pc'[u] = pc[u]
  BY <1>1, <1>5, PcMoves
<1>11. \A q \in Proc, s \in Rid : \/ gates'[q][s] = gates[q][s]
                                  \/ gates[q][s] \in {NULL, a} /\ gates'[q][s] \in {NULL, a}
  BY <1>6
<1>12. /\ UNCHANGED <<tAddr, handle, names>>
       /\ obj'[p][a].objType = "create" /\ obj'[p][a].numOpens = 0 /\ status'[a] # "free"
       /\ \A c \in Addr : c # a => status'[c] = status[c] /\ arg'[c] = arg[c]
  BY <1>4, <1>5
<1>13. pc' = [pc EXCEPT ![t] = "freeResource"]
  BY <1>5
<1>14. /\ ThreadInv' /\ OwnerInv' /\ VacantInv' /\ PrivateInv' /\ CreatedInv'
       /\ OpeningInv' /\ OpenObjectInv' /\ OpensCounted'
       /\ \A u \in Thread, c \in Addr : Owner(u, c)' <=> Owner(u, c)
  BY <1>3, <1>8, <1>9, <1>11, <1>12, <1>13, PrivateStep
<1>15. ResourceInv' /\ TableInv'
  <2>1. \A q \in Proc, s \in Rid : q # p => gates'[q][s] = gates[q][s]
    BY <1>6
  <2>2. \A s \in Rid : gates'[p][s] = a => obj'[p][a].resourceId = s
    BY <1>6
  <2>3. a \in LocalAddr => obj'[p][a].resourceId = NULL
    BY <1>4, <1>5
  <2>4. obj'[p][a].resourceId # NULL => gates'[p][obj'[p][a].resourceId] # a
    BY <1>4, <1>5, <1>6
  <2> QED BY <1>3, <1>8, <1>9, <1>10, <1>11, <1>12, <1>14, <2>1, <2>2, <2>3, <2>4, PrivateResources
<1>16. UsedInv'
  BY <1>5, UsedKept
<1> QED BY <1>5, <1>8, <1>14, <1>15, <1>16 DEF NoInvalidDelete, IInv

LEMMA deleteProxyOpened ==
  ASSUME IInv, NEW t \in Thread, deleteProxy(t), Object(t).objType = "open"
  PROVE  IInv'
<1> USE Procs, Constants
<1> DEFINE p == procOf[t]
<1>1. TypeOK /\ ThreadInv /\ OwnerInv /\ pc[t] = "proxy"
  BY DEF IInv, deleteProxy
<1> PICK a \in Addr : tAddr[t] = a
  BY <1>1, HandleTypes DEF ThreadInv
<1>2. /\ obj[p][a].objType = "open" /\ obj[p][a].numOpens = 0 /\ handle[t] = NoHandle
      /\ \A u \in Thread : u # t /\ procOf[u] = p => tAddr[u] # a
  BY <1>1 DEF OpeningInv, IInv, Finalizing, Object, ThreadInv
<1>3. gates' = IF obj[p][a].resourceId # NULL
               THEN [gates EXCEPT ![p][obj[p][a].resourceId] = NULL] ELSE gates
  BY DEF deleteProxy, Object
<1>4. obj[p][a].objType # "none" /\ p \in Proc
  BY <1>2
<1>5. /\ gates' \in [Proc -> [Rid -> Addr \cup {NULL}]]
      /\ \A q \in Proc, s \in Rid : \/ gates'[q][s] = gates[q][s]
                                    \/ q = p /\ gates[q][s] = a /\ gates'[q][s] = NULL
      /\ \A s \in Rid : gates'[p][s] # a
  BY ONLY <1>3, <1>4, IInv, a \in Addr, EntryCleared
<1>6. /\ obj' = [obj EXCEPT ![p][a] = NoObject] /\ Return(t)
      /\ UNCHANGED <<inUse, status, arg, names, handle, asserts>>
  BY <1>2 DEF deleteProxy, shared, Object
<1>7. obj' \in [Proc -> [Addr -> Objects]] /\ OtherObjects(p, a) /\ obj'[p][a] = NoObject
  <2>1. obj \in [Proc -> [Addr -> Objects]]
    BY <1>1 DEF TypeOK, Objects
  <2> QED BY ONLY <2>1, <1>6, <1>4, a \in Addr, NoObjectIs DEF OtherObjects
<1>8. /\ pc'[t] = "idle" /\ \A u \in Thread : u # t => pc'[u] = pc[u]
      /\ tAddr'[t] = NULL /\ \A u \in Thread : u # t => tAddr'[u] = tAddr[u]
      /\ pc' \in [Thread -> Labels] /\ tAddr' \in [Thread -> Addr \cup {NULL}]
  BY <1>1, <1>6, Called DEF Return, Labels
<1>9. TypeOK'
  BY <1>1, <1>5, <1>6, <1>7, <1>8 DEF TypeOK, Labels, Objects
<1>10. UNCHANGED <<inUse, status, arg, names, handle, asserts>>
  BY <1>6
<1>11. Others(t)
  BY <1>8, <1>10 DEF Others
<1>12. ~Private(t) /\ ~Private(t)' /\ \A c \in Addr : ~Created(t, c)
  <2>1. ~Private(t)
    BY <1>1, <1>2 DEF Private, Creating, Finalizing, Object
  <2>2. ~Private(t)'
    BY <1>8 DEF Private, Creating, Finalizing
  <2> QED BY <2>1, <2>2, <1>1, <1>2, HandleIs
<1>13. \A u \in Thread : u # t =>
         /\ \A c \in Addr : Owner(u, c)' <=> Owner(u, c)
         /\ tAddr[u] \in Addr => (Private(u)' <=> Private(u))
         /\ Finalizing(u)' <=> Finalizing(u)
         /\ tAddr[u] \in Addr => Object(u)' = Object(u)
  <2> SUFFICES ASSUME NEW u \in Thread, u # t
               PROVE  /\ \A c \in Addr : Owner(u, c)' <=> Owner(u, c)
                      /\ tAddr[u] \in Addr => (Private(u)' <=> Private(u))
                      /\ Finalizing(u)' <=> Finalizing(u)
                      /\ tAddr[u] \in Addr => Object(u)' = Object(u)
    OBVIOUS
  <2>1. tAddr[u] \in Addr => obj'[procOf[u]][tAddr[u]] = obj[procOf[u]][tAddr[u]]
    BY <1>2, <1>7 DEF OtherObjects
  <2> QED BY <2>1, <1>1, <1>8, <1>11, OwnerOthers DEF Object
<1>14. \A u \in Thread, c \in Addr : (Owner(u, c)' <=> Owner(u, c)) /\ (Created(u, c)' <=> Created(u, c))
  <2>1. \A u \in Thread, c \in Addr : Created(u, c)' <=> Created(u, c)
    BY <1>10 DEF Created
  <2>2. \A c \in Addr : ~Owner(t, c)' /\ ~Owner(t, c)
    BY <1>12, <2>1 DEF Owner
  <2> QED BY <2>1, <2>2, <1>13
<1>15. \A u \in Thread : Owner(u, a) => procOf[u] # p
  BY <1>1, <1>2 DEF OwnerInv
<1>16. ThreadInv'
  BY <1>1, <1>2, <1>8, <1>10 DEF ThreadInv
<1>17. OwnerInv'
  <2> SUFFICES ASSUME NEW c \in Addr, NEW u \in Thread, Owner(u, c)
               PROVE  /\ status[c] # "free"
                      /\ \A v \in Thread : Owner(v, c) => u = v
                      /\ \A q \in Proc : obj'[q][c].objType = "create" <=> q = procOf[u]
    BY <1>10, <1>14 DEF OwnerInv
  <2>1. /\ status[c] # "free"
        /\ \A v \in Thread : Owner(v, c) => u = v
        /\ \A q \in Proc : obj[q][c].objType = "create" <=> q = procOf[u]
    BY <1>1 DEF OwnerInv
  <2>2. \A q \in Proc : obj'[q][c].objType = "create" <=> obj[q][c].objType = "create"
    BY <1>2, <1>7, NoObjectIs DEF OtherObjects
  <2> QED BY <2>1, <2>2
<1>18. VacantInv'
  <2> SUFFICES ASSUME NEW c \in Addr, \A u \in Thread : ~Owner(u, c)
               PROVE  /\ status[c] = "free" /\ c \notin names
                      /\ \A q \in Proc : obj'[q][c] = NoObject
                      /\ \A u \in Thread : tAddr'[u] # c /\ handle[u].gate # c
    BY <1>10, <1>14 DEF VacantInv
  <2>1. VacantInv
    BY DEF IInv
  <2>2. /\ status[c] = "free" /\ c \notin names
        /\ \A q \in Proc : obj[q][c] = NoObject
        /\ \A u \in Thread : tAddr[u] # c /\ handle[u].gate # c
    BY <2>1 DEF VacantInv
  <2> QED BY <2>2, <1>7, <1>8 DEF OtherObjects
<1>19. PrivateInv'
  <2> SUFFICES ASSUME NEW u \in Thread, Private(u)'
               PROVE  /\ tAddr'[u] \notin names
                      /\ Object(u)'.numOpens = 0
                      /\ \A v \in Thread : v # u => tAddr'[v] # tAddr'[u] /\ handle[v].gate # tAddr'[u]
                      /\ \A q \in Proc : q # procOf[u] => obj'[q][tAddr'[u]] = NoObject
    BY <1>10 DEF PrivateInv
  <2>1. u # t
    BY <1>12
  <2>2. tAddr'[u] = tAddr[u]
    BY <2>1, <1>8
  <2>3. tAddr[u] \in Addr
    BY <2>1, <1>8, HandleTypes, <1>1 DEF ThreadInv, Private, Creating, Finalizing
  <2>4. Private(u) /\ Object(u)' = Object(u)
    BY <2>1, <2>3, <1>13
  <2>5. /\ tAddr[u] \notin names
        /\ Object(u).numOpens = 0
        /\ \A v \in Thread : v # u => tAddr[v] # tAddr[u] /\ handle[v].gate # tAddr[u]
        /\ \A q \in Proc : q # procOf[u] => obj[q][tAddr[u]] = NoObject
    BY <2>4 DEF PrivateInv, IInv
  <2> QED BY <2>1, <2>2, <2>3, <2>4, <2>5, <1>7, <1>8 DEF OtherObjects
<1>20. CreatedInv'
  <2> SUFFICES ASSUME NEW u \in Thread, NEW c \in Addr
               PROVE  /\ Created(u, c) => c \in names
                      /\ Created(u, c) \/ (tAddr'[u] = c /\ Creating(u)') => obj'[procOf[u]][c].attrs = c
                      /\ Created(u, c) \/ (tAddr'[u] = c /\ pc'[u] = "name") =>
                           status[c] = "CREATED" /\ arg[c] = obj'[procOf[u]][c].resourceId
    BY <1>10, <1>14 DEF CreatedInv
  <2>1. CreatedInv
    BY DEF IInv
  <2>2. CASE u = t
    BY <2>2, <1>8, <1>12 DEF Creating
  <2>3. CASE u # t
    <3>1. Created(u, c) \/ (tAddr[u] = c /\ Creating(u)) => Owner(u, c)
      BY DEF Owner, Private
    <3>2. Owner(u, c) => obj'[procOf[u]][c] = obj[procOf[u]][c]
      BY <1>7, <1>15 DEF OtherObjects
    <3>3. pc[u] = "name" => Creating(u)
      BY DEF Creating
    <3>4. pc'[u] = pc[u] /\ tAddr'[u] = tAddr[u] /\ (Creating(u)' <=> Creating(u))
      BY <2>3, <1>8 DEF Creating
    <3> QED BY <2>1, <3>1, <3>2, <3>3, <3>4 DEF CreatedInv
  <2> QED BY <2>2, <2>3
<1>21. OpeningInv'
  <2> SUFFICES ASSUME NEW u \in Thread
               PROVE  /\ handle[u].kind = "opened" => handle[u].gate \in names
                      /\ pc'[u] = "open" =>
                           /\ tAddr'[u] \in names
                           /\ tAddr'[u] \in LocalAddr => Object(u)'.objType = "create"
                      /\ Finalizing(u)' =>
                           /\ Object(u)'.objType # "none"
                           /\ Object(u)'.numOpens = 0
                           /\ \A v \in Thread : v # u /\ procOf[v] = procOf[u] => tAddr'[v] # tAddr'[u]
    BY <1>10 DEF OpeningInv
  <2>1. OpeningInv
    BY DEF IInv
  <2>2. CASE u = t
    BY <2>1, <2>2, <1>8 DEF OpeningInv, Finalizing
  <2>3. CASE u # t
    <3>1. /\ pc[u] # "idle" => tAddr[u] \in Addr
          /\ Finalizing(u) => pc[u] # "idle"
      BY HandleTypes, <1>1 DEF ThreadInv, Finalizing
    <3>2. pc'[u] = pc[u] /\ tAddr'[u] = tAddr[u] /\ (Finalizing(u)' <=> Finalizing(u))
      BY <2>3, <1>8, <1>13
    <3>3. pc[u] # "idle" => Object(u)' = Object(u)
      BY <2>3, <3>1, <1>13
    <3> QED BY <2>1, <2>3, <3>1, <3>2, <3>3, <1>8 DEF OpeningInv
  <2> QED BY <2>2, <2>3
<1>22. OpenObjectInv'
  <2> SUFFICES ASSUME NEW q \in Proc, NEW c \in Addr
               PROVE  /\ obj'[q][c].objType = "none" => obj'[q][c] = NoObject
                      /\ obj'[q][c].objType = "open" =>
                           /\ c \notin LocalAddr
                           /\ obj'[q][c].resourceId = arg[c]
                           /\ arg[c] \in Rid
                           /\ gates'[q][arg[c]] = c
                           /\ obj'[q][c].numOpens = 0 =>
                                \E u \in Thread : procOf[u] = q /\ tAddr'[u] = c /\ Finalizing(u)'
    BY <1>10 DEF OpenObjectInv
  <2>1. CASE q = p /\ c = a
    BY <2>1, <1>7, NoObjectIs
  <2>2. CASE ~(q = p /\ c = a)
    <3>1. /\ obj[q][c].objType = "none" => obj[q][c] = NoObject
          /\ obj[q][c].objType = "open" =>
               /\ c \notin LocalAddr
               /\ obj[q][c].resourceId = arg[c]
               /\ arg[c] \in Rid
               /\ gates[q][arg[c]] = c
               /\ obj[q][c].numOpens = 0 =>
                     \E u \in Thread : procOf[u] = q /\ tAddr[u] = c /\ Finalizing(u)
      BY DEF OpenObjectInv, IInv
    <3>2. obj'[q][c] = obj[q][c]
      BY <2>2, <1>7 DEF OtherObjects
    <3>3. \A s \in Rid : gates[q][s] = c => gates'[q][s] = c
      BY <2>2, <1>5
    <3>4. \A u \in Thread : procOf[u] = q /\ tAddr[u] = c /\ Finalizing(u) => tAddr'[u] = c /\ Finalizing(u)'
      <4> SUFFICES ASSUME NEW u \in Thread, procOf[u] = q, tAddr[u] = c, Finalizing(u)
                   PROVE  tAddr'[u] = c /\ Finalizing(u)'
        OBVIOUS
      <4>1. u # t
        BY <2>2
      <4> QED BY <4>1, <1>8, <1>13
    <3> QED BY <3>1, <3>2, <3>3, <3>4
  <2> QED BY <2>1, <2>2
<1>23. ResourceInv'
  <2> SUFFICES ASSUME NEW u \in Thread, NEW c \in Addr
               PROVE  LET r == obj'[procOf[u]][c].resourceId IN
                      /\ Owner(u, c) /\ c \in LocalAddr => r = NULL
                      /\ tAddr'[u] = c =>
                           /\ pc'[u] \in {"getResource", "publish"} => c \notin LocalAddr
                           /\ pc'[u] = "getResource" => r = NULL
                           /\ pc'[u] = "publish" => r \in Rid
                           /\ pc'[u] = "freeResource" /\ r # NULL => gates'[procOf[u]][r] # c
                      /\ c \notin LocalAddr /\ (Created(u, c) \/ (tAddr'[u] = c /\ pc'[u] \in {"fill", "name"})) =>
                           r \in Rid /\ gates'[procOf[u]][r] = c
    BY <1>14 DEF ResourceInv
  <2>1. CASE ~(procOf[u] = p /\ c = a)
    <3> DEFINE r == obj[procOf[u]][c].resourceId
    <3>1. /\ Owner(u, c) /\ c \in LocalAddr => r = NULL
          /\ tAddr[u] = c =>
               /\ pc[u] \in {"getResource", "publish"} => c \notin LocalAddr
               /\ pc[u] = "getResource" => r = NULL
               /\ pc[u] = "publish" => r \in Rid
               /\ pc[u] = "freeResource" /\ r # NULL => gates[procOf[u]][r] # c
          /\ c \notin LocalAddr /\ (Created(u, c) \/ (tAddr[u] = c /\ pc[u] \in {"fill", "name"})) =>
               r \in Rid /\ gates[procOf[u]][r] = c
      BY DEF ResourceInv, IInv
    <3>2. obj'[procOf[u]][c] = obj[procOf[u]][c]
      BY <2>1, <1>7 DEF OtherObjects
    <3>3. tAddr'[u] = c => tAddr[u] = c /\ pc'[u] = pc[u]
      BY <1>8
    <3>4. r \in Rid => (gates'[procOf[u]][r] = c <=> gates[procOf[u]][r] = c)
      <4> SUFFICES ASSUME NEW s \in Rid
                   PROVE  gates'[procOf[u]][s] = c <=> gates[procOf[u]][s] = c
        OBVIOUS
      <4> QED BY <2>1, <1>5
    <3>5. r \in Rid \cup {NULL}
      BY <1>1, ObjectTypes
    <3> HIDE DEF r
    <3>6. obj'[procOf[u]][c].resourceId = r
      BY <3>2 DEF r
    <3> QED BY ONLY <3>1, <3>3, <3>4, <3>5, <3>6
  <2>2. CASE procOf[u] = p /\ c = a
    <3>1. ~Owner(u, c) /\ ~Created(u, c)
      BY <2>2, <1>15 DEF Owner
    <3>2. tAddr'[u] # c
      BY <2>2, <1>2, <1>8
    <3> QED BY <3>1, <3>2
  <2> QED BY <2>1, <2>2
<1>24. UsedInv'
  <2>1. \A q \in Proc, c \in Addr, s \in Rid : Holds(q, c, s)' <=> Holds(q, c, s)
    BY <1>2, <1>7, NoObjectIs DEF Holds, OtherObjects
  <2> QED BY <1>10, <2>1 DEF UsedInv, IInv
<1>25. TableInv'
  <2> SUFFICES ASSUME NEW q \in Proc, NEW s \in Rid, gates'[q][s] # NULL
               PROVE  /\ obj'[q][gates'[q][s]].objType # "none"
                      /\ obj'[q][gates'[q][s]].resourceId = s
    BY DEF TableInv
  <2>1. gates'[q][s] = gates[q][s] /\ gates[q][s] \in Addr
    BY <1>1, <1>5, TableTypes
  <2>2. obj[q][gates[q][s]].objType # "none" /\ obj[q][gates[q][s]].resourceId = s
    BY <2>1 DEF TableInv, IInv
  <2>3. ~(q = p /\ gates[q][s] = a)
    BY <2>1, <1>5
  <2> QED BY <2>1, <2>2, <2>3, <1>7 DEF OtherObjects
<1>26. OpensCounted'
  <2>1. \A q, c : Users(q, c)' = Users(q, c)
    BY <1>10 DEF Users, Opened
  <2> SUFFICES ASSUME NEW q \in Proc, NEW c \in Addr
               PROVE  /\ obj'[q][c].numOpens = Cardinality(Users(q, c))
                      /\ Users(q, c) # {} /\ c \notin LocalAddr => gates'[q][obj'[q][c].resourceId] = c
    BY <2>1 DEF OpensCounted
  <2>2. /\ obj[q][c].numOpens = Cardinality(Users(q, c))
        /\ Users(q, c) # {} /\ c \notin LocalAddr => gates[q][obj[q][c].resourceId] = c
    BY DEF OpensCounted, IInv
  <2>3. CASE q = p /\ c = a
    BY <2>2, <2>3, <1>2, <1>7, NoUsers, NoObjectIs
  <2>4. CASE ~(q = p /\ c = a)
    <3>1. obj'[q][c] = obj[q][c]
      BY <2>4, <1>7 DEF OtherObjects
    <3>2. ASSUME Users(q, c) # {}, c \notin LocalAddr
          PROVE  gates'[q][obj'[q][c].resourceId] = c
      <4>1. obj[q][c].resourceId \in Rid
        BY <3>2, UserHasRid
      <4>2. \A s \in Rid : gates[q][s] = c => gates'[q][s] = c
        BY <2>4, <1>5
      <4> QED BY <4>1, <4>2, <2>2, <3>1, <3>2
    <3> QED BY <2>2, <3>1, <3>2
  <2> QED BY <2>3, <2>4
<1> QED BY <1>9, <1>10, <1>16, <1>17, <1>18, <1>19, <1>20, <1>21, <1>22, <1>23, <1>24, <1>25, <1>26 DEF NoInvalidDelete, IInv

LEMMA deleteProxyKeeps ==
  ASSUME IInv, NEW t \in Thread, deleteProxy(t)
  PROVE  IInv'
BY deleteProxyCreated, deleteProxyOpened

-----------------------------------------------------------------------------
\* The resource id and the memory of the attrs are free again.
LEMMA freeResourceKeeps ==
  ASSUME IInv, NEW t \in Thread, freeResource(t)
  PROVE  IInv'
<1> USE Procs, Constants
<1> DEFINE p == procOf[t]
<1>1. TypeOK /\ ThreadInv /\ pc[t] = "freeResource" /\ Private(t)
  BY DEF IInv, freeResource, Private
<1> PICK a \in Addr : tAddr[t] = a
  BY <1>1, PrivateIs
<1>2. /\ a \notin names /\ Owner(t, a) /\ handle[t] = NoHandle
      /\ obj[p][a].objType = "create" /\ obj[p][a].numOpens = 0
      /\ obj[p][a].resourceId \in Rid \cup {NULL}
  BY <1>1, PrivateIs
<1>3. /\ \A u \in Thread : u # t => tAddr[u] # a /\ handle[u].gate # a
      /\ \A q \in Proc : q # p => obj[q][a] = NoObject
  BY <1>1 DEF PrivateInv, IInv
<1>4. handle[t].gate # a /\ \A c \in Addr : ~Created(t, c) /\ (Owner(t, c) => c = a)
  BY <1>1, <1>2, HandleIs DEF NoHandle, Owner
<1>5. /\ inUse' = (IF obj[p][a].resourceId # NULL
                   THEN [inUse EXCEPT ![obj[p][a].resourceId] = "UNUSED"] ELSE inUse)
      /\ status' = [status EXCEPT ![a] = "free"]
      /\ obj' = [obj EXCEPT ![p][a] = NoObject] /\ Return(t)
      /\ UNCHANGED <<arg, names, gates, handle, asserts>>
  BY DEF freeResource, Object
<1>6. obj' \in [Proc -> [Addr -> Objects]] /\ OtherObjects(p, a) /\ obj'[p][a] = NoObject
  <2>1. obj \in [Proc -> [Addr -> Objects]]
    BY <1>1 DEF TypeOK, Objects
  <2>2. p \in Proc
    OBVIOUS
  <2> QED BY ONLY <2>1, <2>2, <1>5, a \in Addr, NoObjectIs DEF OtherObjects
<1>7. \A q \in Proc : obj'[q][a] = NoObject
  BY <1>3, <1>6 DEF OtherObjects
<1>8. /\ pc'[t] = "idle" /\ \A u \in Thread : u # t => pc'[u] = pc[u]
      /\ tAddr'[t] = NULL /\ \A u \in Thread : u # t => tAddr'[u] = tAddr[u]
      /\ pc' \in [Thread -> Labels] /\ tAddr' \in [Thread -> Addr \cup {NULL}]
  BY <1>1, <1>5, Called DEF Return, Labels
<1>9. /\ inUse' \in [Rid -> {"USED", "UNUSED"}] /\ status' \in [Addr -> {"free", "0", "CREATED"}]
      /\ status'[a] = "free" /\ \A c \in Addr : c # a => status'[c] = status[c]
      /\ \A s \in Rid : inUse'[s] = IF s = obj[p][a].resourceId THEN "UNUSED" ELSE inUse[s]
  <2>1. inUse \in [Rid -> {"USED", "UNUSED"}] /\ status \in [Addr -> {"free", "0", "CREATED"}]
    BY <1>1 DEF TypeOK
  <2>2. /\ status' \in [Addr -> {"free", "0", "CREATED"}]
        /\ status'[a] = "free" /\ \A c \in Addr : c # a => status'[c] = status[c]
    BY <2>1, <1>5
  <2>3. CASE obj[p][a].resourceId = NULL
    <3>1. inUse' = inUse
      BY <2>3, <1>5
    <3> QED BY <2>1, <2>2, <2>3, <3>1
  <2>4. CASE obj[p][a].resourceId # NULL
    <3> PICK r \in Rid : obj[p][a].resourceId = r
      BY <2>4, <1>2
    <3>1. inUse' = [inUse EXCEPT ![r] = "UNUSED"]
      BY <2>4, <1>5
    <3> QED BY <2>1, <2>2, <3>1
  <2> QED BY <2>3, <2>4
<1>10. UNCHANGED <<arg, names, gates, handle, asserts>>
  BY <1>5
<1>11. TypeOK'
  BY <1>1, <1>6, <1>8, <1>9, <1>10 DEF TypeOK, Labels, Objects
<1>12. Others(t)
  BY <1>8, <1>10 DEF Others
<1>13. ~Private(t)'
  BY <1>8 DEF Private, Creating, Finalizing
<1>14. \A u \in Thread : u # t =>
         /\ \A c \in Addr : Owner(u, c)' <=> Owner(u, c)
         /\ tAddr[u] \in Addr => (Private(u)' <=> Private(u))
         /\ Finalizing(u)' <=> Finalizing(u)
         /\ tAddr[u] \in Addr => Object(u)' = Object(u)
  <2> SUFFICES ASSUME NEW u \in Thread, u # t
               PROVE  /\ \A c \in Addr : Owner(u, c)' <=> Owner(u, c)
                      /\ tAddr[u] \in Addr => (Private(u)' <=> Private(u))
                      /\ Finalizing(u)' <=> Finalizing(u)
                      /\ tAddr[u] \in Addr => Object(u)' = Object(u)
    OBVIOUS
  <2>1. tAddr[u] \in Addr => obj'[procOf[u]][tAddr[u]] = obj[procOf[u]][tAddr[u]]
    BY <1>3, <1>6 DEF OtherObjects
  <2> QED BY <2>1, <1>1, <1>8, <1>12, OwnerOthers DEF Object
<1>15. \A u \in Thread, c \in Addr :
         /\ Owner(u, c)' <=> (Owner(u, c) /\ c # a)
         /\ Created(u, c)' <=> Created(u, c)
  <2>1. \A u \in Thread, c \in Addr : Created(u, c)' <=> Created(u, c)
    BY <1>10 DEF Created
  <2>2. \A c \in Addr : ~Owner(t, c)'
    BY <1>4, <1>13, <2>1 DEF Owner
  <2>3. \A u \in Thread : Owner(u, a) => u = t
    BY <1>2 DEF OwnerInv, IInv
  <2> QED BY <2>1, <2>2, <2>3, <1>4, <1>14
<1>16. ThreadInv'
  BY <1>1, <1>2, <1>8, <1>10 DEF ThreadInv
<1>17. OwnerInv'
  <2> SUFFICES ASSUME NEW c \in Addr, NEW u \in Thread, Owner(u, c), c # a
               PROVE  /\ status'[c] # "free"
                      /\ \A v \in Thread : Owner(v, c) => u = v
                      /\ \A q \in Proc : obj'[q][c].objType = "create" <=> q = procOf[u]
    BY <1>15 DEF OwnerInv
  <2> QED BY <1>6, <1>9 DEF OwnerInv, IInv, OtherObjects
<1>18. VacantInv'
  <2> SUFFICES ASSUME NEW c \in Addr, \A u \in Thread : ~Owner(u, c)'
               PROVE  /\ status'[c] = "free" /\ c \notin names
                      /\ \A q \in Proc : obj'[q][c] = NoObject
                      /\ \A u \in Thread : tAddr'[u] # c /\ handle[u].gate # c
    BY <1>10 DEF VacantInv
  <2>1. CASE c = a
    BY <2>1, <1>2, <1>3, <1>4, <1>7, <1>8, <1>9
  <2>2. CASE c # a
    <3>1. VacantInv /\ \A u \in Thread : ~Owner(u, c)
      BY <2>2, <1>15 DEF IInv
    <3>2. /\ status[c] = "free" /\ c \notin names
          /\ \A q \in Proc : obj[q][c] = NoObject
          /\ \A u \in Thread : tAddr[u] # c /\ handle[u].gate # c
      BY <3>1 DEF VacantInv
    <3>3. \A q \in Proc : obj'[q][c] = NoObject
      BY <3>2, <2>2, <1>6 DEF OtherObjects
    <3>4. \A u \in Thread : tAddr'[u] # c
      BY <3>2, <1>8
    <3> QED BY <3>2, <3>3, <3>4, <2>2, <1>9
  <2> QED BY <2>1, <2>2
<1>19. PrivateInv'
  <2> SUFFICES ASSUME NEW u \in Thread, Private(u)'
               PROVE  /\ tAddr'[u] \notin names
                      /\ Object(u)'.numOpens = 0
                      /\ \A v \in Thread : v # u => tAddr'[v] # tAddr'[u] /\ handle[v].gate # tAddr'[u]
                      /\ \A q \in Proc : q # procOf[u] => obj'[q][tAddr'[u]] = NoObject
    BY <1>10 DEF PrivateInv
  <2>1. u # t
    BY <1>13
  <2>2. tAddr'[u] = tAddr[u]
    BY <2>1, <1>8
  <2>3. tAddr[u] \in Addr
    BY <2>1, <1>8, HandleTypes, <1>1 DEF ThreadInv, Private, Creating, Finalizing
  <2>4. Private(u) /\ Object(u)' = Object(u)
    BY <2>1, <2>3, <1>14
  <2>5. /\ tAddr[u] \notin names
        /\ Object(u).numOpens = 0
        /\ \A v \in Thread : v # u => tAddr[v] # tAddr[u] /\ handle[v].gate # tAddr[u]
        /\ \A q \in Proc : q # procOf[u] => obj[q][tAddr[u]] = NoObject
    BY <2>4 DEF PrivateInv, IInv
  <2> QED BY <2>1, <2>2, <2>3, <2>4, <2>5, <1>6, <1>8 DEF OtherObjects
<1>20. CreatedInv'
  <2> SUFFICES ASSUME NEW u \in Thread, NEW c \in Addr
               PROVE  /\ Created(u, c) => c \in names
                      /\ Created(u, c) \/ (tAddr'[u] = c /\ Creating(u)') => obj'[procOf[u]][c].attrs = c
                      /\ Created(u, c) \/ (tAddr'[u] = c /\ pc'[u] = "name") =>
                           status'[c] = "CREATED" /\ arg[c] = obj'[procOf[u]][c].resourceId
    BY <1>10, <1>15 DEF CreatedInv
  <2>1. CreatedInv
    BY DEF IInv
  <2>2. CASE u = t
    BY <2>2, <1>4, <1>8 DEF Creating
  <2>3. CASE u # t /\ c = a
    <3>1. ~Created(u, c) /\ tAddr'[u] # c
      BY <2>1, <2>3, <1>2, <1>3, <1>8 DEF CreatedInv
    <3> QED BY <3>1
  <2>4. CASE u # t /\ c # a
    <3>1. pc'[u] = pc[u] /\ tAddr'[u] = tAddr[u] /\ (Creating(u)' <=> Creating(u))
      BY <2>4, <1>8 DEF Creating
    <3> QED BY <2>1, <2>4, <3>1, <1>6, <1>9 DEF CreatedInv, OtherObjects
  <2> QED BY <2>2, <2>3, <2>4
<1>21. OpeningInv'
  <2> SUFFICES ASSUME NEW u \in Thread
               PROVE  /\ handle[u].kind = "opened" => handle[u].gate \in names
                      /\ pc'[u] = "open" =>
                           /\ tAddr'[u] \in names
                           /\ tAddr'[u] \in LocalAddr => Object(u)'.objType = "create"
                      /\ Finalizing(u)' =>
                           /\ Object(u)'.objType # "none"
                           /\ Object(u)'.numOpens = 0
                           /\ \A v \in Thread : v # u /\ procOf[v] = procOf[u] => tAddr'[v] # tAddr'[u]
    BY <1>10 DEF OpeningInv
  <2>1. OpeningInv
    BY DEF IInv
  <2>2. CASE u = t
    BY <2>1, <2>2, <1>8 DEF OpeningInv, Finalizing
  <2>3. CASE u # t
    <3>1. /\ pc[u] # "idle" => tAddr[u] \in Addr
          /\ Finalizing(u) => pc[u] # "idle"
      BY HandleTypes, <1>1 DEF ThreadInv, Finalizing
    <3>2. pc'[u] = pc[u] /\ tAddr'[u] = tAddr[u] /\ (Finalizing(u)' <=> Finalizing(u))
      BY <2>3, <1>8, <1>14
    <3>3. pc[u] # "idle" => Object(u)' = Object(u)
      BY <2>3, <3>1, <1>14
    <3> QED BY <2>1, <2>3, <3>1, <3>2, <3>3, <1>8 DEF OpeningInv
  <2> QED BY <2>2, <2>3
<1>22. OpenObjectInv'
  <2> SUFFICES ASSUME NEW q \in Proc, NEW c \in Addr
               PROVE  /\ obj'[q][c].objType = "none" => obj'[q][c] = NoObject
                      /\ obj'[q][c].objType = "open" =>
                           /\ c \notin LocalAddr
                           /\ obj'[q][c].resourceId = arg[c]
                           /\ arg[c] \in Rid
                           /\ gates[q][arg[c]] = c
                           /\ obj'[q][c].numOpens = 0 =>
                                \E u \in Thread : procOf[u] = q /\ tAddr'[u] = c /\ Finalizing(u)'
    BY <1>10 DEF OpenObjectInv
  <2>1. CASE c = a
    BY <2>1, <1>7, NoObjectIs
  <2>2. CASE c # a
    <3>1. /\ obj[q][c].objType = "none" => obj[q][c] = NoObject
          /\ obj[q][c].objType = "open" =>
               /\ c \notin LocalAddr
               /\ obj[q][c].resourceId = arg[c]
               /\ arg[c] \in Rid
               /\ gates[q][arg[c]] = c
               /\ obj[q][c].numOpens = 0 =>
                     \E u \in Thread : procOf[u] = q /\ tAddr[u] = c /\ Finalizing(u)
      BY DEF OpenObjectInv, IInv
    <3>2. obj'[q][c] = obj[q][c]
      BY <2>2, <1>6 DEF OtherObjects
    <3>3. \A u \in Thread : tAddr[u] = c /\ Finalizing(u) => tAddr'[u] = c /\ Finalizing(u)'
      BY <2>2, <1>8, <1>14
    <3> QED BY <3>1, <3>2, <3>3
  <2> QED BY <2>1, <2>2
<1>23. ResourceInv'
  <2> SUFFICES ASSUME NEW u \in Thread, NEW c \in Addr
               PROVE  LET r == obj'[procOf[u]][c].resourceId IN
                      /\ Owner(u, c)' /\ c \in LocalAddr => r = NULL
                      /\ tAddr'[u] = c =>
                           /\ pc'[u] \in {"getResource", "publish"} => c \notin LocalAddr
                           /\ pc'[u] = "getResource" => r = NULL
                           /\ pc'[u] = "publish" => r \in Rid
                           /\ pc'[u] = "freeResource" /\ r # NULL => gates[procOf[u]][r] # c
                      /\ c \notin LocalAddr /\ (Created(u, c) \/ (tAddr'[u] = c /\ pc'[u] \in {"fill", "name"})) =>
                           r \in Rid /\ gates[procOf[u]][r] = c
    BY <1>10, <1>15 DEF ResourceInv
  <2>1. CASE c # a
    <3>1. obj'[procOf[u]][c] = obj[procOf[u]][c]
      BY <2>1, <1>6 DEF OtherObjects
    <3>2. tAddr'[u] = c => tAddr[u] = c /\ pc'[u] = pc[u]
      BY <1>8
    <3>3. Owner(u, c)' <=> Owner(u, c)
      BY <2>1, <1>15
    <3>4. ResourceInv
      BY DEF IInv
    <3> QED BY <3>1, <3>2, <3>3, <3>4 DEF ResourceInv
  <2>2. CASE c = a
    <3>1. ~Owner(u, c)' /\ ~Created(u, c)
      BY <2>2, <1>2, <1>15 DEF CreatedInv, IInv
    <3>2. tAddr'[u] # c
      BY <2>2, <1>3, <1>8
    <3> QED BY <3>1, <3>2
  <2> QED BY <2>1, <2>2
<1>24. \A q \in Proc, c \in Addr, s \in Rid : Holds(q, c, s)' <=> (Holds(q, c, s) /\ c # a)
  BY <1>6, <1>7, NoObjectIs DEF Holds, OtherObjects
<1>25. UsedInv'
  <2> SUFFICES ASSUME NEW s \in Rid
               PROVE  /\ inUse'[s] = "USED" <=> \E q \in Proc, c \in Addr : Holds(q, c, s)'
                      /\ \A q, x \in Proc, c, d \in Addr : Holds(q, c, s)' /\ Holds(x, d, s)' => q = x /\ c = d
    BY DEF UsedInv
  <2>1. /\ inUse[s] = "USED" <=> \E q \in Proc, c \in Addr : Holds(q, c, s)
        /\ \A q, x \in Proc, c, d \in Addr : Holds(q, c, s) /\ Holds(x, d, s) => q = x /\ c = d
    BY DEF UsedInv, IInv
  <2>2. CASE s = obj[p][a].resourceId
    <3>1. Holds(p, a, s)
      BY <2>2, <1>2 DEF Holds
    <3>2. \A q \in Proc, c \in Addr : ~Holds(q, c, s)'
      BY <2>1, <3>1, <1>24
    <3> QED BY <2>2, <3>2, <1>9
  <2>3. CASE s # obj[p][a].resourceId
    <3>1. \A q \in Proc : ~Holds(q, a, s)
      BY <2>3, <1>3, NoObjectIs DEF Holds
    <3>2. \A q \in Proc, c \in Addr : Holds(q, c, s)' <=> Holds(q, c, s)
      BY <3>1, <1>24
    <3> QED BY <2>1, <2>3, <3>2, <1>9
  <2> QED BY <2>2, <2>3
<1>26. \A q \in Proc, s \in Rid : gates[q][s] # a
  <2> SUFFICES ASSUME NEW q \in Proc, NEW s \in Rid, gates[q][s] = a
               PROVE  FALSE
    OBVIOUS
  <2>1. obj[q][a].objType # "none" /\ obj[q][a].resourceId = s
    BY DEF TableInv, IInv
  <2>2. q = p
    BY <2>1, <1>3, NoObjectIs
  <2>3. obj[p][a].resourceId # NULL => gates[p][obj[p][a].resourceId] # a
    BY <1>1 DEF ResourceInv, IInv
  <2> QED BY <2>1, <2>2, <2>3
<1>27. TableInv'
  <2> SUFFICES ASSUME NEW q \in Proc, NEW s \in Rid, gates[q][s] # NULL
               PROVE  /\ obj'[q][gates[q][s]].objType # "none"
                      /\ obj'[q][gates[q][s]].resourceId = s
    BY <1>10 DEF TableInv
  <2>1. gates[q][s] \in Addr
    BY <1>1, TableTypes
  <2>2. obj[q][gates[q][s]].objType # "none" /\ obj[q][gates[q][s]].resourceId = s
    BY DEF TableInv, IInv
  <2> QED BY <2>1, <2>2, <1>6, <1>26 DEF OtherObjects
<1>28. OpensCounted'
  <2>1. \A q, c : Users(q, c)' = Users(q, c)
    BY <1>10 DEF Users, Opened
  <2> SUFFICES ASSUME NEW q \in Proc, NEW c \in Addr
               PROVE  /\ obj'[q][c].numOpens = Cardinality(Users(q, c))
                      /\ Users(q, c) # {} /\ c \notin LocalAddr => gates[q][obj'[q][c].resourceId] = c
    BY <1>10, <2>1 DEF OpensCounted
  <2>2. /\ obj[q][c].numOpens = Cardinality(Users(q, c))
        /\ Users(q, c) # {} /\ c \notin LocalAddr => gates[q][obj[q][c].resourceId] = c
    BY DEF OpensCounted, IInv
  <2>3. CASE c = a
    <3>1. obj[q][c].numOpens = 0 /\ obj'[q][c].numOpens = 0
      BY <2>3, <1>2, <1>3, <1>7, NoObjectIs
    <3> QED BY <2>2, <3>1, NoUsers
  <2>4. CASE c # a
    BY <2>2, <2>4, <1>6 DEF OtherObjects
  <2> QED BY <2>3, <2>4
<1> QED BY <1>10, <1>11, <1>16, <1>17, <1>18, <1>19, <1>20, <1>21, <1>22, <1>23, <1>25, <1>27, <1>28 DEF NoInvalidDelete, IInv

-----------------------------------------------------------------------------
\* GateMP_openByAddr: the object is counted once more, or made and entered.
LEMMA OpenedStep ==
  ASSUME IInv, NEW t \in Thread, NEW a \in Addr, NEW o \in Objects,
         pc[t] = "open", tAddr[t] = a,
         a \in LocalAddr => obj[procOf[t]][a].objType # "none",
         a \notin LocalAddr => arg[a] \in Rid,
         o.numOpens = obj[procOf[t]][a].numOpens + 1,
         o.resourceId = arg[a],
         \/ /\ obj[procOf[t]][a].objType # "none" /\ o.objType = obj[procOf[t]][a].objType
            /\ o.attrs = obj[procOf[t]][a].attrs
         \/ obj[procOf[t]][a].objType = "none" /\ o.objType = "open",
         obj' = [obj EXCEPT ![procOf[t]][a] = o],
         gates' \in [Proc -> [Rid -> Addr \cup {NULL}]],
         a \notin LocalAddr => gates'[procOf[t]][arg[a]] = a,
         \A q \in Proc, s \in Rid : \/ gates'[q][s] = gates[q][s]
                                    \/ q = procOf[t] /\ s = arg[a] /\ gates[q][s] = NULL,
         handle' = [handle EXCEPT ![t] = [kind |-> "opened", gate |-> a]],
         Return(t),
         UNCHANGED <<inUse, status, arg, names, asserts>>
  PROVE  IInv'
<1> USE Procs, Constants
<1> DEFINE p == procOf[t]
<1>1. TypeOK /\ ThreadInv /\ OpeningInv /\ OwnerInv
  BY DEF IInv
<1>2. a \in names /\ handle[t] = NoHandle
  BY <1>1 DEF OpeningInv, ThreadInv
<1>3. \A u \in Thread : Private(u) => tAddr[u] # a
  BY <1>2 DEF PrivateInv, IInv
<1>4. \A u \in Thread : procOf[u] = p /\ tAddr[u] = a => ~Finalizing(u)
  <2>1. ~Finalizing(t)
    BY DEF Finalizing
  <2> QED BY <1>1, <2>1 DEF OpeningInv
<1>5. /\ o.objType # "none"
      /\ o.objType = "create" <=> obj[p][a].objType = "create"
      /\ obj[p][a].objType # "none" => o.attrs = obj[p][a].attrs /\ o.resourceId = obj[p][a].resourceId
  BY <1>2, ObjectOfCreated
<1>6. obj' \in [Proc -> [Addr -> Objects]] /\ OtherObjects(p, a) /\ obj'[p][a] = o
  <2>1. obj \in [Proc -> [Addr -> Objects]]
    BY <1>1 DEF TypeOK, Objects
  <2>2. p \in Proc /\ o \in Objects /\ obj' = [obj EXCEPT ![p][a] = o]
    OBVIOUS
  <2> QED BY ONLY <2>1, <2>2, a \in Addr DEF OtherObjects
<1>7. /\ pc'[t] = "idle" /\ \A u \in Thread : u # t => pc'[u] = pc[u]
      /\ tAddr'[t] = NULL /\ \A u \in Thread : u # t => tAddr'[u] = tAddr[u]
      /\ pc' \in [Thread -> Labels] /\ tAddr' \in [Thread -> Addr \cup {NULL}]
  BY <1>1, Called DEF Return, Labels
<1>8. /\ handle'[t] = [kind |-> "opened", gate |-> a]
      /\ \A u \in Thread : u # t => handle'[u] = handle[u]
      /\ handle' \in [Thread -> Handles]
  <2>1. [kind |-> "opened", gate |-> a] \in Handles
    BY DEF Handles
  <2> QED BY <1>1, <2>1, HandleSet
<1>9. UNCHANGED <<inUse, status, arg, names, asserts>>
  OBVIOUS
<1>10. TypeOK'
  BY <1>1, <1>6, <1>7, <1>8, <1>9, TypesAre, ZenonT(40)
<1>11. Others(t)
  BY <1>7, <1>8 DEF Others
<1>12. /\ ~Private(t) /\ ~Private(t)'
       /\ \A c \in Addr : ~Created(t, c) /\ ~Created(t, c)' /\ ~Opened(t, c) /\ (Opened(t, c)' <=> c = a)
  <2>1. ~Private(t)
    BY DEF Private, Creating, Finalizing
  <2>2. ~Private(t)'
    BY <1>7 DEF Private, Creating, Finalizing
  <2>3. \A c \in Addr : ~Created(t, c)' /\ (Opened(t, c)' <=> c = a)
    BY <1>8 DEF Created, Opened
  <2>4. \A c \in Addr : ~Created(t, c) /\ ~Opened(t, c)
    BY <1>1, <1>2, HandleIs
  <2> QED BY <2>1, <2>2, <2>3, <2>4
<1>13. \A u \in Thread : u # t =>
         /\ \A c \in Addr : Owner(u, c)' <=> Owner(u, c)
         /\ \A c \in Addr : Created(u, c)' <=> Created(u, c)
         /\ \A c \in Addr : Opened(u, c)' <=> Opened(u, c)
         /\ tAddr[u] \in Addr => (Private(u)' <=> Private(u))
         /\ Finalizing(u)' <=> Finalizing(u)
         /\ tAddr[u] \in Addr /\ (procOf[u] # p \/ tAddr[u] # a) => Object(u)' = Object(u)
  <2> SUFFICES ASSUME NEW u \in Thread, u # t
               PROVE  /\ \A c \in Addr : Owner(u, c)' <=> Owner(u, c)
                      /\ \A c \in Addr : Created(u, c)' <=> Created(u, c)
                      /\ \A c \in Addr : Opened(u, c)' <=> Opened(u, c)
                      /\ tAddr[u] \in Addr => (Private(u)' <=> Private(u))
                      /\ Finalizing(u)' <=> Finalizing(u)
                      /\ tAddr[u] \in Addr /\ (procOf[u] # p \/ tAddr[u] # a) => Object(u)' = Object(u)
    OBVIOUS
  <2>1. tAddr[u] \in Addr /\ (procOf[u] # p \/ tAddr[u] # a) =>
          obj'[procOf[u]][tAddr[u]] = obj[procOf[u]][tAddr[u]]
    BY <1>6 DEF OtherObjects
  <2>2. tAddr[u] \in Addr => (obj'[procOf[u]][tAddr[u]].objType = "create"
                                <=> obj[procOf[u]][tAddr[u]].objType = "create")
    BY <2>1, <1>5, <1>6
  <2> QED BY <2>1, <2>2, <1>1, <1>7, <1>11, OwnerOthers DEF Object
<1>14. \A u \in Thread, c \in Addr : (Owner(u, c)' <=> Owner(u, c)) /\ (Created(u, c)' <=> Created(u, c))
  <2>1. \A c \in Addr : ~Owner(t, c) /\ ~Owner(t, c)'
    BY <1>12 DEF Owner
  <2> QED BY <2>1, <1>12, <1>13
<1>15. ThreadInv'
  BY <1>1, <1>7, <1>8 DEF ThreadInv
<1>16. OwnerInv'
  <2> SUFFICES ASSUME NEW c \in Addr, NEW u \in Thread, Owner(u, c)
               PROVE  /\ status[c] # "free"
                      /\ \A v \in Thread : Owner(v, c) => u = v
                      /\ \A q \in Proc : obj'[q][c].objType = "create" <=> q = procOf[u]
    BY <1>9, <1>14 DEF OwnerInv
  <2>1. /\ status[c] # "free"
        /\ \A v \in Thread : Owner(v, c) => u = v
        /\ \A q \in Proc : obj[q][c].objType = "create" <=> q = procOf[u]
    BY <1>1 DEF OwnerInv
  <2>2. \A q \in Proc : obj'[q][c].objType = "create" <=> obj[q][c].objType = "create"
    BY <1>5, <1>6 DEF OtherObjects
  <2> QED BY <2>1, <2>2
<1>17. VacantInv'
  <2> SUFFICES ASSUME NEW c \in Addr, \A u \in Thread : ~Owner(u, c)
               PROVE  /\ status[c] = "free" /\ c \notin names
                      /\ \A q \in Proc : obj'[q][c] = NoObject
                      /\ \A u \in Thread : tAddr'[u] # c /\ handle'[u].gate # c
    BY <1>9, <1>14 DEF VacantInv
  <2>1. VacantInv
    BY DEF IInv
  <2>2. /\ status[c] = "free" /\ c \notin names
        /\ \A q \in Proc : obj[q][c] = NoObject
        /\ \A u \in Thread : tAddr[u] # c /\ handle[u].gate # c
    BY <2>1 DEF VacantInv
  <2>3. c # a
    BY <2>2, <1>2
  <2>4. \A q \in Proc : obj'[q][c] = NoObject
    BY <2>2, <2>3, <1>6 DEF OtherObjects
  <2>5. \A u \in Thread : tAddr'[u] # c /\ handle'[u].gate # c
    BY <2>2, <2>3, <1>7, <1>8
  <2> QED BY <2>2, <2>4, <2>5
<1>18. PrivateInv'
  <2> SUFFICES ASSUME NEW u \in Thread, Private(u)'
               PROVE  /\ tAddr'[u] \notin names
                      /\ Object(u)'.numOpens = 0
                      /\ \A v \in Thread : v # u => tAddr'[v] # tAddr'[u] /\ handle'[v].gate # tAddr'[u]
                      /\ \A q \in Proc : q # procOf[u] => obj'[q][tAddr'[u]] = NoObject
    BY <1>9 DEF PrivateInv
  <2>1. u # t
    BY <1>12
  <2>2. tAddr'[u] = tAddr[u]
    BY <2>1, <1>7
  <2>3. tAddr[u] \in Addr
    BY <2>1, <1>7, HandleTypes, <1>1 DEF ThreadInv, Private, Creating, Finalizing
  <2>4. Private(u) /\ tAddr[u] # a
    BY <2>1, <2>3, <1>3, <1>13
  <2>5. Object(u)' = Object(u)
    BY <2>1, <2>3, <2>4, <1>13
  <2>6. /\ tAddr[u] \notin names
        /\ Object(u).numOpens = 0
        /\ \A v \in Thread : v # u => tAddr[v] # tAddr[u] /\ handle[v].gate # tAddr[u]
        /\ \A q \in Proc : q # procOf[u] => obj[q][tAddr[u]] = NoObject
    BY <2>4 DEF PrivateInv, IInv
  <2>7. \A q \in Proc : q # procOf[u] => obj'[q][tAddr[u]] = NoObject
    BY <2>3, <2>4, <2>6, <1>6 DEF OtherObjects
  <2>8. \A v \in Thread : v # u => tAddr'[v] # tAddr[u] /\ handle'[v].gate # tAddr[u]
    BY <2>3, <2>4, <2>6, <1>7, <1>8
  <2> QED BY <2>2, <2>5, <2>6, <2>7, <2>8
<1>19. \A q \in Proc, c \in Addr : obj[q][c].objType # "none" =>
          /\ obj'[q][c].objType = obj[q][c].objType
          /\ obj'[q][c].attrs = obj[q][c].attrs
          /\ obj'[q][c].resourceId = obj[q][c].resourceId
  BY <1>5, <1>6 DEF OtherObjects
<1>20. \A u \in Thread, c \in Addr : Owner(u, c) => obj[procOf[u]][c].objType # "none"
  BY <1>1 DEF OwnerInv
<1>21. \A u \in Thread, c \in Addr : tAddr'[u] = c =>
          u # t /\ tAddr[u] = c /\ pc'[u] = pc[u]
  BY <1>7
<1>22. \A q \in Proc, s \in Rid, c \in Addr : gates[q][s] = c => gates'[q][s] = c
  OBVIOUS
<1>23. CreatedInv'
  <2> SUFFICES ASSUME NEW u \in Thread, NEW c \in Addr
               PROVE  /\ Created(u, c) => c \in names
                      /\ Created(u, c) \/ (tAddr'[u] = c /\ Creating(u)') => obj'[procOf[u]][c].attrs = c
                      /\ Created(u, c) \/ (tAddr'[u] = c /\ pc'[u] = "name") =>
                           status[c] = "CREATED" /\ arg[c] = obj'[procOf[u]][c].resourceId
    BY <1>9, <1>14 DEF CreatedInv
  <2>1. CreatedInv
    BY DEF IInv
  <2>2. Created(u, c) \/ (tAddr[u] = c /\ Creating(u)) =>
          Owner(u, c) /\ obj[procOf[u]][c].objType # "none"
    BY <1>20 DEF Owner, Private
  <2>3. tAddr'[u] = c => tAddr[u] = c /\ pc'[u] = pc[u] /\ (Creating(u)' <=> Creating(u))
    BY <1>21 DEF Creating
  <2>4. pc[u] = "name" => Creating(u)
    BY DEF Creating
  <2> QED BY <2>1, <2>2, <2>3, <2>4, <1>19 DEF CreatedInv
<1>24. OpeningInv'
  <2> SUFFICES ASSUME NEW u \in Thread
               PROVE  /\ handle'[u].kind = "opened" => handle'[u].gate \in names
                      /\ pc'[u] = "open" =>
                           /\ tAddr'[u] \in names
                           /\ tAddr'[u] \in LocalAddr => Object(u)'.objType = "create"
                      /\ Finalizing(u)' =>
                           /\ Object(u)'.objType # "none"
                           /\ Object(u)'.numOpens = 0
                           /\ \A v \in Thread : v # u /\ procOf[v] = procOf[u] => tAddr'[v] # tAddr'[u]
    BY <1>9 DEF OpeningInv
  <2>1. CASE u = t
    BY <2>1, <1>2, <1>7, <1>8 DEF Finalizing
  <2>2. CASE u # t
    <3>1. /\ pc[u] # "idle" => tAddr[u] \in Addr
          /\ Finalizing(u) => pc[u] # "idle"
      BY HandleTypes, <1>1 DEF ThreadInv, Finalizing
    <3>2. /\ pc'[u] = pc[u] /\ tAddr'[u] = tAddr[u] /\ handle'[u] = handle[u]
          /\ Finalizing(u)' <=> Finalizing(u)
      BY <2>2, <1>7, <1>8, <1>13
    <3>3. Finalizing(u) => Object(u)' = Object(u)
      BY <2>2, <3>1, <1>4, <1>13
    <3>4. pc[u] = "open" /\ Object(u).objType = "create" => Object(u)'.objType = "create"
      BY <3>1, <3>2, <1>19 DEF Object
    <3> QED BY <3>1, <3>2, <3>3, <3>4, <1>1, <1>7 DEF OpeningInv
  <2> QED BY <2>1, <2>2
<1>25. OpenObjectInv'
  <2> SUFFICES ASSUME NEW q \in Proc, NEW c \in Addr
               PROVE  /\ obj'[q][c].objType = "none" => obj'[q][c] = NoObject
                      /\ obj'[q][c].objType = "open" =>
                           /\ c \notin LocalAddr
                           /\ obj'[q][c].resourceId = arg[c]
                           /\ arg[c] \in Rid
                           /\ gates'[q][arg[c]] = c
                           /\ obj'[q][c].numOpens = 0 =>
                                \E u \in Thread : procOf[u] = q /\ tAddr'[u] = c /\ Finalizing(u)'
    BY <1>9, SMTT(40) DEF OpenObjectInv
  <2>1. /\ obj[q][c].objType = "none" => obj[q][c] = NoObject
        /\ obj[q][c].objType = "open" =>
             /\ c \notin LocalAddr
             /\ obj[q][c].resourceId = arg[c]
             /\ arg[c] \in Rid
             /\ gates[q][arg[c]] = c
             /\ obj[q][c].numOpens = 0 =>
                   \E u \in Thread : procOf[u] = q /\ tAddr[u] = c /\ Finalizing(u)
    BY DEF OpenObjectInv, IInv
  <2>2. CASE q = p /\ c = a
    <3>1. obj[p][a].numOpens \in Nat /\ o.numOpens # 0
      BY <1>1, ObjectTypes
    <3>2. obj'[p][a].objType = "open" => a \notin LocalAddr
      BY <2>1, <2>2, <1>5, <1>6, <1>1, ObjectTypes
    <3> QED BY <2>2, <3>1, <3>2, <1>5, <1>6
  <2>3. CASE ~(q = p /\ c = a)
    <3>1. obj'[q][c] = obj[q][c]
      BY <2>3, <1>6 DEF OtherObjects
    <3>2. \A u \in Thread : tAddr[u] = c /\ Finalizing(u) => tAddr'[u] = c /\ Finalizing(u)'
      <4>1. ~Finalizing(t)
        BY DEF Finalizing
      <4> QED BY <4>1, <1>7, <1>13
    <3> QED BY <2>1, <3>1, <3>2, <1>22
  <2> QED BY <2>2, <2>3
<1>26. ResourceInv'
  <2> SUFFICES ASSUME NEW u \in Thread, NEW c \in Addr
               PROVE  LET r == obj'[procOf[u]][c].resourceId IN
                      /\ Owner(u, c) /\ c \in LocalAddr => r = NULL
                      /\ tAddr'[u] = c =>
                           /\ pc'[u] \in {"getResource", "publish"} => c \notin LocalAddr
                           /\ pc'[u] = "getResource" => r = NULL
                           /\ pc'[u] = "publish" => r \in Rid
                           /\ pc'[u] = "freeResource" /\ r # NULL => gates'[procOf[u]][r] # c
                      /\ c \notin LocalAddr /\ (Created(u, c) \/ (tAddr'[u] = c /\ pc'[u] \in {"fill", "name"})) =>
                           r \in Rid /\ gates'[procOf[u]][r] = c
    BY <1>14, ZenonT(40) DEF ResourceInv
  <2> DEFINE r == obj[procOf[u]][c].resourceId
             inside == tAddr'[u] = c /\ pc'[u] \in {"getResource", "publish", "fill", "name", "freeResource"}
  <2>1. /\ Owner(u, c) /\ c \in LocalAddr => r = NULL
        /\ tAddr[u] = c =>
             /\ pc[u] \in {"getResource", "publish"} => c \notin LocalAddr
             /\ pc[u] = "getResource" => r = NULL
             /\ pc[u] = "publish" => r \in Rid
             /\ pc[u] = "freeResource" /\ r # NULL => gates[procOf[u]][r] # c
        /\ c \notin LocalAddr /\ (Created(u, c) \/ (tAddr[u] = c /\ pc[u] \in {"fill", "name"})) =>
             r \in Rid /\ gates[procOf[u]][r] = c
    BY DEF ResourceInv, IInv
  <2>2. inside => tAddr[u] = c /\ pc'[u] = pc[u] /\ Owner(u, c) /\ c # a
    <3>1. inside => tAddr[u] = c /\ pc'[u] = pc[u]
      BY <1>21
    <3>2. inside => Private(u)
      BY <3>1 DEF Private, Creating
    <3> QED BY <3>1, <3>2, <1>3 DEF Owner
  <2>3. Created(u, c) => Owner(u, c)
    BY DEF Owner
  <2>4. Owner(u, c) => obj'[procOf[u]][c].resourceId = r
    BY <1>19, <1>20
  <2>5. r \in Rid /\ gates[procOf[u]][r] = c => gates'[procOf[u]][r] = c
    BY <1>22
  <2>6. c # a /\ r \in Rid /\ gates[procOf[u]][r] # c => gates'[procOf[u]][r] # c
    <3> SUFFICES ASSUME c # a, NEW s \in Rid, gates[procOf[u]][s] # c
                 PROVE  gates'[procOf[u]][s] # c
      OBVIOUS
    <3>1. \/ gates'[procOf[u]][s] = gates[procOf[u]][s]
          \/ procOf[u] = p /\ s = arg[a] /\ gates[procOf[u]][s] = NULL
      OBVIOUS
    <3>2. s = arg[a] => a \notin LocalAddr
      BY <1>2, CreatedOwner, NullOfLocal
    <3> QED BY <3>1, <3>2
  <2>7. r \in Rid \cup {NULL}
    BY <1>1, ObjectTypes
  <2>8. tAddr'[u] = c /\ pc'[u] \in {"getResource", "publish", "fill", "name", "freeResource"} => inside
    OBVIOUS
  <2> HIDE DEF r, inside
  <2> QED BY ONLY <2>1, <2>2, <2>3, <2>4, <2>5, <2>6, <2>7, <2>8
<1>27. UsedInv'
  <2>1. \A q \in Proc, c \in Addr : /\ obj'[q][c].objType = "create" <=> obj[q][c].objType = "create"
                                    /\ obj[q][c].objType = "create" => obj'[q][c].resourceId = obj[q][c].resourceId
    BY <1>5, <1>6, <1>19 DEF OtherObjects
  <2>2. \A q \in Proc, c \in Addr, s \in Rid : Holds(q, c, s)' <=> Holds(q, c, s)
    BY <2>1 DEF Holds
  <2> QED BY <1>9, <2>2 DEF UsedInv, IInv
<1>28. TableInv'
  <2> SUFFICES ASSUME NEW q \in Proc, NEW s \in Rid, gates'[q][s] # NULL
               PROVE  /\ obj'[q][gates'[q][s]].objType # "none"
                      /\ obj'[q][gates'[q][s]].resourceId = s
    BY DEF TableInv
  <2>1. CASE gates'[q][s] = gates[q][s]
    <3>1. gates[q][s] \in Addr
      BY <2>1, <1>1, TableTypes
    <3>2. obj[q][gates[q][s]].objType # "none" /\ obj[q][gates[q][s]].resourceId = s
      BY <2>1 DEF TableInv, IInv
    <3> QED BY <2>1, <3>1, <3>2, <1>19, SMTT(40)
  <2>2. CASE gates'[q][s] # gates[q][s]
    <3>1. q = p /\ s = arg[a]
      BY <2>2
    <3>2. a \notin LocalAddr
      BY <3>1, <1>2, CreatedOwner, NullOfLocal
    <3> QED BY <3>1, <3>2, <1>5, <1>6
  <2> QED BY <2>1, <2>2
<1>29. OpensCounted'
  <2>1. \A q \in Proc, c \in Addr : Users(q, c)' = IF q = p /\ c = a THEN Users(q, c) \cup {t} ELSE Users(q, c)
    BY <1>12, <1>13 DEF Users
  <2>2. t \notin Users(p, a)
    BY <1>12 DEF Users
  <2>3. Cardinality(Users(p, a) \cup {t}) = Cardinality(Users(p, a)) + 1
    BY <2>2, UsersFinite, FS_AddElement
  <2> SUFFICES ASSUME NEW q \in Proc, NEW c \in Addr
               PROVE  /\ obj'[q][c].numOpens = Cardinality(Users(q, c)')
                      /\ Users(q, c)' # {} /\ c \notin LocalAddr => gates'[q][obj'[q][c].resourceId] = c
    BY DEF OpensCounted
  <2>4. /\ obj[q][c].numOpens = Cardinality(Users(q, c))
        /\ Users(q, c) # {} /\ c \notin LocalAddr => gates[q][obj[q][c].resourceId] = c
    BY DEF OpensCounted, IInv
  <2>5. CASE q = p /\ c = a
    BY <2>1, <2>3, <2>4, <2>5, <1>6
  <2>6. CASE ~(q = p /\ c = a)
    <3>1. obj'[q][c] = obj[q][c] /\ Users(q, c)' = Users(q, c)
      BY <2>1, <2>6, <1>6 DEF OtherObjects
    <3>2. ASSUME Users(q, c) # {}, c \notin LocalAddr
          PROVE  gates'[q][obj'[q][c].resourceId] = c
      <4>1. obj[q][c].resourceId \in Rid
        BY <3>2, UserHasRid
      <4> QED BY <4>1, <2>4, <1>22, <3>1, <3>2
    <3> QED BY <2>4, <3>1, <3>2
  <2> QED BY <2>5, <2>6
<1> QED BY <1>9, <1>10, <1>15, <1>16, <1>17, <1>18, <1>23, <1>24, <1>25, <1>26, <1>27, <1>28, <1>29 DEF NoInvalidDelete, IInv

\* GateMP_create fails in GateMP_openByAddr: the thread returns without a handle,
\* and nothing else changes.
LEMMA openFailedKeeps ==
  ASSUME IInv, NEW t \in Thread, pc[t] = "open", Return(t),
         UNCHANGED <<inUse, status, arg, names, gates, obj, handle, asserts>>
  PROVE  IInv'
<1> USE Procs, Constants
<1>0. TypeOK /\ ThreadInv
  BY DEF IInv
<1>1. TypeOK /\ ThreadInv /\ handle[t] = NoHandle
  BY <1>0 DEF ThreadInv
<1>2. pc' = [pc EXCEPT ![t] = "idle"] /\ tAddr' = [tAddr EXCEPT ![t] = NULL]
  BY DEF Return, Call
<1>3. pc' \in [Thread -> Labels] /\ tAddr' \in [Thread -> Addr \cup {NULL}]
  BY <1>1, <1>2 DEF TypeOK, Labels
<1>4. TypeOK'
  BY <1>1, <1>3 DEF TypeOK, Labels
<1>5. /\ pc'[t] = "idle" /\ tAddr'[t] = NULL
      /\ \A u \in Thread : u # t => pc'[u] = pc[u] /\ tAddr'[u] = tAddr[u]
  BY <1>1, <1>2 DEF TypeOK
<1>6. Others(t)
  BY <1>5 DEF Others
<1>7. ~Private(t) /\ ~Private(t)' /\ ~Finalizing(t)
  BY <1>5 DEF Private, Creating, Finalizing
<1>8. \A u \in Thread, c \in Addr : (Owner(u, c)' <=> Owner(u, c)) /\ (Created(u, c)' <=> Created(u, c))
  <2> SUFFICES ASSUME NEW u \in Thread, NEW c \in Addr
               PROVE  (Owner(u, c)' <=> Owner(u, c)) /\ (Created(u, c)' <=> Created(u, c))
    OBVIOUS
  <2>1. CASE u = t
    BY <2>1, <1>7 DEF Owner, Created
  <2>2. CASE u # t
    BY <2>2, <1>1, <1>6, OwnerOthers
  <2> QED BY <2>1, <2>2
<1>9. \A u \in Thread : u # t => (Private(u)' <=> Private(u)) /\ (Finalizing(u)' <=> Finalizing(u))
  BY <1>5 DEF Private, Creating, Finalizing, Object
<1>10. ThreadInv'
  BY <1>1, <1>5 DEF ThreadInv
<1>11. OwnerInv'
  BY <1>8 DEF OwnerInv, IInv
<1>12. VacantInv'
  BY <1>5, <1>8 DEF VacantInv, IInv
<1>13. PrivateInv'
  <2> SUFFICES ASSUME NEW u \in Thread, Private(u)'
               PROVE  /\ tAddr'[u] \notin names'
                      /\ Object(u)'.numOpens = 0
                      /\ \A w \in Thread : w # u => tAddr'[w] # tAddr'[u] /\ handle'[w].gate # tAddr'[u]
                      /\ \A q \in Proc : q # procOf[u] => obj'[q][tAddr'[u]] = NoObject
    BY DEF PrivateInv
  <2>1. u # t /\ Private(u)
    BY <1>7, <1>9
  <2>2. /\ tAddr[u] \notin names /\ Object(u).numOpens = 0
        /\ \A w \in Thread : w # u => tAddr[w] # tAddr[u] /\ handle[w].gate # tAddr[u]
        /\ \A q \in Proc : q # procOf[u] => obj[q][tAddr[u]] = NoObject
    BY <2>1 DEF PrivateInv, IInv
  <2>3. tAddr'[u] = tAddr[u] /\ Object(u)' = Object(u)
    BY <1>5, <2>1 DEF Object
  <2>4. tAddr[u] # NULL
    <3>1. pc[u] # "idle"
      BY <2>1 DEF Private, Creating, Finalizing
    <3> QED BY <1>0, <3>1 DEF ThreadInv
  <2>5. \A w \in Thread : w # u => tAddr'[w] # tAddr'[u]
    BY <1>5, <2>2, <2>3, <2>4
  <2> QED BY <2>2, <2>3, <2>5
<1>14. CreatedInv'
  BY <1>5, <1>8 DEF CreatedInv, IInv, Creating
<1>15. OpeningInv'
  <2> SUFFICES ASSUME NEW u \in Thread
               PROVE  /\ handle'[u].kind = "opened" => handle'[u].gate \in names'
                      /\ pc'[u] = "open" =>
                           /\ tAddr'[u] \in names'
                           /\ tAddr'[u] \in LocalAddr => Object(u)'.objType = "create"
                      /\ Finalizing(u)' =>
                           /\ Object(u)'.objType # "none"
                           /\ Object(u)'.numOpens = 0
                           /\ \A w \in Thread : w # u /\ procOf[w] = procOf[u] => tAddr'[w] # tAddr'[u]
    BY DEF OpeningInv
  <2>1. OpeningInv
    BY DEF IInv
  <2>2. handle'[u].kind = "opened" => handle'[u].gate \in names'
    BY <2>1 DEF OpeningInv
  <2>3. CASE u = t
    BY <1>5, <2>2, <2>3 DEF Finalizing
  <2>4. CASE u # t
    <3>1. pc'[u] = pc[u] /\ tAddr'[u] = tAddr[u] /\ Object(u)' = Object(u)
      BY <1>5, <2>4 DEF Object
    <3>2. Finalizing(u) => \A w \in Thread : w # u /\ procOf[w] = procOf[u] => tAddr[w] # tAddr[u]
      BY <2>1 DEF OpeningInv
    <3>3. Finalizing(u) => tAddr[u] # NULL
      BY <1>0 DEF ThreadInv, Finalizing
    <3>4. Finalizing(u) => \A w \in Thread : w # u /\ procOf[w] = procOf[u] => tAddr'[w] # tAddr'[u]
      BY <1>5, <3>1, <3>2, <3>3
    <3>5. Finalizing(u)' <=> Finalizing(u)
      BY <3>1 DEF Finalizing
    <3> QED BY <2>1, <2>2, <3>1, <3>4, <3>5 DEF OpeningInv
  <2> QED BY <2>3, <2>4
<1>16. OpenObjectInv'
  BY <1>5, <1>7, <1>9 DEF OpenObjectInv, IInv, Finalizing
<1>17. ResourceInv'
  <2>1. ResourceInv
    BY DEF IInv
  <2> SUFFICES ASSUME NEW u \in Thread, NEW c \in Addr
               PROVE  LET r == obj'[procOf[u]][c].resourceId IN
                      /\ Owner(u, c)' /\ c \in LocalAddr => r = NULL
                      /\ tAddr'[u] = c =>
                           /\ pc'[u] \in {"getResource", "publish"} => c \notin LocalAddr
                           /\ pc'[u] = "getResource" => r = NULL
                           /\ pc'[u] = "publish" => r \in Rid
                           /\ pc'[u] = "freeResource" /\ r # NULL => gates'[procOf[u]][r] # c
                      /\ /\ c \notin LocalAddr
                         /\ Created(u, c)' \/ (tAddr'[u] = c /\ pc'[u] \in {"fill", "name"})
                         => r \in Rid /\ gates'[procOf[u]][r] = c
    BY DEF ResourceInv
  <2>2. tAddr'[u] = c => tAddr[u] = c /\ pc'[u] = pc[u]
    BY <1>5
  <2> QED BY <1>8, <2>1, <2>2 DEF ResourceInv
<1>18. UsedInv' /\ TableInv' /\ OpensCounted' /\ NoInvalidDelete'
  BY ResourcesKept
<1> QED BY <1>4, <1>10, <1>11, <1>12, <1>13, <1>14, <1>15, <1>16, <1>17, <1>18 DEF IInv

\* The thread finds the gate that it looked up, or no object at all.
LEMMA openObjectKeeps ==
  ASSUME IInv, NEW t \in Thread, openObject(t)
  PROVE  IInv'
<1> USE Procs, Constants
<1> DEFINE p == procOf[t]
<1>1. TypeOK /\ ThreadInv /\ pc[t] = "open"
  BY DEF IInv, openObject
<1> PICK a \in Addr : tAddr[t] = a
  BY <1>1, HandleTypes DEF ThreadInv
<1>2. a \in names /\ (a \in LocalAddr => obj[p][a].objType = "create")
  BY <1>1 DEF OpeningInv, IInv, Object
<1> PICK v \in Thread : Created(v, a)
  BY <1>2, CreatedOwner
<1>3. /\ a \in LocalAddr => arg[a] = NULL
      /\ a \notin LocalAddr => arg[a] \in Rid
      /\ obj[procOf[v]][a].objType # "none" /\ obj[procOf[v]][a].resourceId = arg[a]
  <2>1. Owner(v, a)
    BY DEF Owner
  <2>2. obj[procOf[v]][a].objType # "none"
    BY <2>1 DEF OwnerInv, IInv
  <2> QED BY <1>2, <2>2, NullOfLocal, ObjectOfCreated
<1>4. a \notin LocalAddr => gates[p][arg[a]] \in {NULL, a}
  BY <1>3, EntryIs
<1>5. Return(t) /\ UNCHANGED <<inUse, status, arg, names, asserts>>
  BY DEF openObject, shared
<1>6. gates \in [Proc -> [Rid -> Addr \cup {NULL}]] /\ obj \in [Proc -> [Addr -> Objects]]
  BY <1>1, TypesAre
<1>7. ASSUME a \in LocalAddr \/ gates[p][arg[a]] = a
      PROVE  IInv'
  <2> DEFINE o == [obj[p][a] EXCEPT !.numOpens = @ + 1]
  <2>1. /\ obj' = [obj EXCEPT ![p][a].numOpens = @ + 1] /\ gates' = gates
        /\ handle' = [handle EXCEPT ![t] = [kind |-> "opened", gate |-> a]]
    BY <1>3, <1>7 DEF openObject
  <2>2. obj' = [obj EXCEPT ![p][a] = o]
    BY <2>1, <1>6
  <2>3. obj[p][a].objType # "none"
    <3>1. CASE a \in LocalAddr
      BY <3>1, <1>2
    <3>2. CASE a \notin LocalAddr
      BY <3>2, <1>3, <1>7, ZenonT(40) DEF TableInv, IInv
    <3> QED BY <3>1, <3>2
  <2>4. obj[p][a].resourceId = arg[a]
    BY <1>2, <2>3, ObjectOfCreated
  <2>5. obj[p][a] \in Objects /\ obj[p][a].numOpens = Cardinality(Users(p, a))
    BY <1>6 DEF OpensCounted, IInv
  <2>6. Cardinality(Users(p, a)) + 1 \in 0..Cardinality(Thread)
    <3>1. handle[t] = NoHandle
      BY <1>1 DEF ThreadInv
    <3>2. t \notin Users(p, a)
      BY <1>1, <3>1, HandleIs DEF Users
    <3>3. Users(p, a) \cup {t} \subseteq Thread
      BY UsersFinite
    <3>4. Cardinality(Users(p, a) \cup {t}) <= Cardinality(Thread)
      BY <3>3, FS_Subset
    <3>5. Cardinality(Users(p, a) \cup {t}) = Cardinality(Users(p, a)) + 1
      BY <3>2, UsersFinite, FS_AddElement
    <3>6. Cardinality(Users(p, a)) \in Nat /\ Cardinality(Thread) \in Nat
      BY UsersFinite
    <3> QED BY ONLY <3>4, <3>5, <3>6
  <2>7. /\ o \in Objects /\ o.numOpens = obj[p][a].numOpens + 1
        /\ o.objType = obj[p][a].objType /\ o.attrs = obj[p][a].attrs
        /\ o.resourceId = obj[p][a].resourceId
    BY <2>5, <2>6 DEF Objects
  <2> HIDE DEF o
  <2>8. /\ o \in Objects /\ pc[t] = "open" /\ tAddr[t] = a
        /\ a \in LocalAddr => obj[procOf[t]][a].objType # "none"
        /\ a \notin LocalAddr => arg[a] \in Rid
        /\ o.numOpens = obj[procOf[t]][a].numOpens + 1
        /\ o.resourceId = arg[a]
        /\ \/ /\ obj[procOf[t]][a].objType # "none" /\ o.objType = obj[procOf[t]][a].objType
              /\ o.attrs = obj[procOf[t]][a].attrs
           \/ obj[procOf[t]][a].objType = "none" /\ o.objType = "open"
    BY <1>1, <1>3, <2>3, <2>4, <2>7
  <2>9. /\ gates' \in [Proc -> [Rid -> Addr \cup {NULL}]]
        /\ a \notin LocalAddr => gates'[procOf[t]][arg[a]] = a
        /\ \A q \in Proc, s \in Rid : \/ gates'[q][s] = gates[q][s]
                                      \/ q = procOf[t] /\ s = arg[a] /\ gates[q][s] = NULL
    BY <1>6, <1>7, <2>1
  <2> QED BY <1>5, <2>1, <2>2, <2>8, <2>9, OpenedStep
<1>8. ASSUME a \notin LocalAddr, gates[p][arg[a]] = NULL
      PROVE  IInv'
  <2>0. CASE UNCHANGED <<gates, obj, handle>>
    BY <1>1, <1>5, <2>0, openFailedKeeps
  <2> SUFFICES ASSUME ~UNCHANGED <<gates, obj, handle>>
               PROVE  IInv'
    BY <2>0
  <2> PICK r \in Rid : arg[a] = r
    BY <1>3, <1>8
  <2>1. 1 \in 0..Cardinality(Thread)
    <3>1. Cardinality(Thread) # 0
      BY FS_EmptySet
    <3> QED BY <3>1
  <2>2. [objType |-> "open", attrs |-> a, resourceId |-> r, numOpens |-> 1] \in Objects
    BY <2>1 DEF Objects
  <2> PICK o \in Objects : o = [objType |-> "open", attrs |-> a, resourceId |-> r, numOpens |-> 1]
    BY <2>2
  <2>3. /\ obj' = [obj EXCEPT ![p][a] = o] /\ gates' = [gates EXCEPT ![p][r] = a]
        /\ handle' = [handle EXCEPT ![t] = [kind |-> "opened", gate |-> a]]
    BY <1>3, <1>8 DEF openObject
  <2>4. obj[p][a].objType = "none"
    BY <1>2, <1>8, ObjectOfCreated
  <2>5. obj[p][a].numOpens = 0
    BY <2>4, NoObjectIs DEF OpenObjectInv, IInv
  <2>6. /\ gates' \in [Proc -> [Rid -> Addr \cup {NULL}]]
        /\ gates'[p][r] = a
        /\ \A q \in Proc, s \in Rid : \/ gates'[q][s] = gates[q][s]
                                      \/ q = p /\ s = arg[a] /\ gates[q][s] = NULL
    BY <1>6, <1>8, <2>3
  <2>8. /\ o \in Objects /\ o.numOpens = obj[p][a].numOpens + 1
        /\ o.objType = "open" /\ o.resourceId = arg[a]
    BY <1>3, <1>8, <2>5
  <2>9. /\ o \in Objects /\ pc[t] = "open" /\ tAddr[t] = a
        /\ a \in LocalAddr => obj[procOf[t]][a].objType # "none"
        /\ a \notin LocalAddr => arg[a] \in Rid
        /\ o.numOpens = obj[procOf[t]][a].numOpens + 1
        /\ o.resourceId = arg[a]
        /\ \/ /\ obj[procOf[t]][a].objType # "none" /\ o.objType = obj[procOf[t]][a].objType
              /\ o.attrs = obj[procOf[t]][a].attrs
           \/ obj[procOf[t]][a].objType = "none" /\ o.objType = "open"
    BY <1>1, <1>3, <1>8, <2>4, <2>8
  <2>10. /\ gates' \in [Proc -> [Rid -> Addr \cup {NULL}]]
         /\ a \notin LocalAddr => gates'[procOf[t]][arg[a]] = a
         /\ \A q \in Proc, s \in Rid : \/ gates'[q][s] = gates[q][s]
                                       \/ q = procOf[t] /\ s = arg[a] /\ gates[q][s] = NULL
    BY <2>6
  <2>11. UNCHANGED <<inUse, status, arg, names, asserts>> /\ Return(t)
    BY <1>5
  <2>12. obj' = [obj EXCEPT ![procOf[t]][a] = o]
    BY <2>3
  <2>13. handle' = [handle EXCEPT ![t] = [kind |-> "opened", gate |-> a]]
    BY <2>3
  <2> QED BY <2>9, <2>10, <2>11, <2>12, <2>13, OpenedStep
<1> QED BY <1>4, <1>7, <1>8

-----------------------------------------------------------------------------
\* GateMP_close: the object is counted down, and the last close of an opened
\* one goes on to Instance_finalize, alone on its processor.
LeadsTo(a, o, label, d) ==
  \/ label = "finalize" /\ d = a /\ o.numOpens = 0 /\ o.objType = "open"
  \/ label = "idle" /\ d = NULL /\ ~(o.numOpens = 0 /\ o.objType = "open")

LEMMA ClosedStep ==
  ASSUME IInv, NEW t \in Thread, NEW a \in Addr, NEW o \in Objects,
         NEW label, NEW d,
         pc[t] = "idle", handle[t].kind = "opened", handle[t].gate = a,
         ~Busy(procOf[t], a, {"open"}),
         o.numOpens = obj[procOf[t]][a].numOpens - 1,
         o.resourceId = obj[procOf[t]][a].resourceId,
         o.objType = obj[procOf[t]][a].objType,
         o.attrs = obj[procOf[t]][a].attrs,
         LeadsTo(a, o, label, d),
         obj' = [obj EXCEPT ![procOf[t]][a] = o],
         handle' = [handle EXCEPT ![t] = NoHandle],
         Call(t, label, d),
         UNCHANGED <<inUse, status, arg, names, gates, asserts>>
  PROVE  IInv'
<1> USE Procs, Constants
<1> DEFINE p == procOf[t]
<1> label \in {"idle", "finalize"} /\ d \in Addr \cup {NULL}
  BY DEF LeadsTo
<1> USE DEF LeadsTo
<1>1. TypeOK /\ ThreadInv /\ OpeningInv /\ OwnerInv
  BY DEF IInv
<1>2. /\ a \in names /\ Opened(t, a) /\ t \in Users(p, a)
      /\ obj[p][a].objType # "none" /\ obj[p][a].numOpens \in Nat \ {0}
  BY UserIs
<1>3. \A u \in Thread : Private(u) => tAddr[u] # a
  BY <1>2 DEF PrivateInv, IInv
<1>4. \A u \in Thread : procOf[u] = p => tAddr[u] # a
  <2> SUFFICES ASSUME NEW u \in Thread, procOf[u] = p, tAddr[u] = a
               PROVE  FALSE
    OBVIOUS
  <2>1. pc[u] \in Labels /\ pc[u] # "idle" /\ pc[u] # "open"
    BY <1>1, HandleTypes DEF ThreadInv, Busy
  <2>2. ~Creating(u) /\ pc[u] # "freeResource"
    BY <1>3 DEF Private
  <2>3. ~Finalizing(u)
    BY <1>1, <1>2 DEF OpeningInv, Object
  <2> QED BY <2>1, <2>2, <2>3 DEF Labels, Creating, Finalizing
<1>5. o.objType # "none" /\ o.numOpens \in Nat
  BY <1>2
<1>6. obj' \in [Proc -> [Addr -> Objects]] /\ OtherObjects(p, a) /\ obj'[p][a] = o
  <2>1. obj \in [Proc -> [Addr -> Objects]]
    BY <1>1 DEF TypeOK, Objects
  <2>2. p \in Proc /\ o \in Objects /\ obj' = [obj EXCEPT ![p][a] = o]
    OBVIOUS
  <2> QED BY ONLY <2>1, <2>2, a \in Addr DEF OtherObjects
<1>7. /\ pc'[t] = label /\ \A u \in Thread : u # t => pc'[u] = pc[u]
      /\ tAddr'[t] = d /\ \A u \in Thread : u # t => tAddr'[u] = tAddr[u]
      /\ pc' \in [Thread -> Labels] /\ tAddr' \in [Thread -> Addr \cup {NULL}]
  <2>1. label \in Labels
    BY DEF Labels
  <2> QED BY ONLY <1>1, <2>1, t \in Thread, d \in Addr \cup {NULL}, Call(t, label, d), Called
<1>8. /\ handle'[t] = NoHandle
      /\ \A u \in Thread : u # t => handle'[u] = handle[u]
      /\ handle' \in [Thread -> Handles]
  <2>1. NoHandle \in Handles
    BY DEF Handles, NoHandle
  <2> QED BY <1>1, <2>1, HandleSet
<1>9. UNCHANGED <<inUse, status, arg, names, gates, asserts>>
  OBVIOUS
<1>10. TypeOK'
  BY <1>1, <1>6, <1>7, <1>8, <1>9, TypesAre, ZenonT(40)
<1>11. Others(t)
  BY <1>7, <1>8 DEF Others
<1>12. /\ ~Private(t) /\ ~Private(t)' /\ ~Finalizing(t)
       /\ \A c \in Addr : ~Created(t, c) /\ ~Created(t, c)' /\ ~Opened(t, c)' /\ (Opened(t, c) <=> c = a)
  <2>1. ~Private(t) /\ ~Finalizing(t)
    BY DEF Private, Creating, Finalizing
  <2>2. ASSUME label = "idle" PROVE ~Private(t)'
    BY <2>2, <1>7 DEF Private, Creating, Finalizing
  <2>3. ASSUME label = "finalize" PROVE ~Private(t)'
    <3>1. Object(t)'.objType = "open"
      BY <2>3, <1>6, <1>7 DEF Object
    <3> QED BY <2>3, <3>1, <1>7 DEF Private, Creating
  <2>4. \A c \in Addr : ~Created(t, c)' /\ ~Opened(t, c)'
    BY <1>8 DEF Created, Opened, NoHandle
  <2>5. \A c \in Addr : ~Created(t, c) /\ (Opened(t, c) <=> c = a)
    BY <1>1, HandleIs
  <2> QED BY <2>1, <2>2, <2>3, <2>4, <2>5
<1>13. \A u \in Thread : u # t =>
         /\ \A c \in Addr : Owner(u, c)' <=> Owner(u, c)
         /\ \A c \in Addr : Created(u, c)' <=> Created(u, c)
         /\ \A c \in Addr : Opened(u, c)' <=> Opened(u, c)
         /\ tAddr[u] \in Addr => (Private(u)' <=> Private(u))
         /\ Finalizing(u)' <=> Finalizing(u)
         /\ tAddr[u] \in Addr => Object(u)' = Object(u)
  <2> SUFFICES ASSUME NEW u \in Thread, u # t
               PROVE  /\ \A c \in Addr : Owner(u, c)' <=> Owner(u, c)
                      /\ \A c \in Addr : Created(u, c)' <=> Created(u, c)
                      /\ \A c \in Addr : Opened(u, c)' <=> Opened(u, c)
                      /\ tAddr[u] \in Addr => (Private(u)' <=> Private(u))
                      /\ Finalizing(u)' <=> Finalizing(u)
                      /\ tAddr[u] \in Addr => Object(u)' = Object(u)
    OBVIOUS
  <2>1. tAddr[u] \in Addr => obj'[procOf[u]][tAddr[u]] = obj[procOf[u]][tAddr[u]]
    BY <1>4, <1>6 DEF OtherObjects
  <2> QED BY <2>1, <1>1, <1>7, <1>11, OwnerOthers DEF Object
<1>14. \A u \in Thread, c \in Addr : (Owner(u, c)' <=> Owner(u, c)) /\ (Created(u, c)' <=> Created(u, c))
  <2>1. \A c \in Addr : ~Owner(t, c) /\ ~Owner(t, c)'
    BY <1>12 DEF Owner
  <2> QED BY <2>1, <1>12, <1>13
<1>15. ThreadInv'
  BY <1>1, <1>7, <1>8 DEF ThreadInv, NoHandle

<1>16. OwnerInv'
  <2> SUFFICES ASSUME NEW c \in Addr, NEW u \in Thread, Owner(u, c)
               PROVE  /\ status[c] # "free"
                      /\ \A v \in Thread : Owner(v, c) => u = v
                      /\ \A q \in Proc : obj'[q][c].objType = "create" <=> q = procOf[u]
    BY <1>9, <1>14 DEF OwnerInv
  <2>1. /\ status[c] # "free"
        /\ \A v \in Thread : Owner(v, c) => u = v
        /\ \A q \in Proc : obj[q][c].objType = "create" <=> q = procOf[u]
    BY <1>1 DEF OwnerInv
  <2>2. \A q \in Proc : obj'[q][c].objType = "create" <=> obj[q][c].objType = "create"
    BY <1>6 DEF OtherObjects
  <2> QED BY <2>1, <2>2
<1>17. VacantInv'
  <2> SUFFICES ASSUME NEW c \in Addr, \A u \in Thread : ~Owner(u, c)
               PROVE  /\ status[c] = "free" /\ c \notin names
                      /\ \A q \in Proc : obj'[q][c] = NoObject
                      /\ \A u \in Thread : tAddr'[u] # c /\ handle'[u].gate # c
    BY <1>9, <1>14 DEF VacantInv
  <2>1. VacantInv
    BY DEF IInv
  <2>2. /\ status[c] = "free" /\ c \notin names
        /\ \A q \in Proc : obj[q][c] = NoObject
        /\ \A u \in Thread : tAddr[u] # c /\ handle[u].gate # c
    BY <2>1 DEF VacantInv
  <2>3. c # a
    BY <2>2, <1>2
  <2>4. \A q \in Proc : obj'[q][c] = NoObject
    BY <2>2, <2>3, <1>6 DEF OtherObjects
  <2>5. \A u \in Thread : tAddr'[u] # c
    BY <2>2, <2>3, <1>7
  <2>6. \A u \in Thread : handle'[u].gate # c
    BY <2>2, <1>8 DEF NoHandle
  <2> QED BY <2>2, <2>4, <2>5, <2>6
<1>18. PrivateInv'
  <2> SUFFICES ASSUME NEW u \in Thread, Private(u)'
               PROVE  /\ tAddr'[u] \notin names
                      /\ Object(u)'.numOpens = 0
                      /\ \A v \in Thread : v # u => tAddr'[v] # tAddr'[u] /\ handle'[v].gate # tAddr'[u]
                      /\ \A q \in Proc : q # procOf[u] => obj'[q][tAddr'[u]] = NoObject
    BY <1>9 DEF PrivateInv
  <2>1. u # t
    BY <1>12
  <2>2. tAddr'[u] = tAddr[u]
    BY <2>1, <1>7
  <2>3. tAddr[u] \in Addr
    BY <2>1, <1>7, HandleTypes, <1>1 DEF ThreadInv, Private, Creating, Finalizing
  <2>4. Private(u) /\ tAddr[u] # a
    BY <2>1, <2>3, <1>3, <1>13
  <2>5. Object(u)' = Object(u)
    BY <2>1, <2>3, <1>13
  <2>6. /\ tAddr[u] \notin names
        /\ Object(u).numOpens = 0
        /\ \A v \in Thread : v # u => tAddr[v] # tAddr[u] /\ handle[v].gate # tAddr[u]
        /\ \A q \in Proc : q # procOf[u] => obj[q][tAddr[u]] = NoObject
    BY <2>4 DEF PrivateInv, IInv
  <2>7. \A q \in Proc : q # procOf[u] => obj'[q][tAddr[u]] = NoObject
    BY <2>3, <2>4, <2>6, <1>6 DEF OtherObjects
  <2>8. \A v \in Thread : v # u => tAddr'[v] # tAddr[u]
    BY <2>3, <2>4, <2>6, <1>7
  <2>9. \A v \in Thread : v # u => handle'[v].gate # tAddr[u]
    BY <2>3, <2>6, <1>8 DEF NoHandle
  <2> QED BY <2>2, <2>5, <2>6, <2>7, <2>8, <2>9
<1>19. \A q \in Proc, c \in Addr : /\ obj'[q][c].objType = obj[q][c].objType
                                   /\ obj'[q][c].attrs = obj[q][c].attrs
                                   /\ obj'[q][c].resourceId = obj[q][c].resourceId
  BY <1>6 DEF OtherObjects
<1>20. \A u \in Thread : pc'[u] \notin {"idle", "finalize"} =>
         u # t /\ pc'[u] = pc[u] /\ tAddr'[u] = tAddr[u]
  BY <1>7
<1>21. CreatedInv'
  <2> SUFFICES ASSUME NEW u \in Thread, NEW c \in Addr
               PROVE  /\ Created(u, c) => c \in names
                      /\ Created(u, c) \/ (tAddr'[u] = c /\ Creating(u)') => obj'[procOf[u]][c].attrs = c
                      /\ Created(u, c) \/ (tAddr'[u] = c /\ pc'[u] = "name") =>
                           status[c] = "CREATED" /\ arg[c] = obj'[procOf[u]][c].resourceId
    BY <1>9, <1>14 DEF CreatedInv
  <2>1. CreatedInv
    BY DEF IInv
  <2>2. Creating(u)' => Creating(u) /\ tAddr'[u] = tAddr[u]
    BY <1>20 DEF Creating
  <2>3. pc'[u] = "name" => pc[u] = "name" /\ tAddr'[u] = tAddr[u]
    BY <1>20
  <2> QED BY <2>1, <2>2, <2>3, <1>19, SMTT(40) DEF CreatedInv
<1>22. OpeningInv'
  <2> SUFFICES ASSUME NEW u \in Thread
               PROVE  /\ handle'[u].kind = "opened" => handle'[u].gate \in names
                      /\ pc'[u] = "open" =>
                           /\ tAddr'[u] \in names
                           /\ tAddr'[u] \in LocalAddr => Object(u)'.objType = "create"
                      /\ Finalizing(u)' =>
                           /\ Object(u)'.objType # "none"
                           /\ Object(u)'.numOpens = 0
                           /\ \A v \in Thread : v # u /\ procOf[v] = procOf[u] => tAddr'[v] # tAddr'[u]
    BY <1>9 DEF OpeningInv
  <2>1. CASE u = t
    <3>1. handle'[u].kind = "none" /\ pc'[u] # "open"
      BY <2>1, <1>7, <1>8 DEF NoHandle
    <3>2. ASSUME Finalizing(u)'
          PROVE  /\ Object(u)'.objType # "none"
                 /\ Object(u)'.numOpens = 0
                 /\ \A v \in Thread : v # u /\ procOf[v] = procOf[u] => tAddr'[v] # tAddr'[u]
      <4>1. label = "finalize"
        BY <2>1, <3>2, <1>7 DEF Finalizing
      <4>2. d = a /\ o.numOpens = 0
        BY <4>1
      <4>3. Object(u)' = o
        BY <2>1, <4>2, <1>6, <1>7 DEF Object
      <4>4. \A v \in Thread : v # u /\ procOf[v] = p => tAddr'[v] # a
        BY <2>1, <1>4, <1>7
      <4> QED BY <2>1, <4>2, <4>3, <4>4, <1>5, <1>7
    <3> QED BY <3>1, <3>2
  <2>2. CASE u # t
    <3>1. /\ pc[u] # "idle" => tAddr[u] \in Addr
          /\ Finalizing(u) => pc[u] # "idle"
      BY HandleTypes, <1>1 DEF ThreadInv, Finalizing
    <3>2. /\ pc'[u] = pc[u] /\ tAddr'[u] = tAddr[u] /\ handle'[u] = handle[u]
          /\ Finalizing(u)' <=> Finalizing(u)
      BY <2>2, <1>7, <1>8, <1>13
    <3>3. pc[u] # "idle" => Object(u)' = Object(u)
      BY <2>2, <3>1, <1>13
    <3>4. \A v \in Thread : \/ tAddr'[v] = tAddr[v] \/ tAddr'[v] = NULL
                            \/ (tAddr'[v] = a /\ procOf[v] = p)
      BY <1>7
    <3>5. Finalizing(u) => tAddr[u] # NULL
      BY <3>1
    <3>6. procOf[u] = p => tAddr[u] # a
      BY <1>4
    <3>7. Finalizing(u) => \A v \in Thread : v # u /\ procOf[v] = procOf[u] => tAddr'[v] # tAddr[u]
      BY <3>4, <3>5, <3>6, <1>1 DEF OpeningInv
    <3>8. /\ handle[u].kind = "opened" => handle[u].gate \in names
          /\ pc[u] = "open" =>
               /\ tAddr[u] \in names
               /\ tAddr[u] \in LocalAddr => Object(u).objType = "create"
          /\ Finalizing(u) => Object(u).objType # "none" /\ Object(u).numOpens = 0
      BY <1>1 DEF OpeningInv
    <3> QED BY <3>1, <3>2, <3>3, <3>7, <3>8
  <2> QED BY <2>1, <2>2
<1>23. OpenObjectInv'
  <2> SUFFICES ASSUME NEW q \in Proc, NEW c \in Addr
               PROVE  /\ obj'[q][c].objType = "none" => obj'[q][c] = NoObject
                      /\ obj'[q][c].objType = "open" =>
                           /\ c \notin LocalAddr
                           /\ obj'[q][c].resourceId = arg[c]
                           /\ arg[c] \in Rid
                           /\ gates[q][arg[c]] = c
                           /\ obj'[q][c].numOpens = 0 =>
                                \E u \in Thread : procOf[u] = q /\ tAddr'[u] = c /\ Finalizing(u)'
    BY <1>9, SMTT(40) DEF OpenObjectInv
  <2>1. /\ obj[q][c].objType = "none" => obj[q][c] = NoObject
        /\ obj[q][c].objType = "open" =>
             /\ c \notin LocalAddr
             /\ obj[q][c].resourceId = arg[c]
             /\ arg[c] \in Rid
             /\ gates[q][arg[c]] = c
             /\ obj[q][c].numOpens = 0 =>
                   \E u \in Thread : procOf[u] = q /\ tAddr[u] = c /\ Finalizing(u)
    BY DEF OpenObjectInv, IInv
  <2>2. CASE q = p /\ c = a
    <3>1. ASSUME o.objType = "open", o.numOpens = 0
          PROVE  \E u \in Thread : procOf[u] = p /\ tAddr'[u] = a /\ Finalizing(u)'
      <4>1. label = "finalize" /\ d = a
        BY <3>1
      <4>2. tAddr'[t] = a /\ Finalizing(t)'
        BY <4>1, <1>7 DEF Finalizing
      <4> QED BY <4>2
    <3> QED BY <2>1, <2>2, <3>1, <1>5, <1>6, <1>19, ZenonT(40)
  <2>3. CASE ~(q = p /\ c = a)
    <3>1. obj'[q][c] = obj[q][c]
      BY <2>3, <1>6 DEF OtherObjects
    <3>2. \A u \in Thread : tAddr[u] = c /\ Finalizing(u) => tAddr'[u] = c /\ Finalizing(u)'
      BY <1>7, <1>12, <1>13
    <3> QED BY <2>1, <3>1, <3>2
  <2> QED BY <2>2, <2>3
<1>24. ResourceInv'
  <2> SUFFICES ASSUME NEW u \in Thread, NEW c \in Addr
               PROVE  LET r == obj'[procOf[u]][c].resourceId IN
                      /\ Owner(u, c) /\ c \in LocalAddr => r = NULL
                      /\ tAddr'[u] = c =>
                           /\ pc'[u] \in {"getResource", "publish"} => c \notin LocalAddr
                           /\ pc'[u] = "getResource" => r = NULL
                           /\ pc'[u] = "publish" => r \in Rid
                           /\ pc'[u] = "freeResource" /\ r # NULL => gates'[procOf[u]][r] # c
                      /\ c \notin LocalAddr /\ (Created(u, c) \/ (tAddr'[u] = c /\ pc'[u] \in {"fill", "name"})) =>
                           r \in Rid /\ gates'[procOf[u]][r] = c
    BY <1>14, ZenonT(40) DEF ResourceInv
  <2> DEFINE r == obj[procOf[u]][c].resourceId
  <2>1. obj'[procOf[u]][c].resourceId = r
    BY <1>19
  <2>2. /\ Owner(u, c) /\ c \in LocalAddr => r = NULL
        /\ tAddr[u] = c =>
             /\ pc[u] \in {"getResource", "publish"} => c \notin LocalAddr
             /\ pc[u] = "getResource" => r = NULL
             /\ pc[u] = "publish" => r \in Rid
             /\ pc[u] = "freeResource" /\ r # NULL => gates[procOf[u]][r] # c
        /\ c \notin LocalAddr /\ (Created(u, c) \/ (tAddr[u] = c /\ pc[u] \in {"fill", "name"})) =>
             r \in Rid /\ gates[procOf[u]][r] = c
    BY DEF ResourceInv, IInv
  <2>3. pc'[u] \in {"getResource", "publish", "freeResource", "fill", "name"} =>
          pc'[u] = pc[u] /\ tAddr'[u] = tAddr[u]
    BY <1>20
  <2>4. gates' = gates
    BY <1>9
  <2> HIDE DEF r
  <2>5. tAddr'[u] = c =>
          /\ pc'[u] \in {"getResource", "publish"} => c \notin LocalAddr
          /\ pc'[u] = "getResource" => r = NULL
          /\ pc'[u] = "publish" => r \in Rid
          /\ pc'[u] = "freeResource" /\ r # NULL => gates[procOf[u]][r] # c
    <3> SUFFICES ASSUME tAddr'[u] = c, pc'[u] \in {"getResource", "publish", "freeResource"}
                 PROVE  /\ pc'[u] \in {"getResource", "publish"} => c \notin LocalAddr
                        /\ pc'[u] = "getResource" => r = NULL
                        /\ pc'[u] = "publish" => r \in Rid
                        /\ pc'[u] = "freeResource" /\ r # NULL => gates[procOf[u]][r] # c
      OBVIOUS
    <3>1. tAddr[u] = c /\ pc'[u] = pc[u]
      BY <2>3
    <3> QED BY <2>2, <3>1
  <2>6. c \notin LocalAddr /\ (Created(u, c) \/ (tAddr'[u] = c /\ pc'[u] \in {"fill", "name"})) =>
          r \in Rid /\ gates[procOf[u]][r] = c
    BY <2>2, <2>3
  <2> QED BY <2>1, <2>2, <2>4, <2>5, <2>6
<1>25. UsedInv'
  <2>1. \A q \in Proc, c \in Addr, s \in Rid : Holds(q, c, s)' <=> Holds(q, c, s)
    BY <1>19 DEF Holds
  <2> QED BY <1>9, <2>1 DEF UsedInv, IInv
<1>26. TableInv'
  <2> SUFFICES ASSUME NEW q \in Proc, NEW s \in Rid, gates'[q][s] # NULL
               PROVE  /\ obj'[q][gates'[q][s]].objType # "none"
                      /\ obj'[q][gates'[q][s]].resourceId = s
    BY Zenon DEF TableInv
  <2>1. gates'[q][s] = gates[q][s]
    BY <1>9
  <2>2. gates[q][s] \in Addr
    BY <1>1, <2>1, TableTypes
  <2>3. obj[q][gates[q][s]].objType # "none" /\ obj[q][gates[q][s]].resourceId = s
    BY <2>1 DEF TableInv, IInv
  <2> QED BY <2>1, <2>2, <2>3, <1>19
<1>27. OpensCounted'
  <2>1. \A q \in Proc, c \in Addr : Users(q, c)' = IF q = p /\ c = a THEN Users(q, c) \ {t} ELSE Users(q, c)
    BY <1>12, <1>13 DEF Users
  <2>2. Cardinality(Users(p, a) \ {t}) = Cardinality(Users(p, a)) - 1
    BY <1>2, UsersFinite, FS_RemoveElement
  <2> SUFFICES ASSUME NEW q \in Proc, NEW c \in Addr
               PROVE  /\ obj'[q][c].numOpens = Cardinality(Users(q, c)')
                      /\ Users(q, c)' # {} /\ c \notin LocalAddr => gates[q][obj'[q][c].resourceId] = c
    BY <1>9 DEF OpensCounted
  <2>3. /\ obj[q][c].numOpens = Cardinality(Users(q, c))
        /\ Users(q, c) # {} /\ c \notin LocalAddr => gates[q][obj[q][c].resourceId] = c
    BY DEF OpensCounted, IInv
  <2>4. CASE q = p /\ c = a
    <3>1. Users(q, c)' = Users(p, a) \ {t} /\ Users(q, c)' \subseteq Users(q, c)
      BY <2>1, <2>4
    <3>2. obj'[q][c].numOpens = obj[q][c].numOpens - 1 /\ obj'[q][c].resourceId = obj[q][c].resourceId
      BY <2>4, <1>6
    <3> QED BY <2>2, <2>3, <2>4, <3>1, <3>2
  <2>5. CASE ~(q = p /\ c = a)
    <3>1. obj'[q][c] = obj[q][c] /\ Users(q, c)' = Users(q, c)
      BY <2>1, <2>5, <1>6 DEF OtherObjects
    <3> QED BY <2>3, <3>1
  <2> QED BY <2>4, <2>5
<1> QED BY <1>9, <1>10, <1>15, <1>16, <1>17, <1>18, <1>21, <1>22, <1>23, <1>24, <1>25, <1>26, <1>27 DEF NoInvalidDelete, IInv

LEMMA closeKeeps ==
  ASSUME IInv, AppLocks = TRUE, NEW t \in Thread, close(t)
  PROVE  IInv'
<1> USE Procs, Constants
<1> DEFINE p == procOf[t]
<1>1. TypeOK /\ pc[t] = "idle" /\ handle[t].kind = "opened"
  BY DEF IInv, close
<1> PICK a \in Addr : handle[t].gate = a
  BY <1>1, UserIs
<1>2. obj[p][a].objType # "none" /\ obj[p][a].numOpens \in Nat \ {0}
  BY <1>1, UserIs
<1>3. obj \in [Proc -> [Addr -> Objects]] /\ obj[p][a] \in Objects
  BY <1>1, TypesAre, ObjectTypes
<1>4. [obj[p][a] EXCEPT !.numOpens = @ - 1] \in Objects
  <2>1. Cardinality(Thread) \in Nat
    OBVIOUS
  <2> QED BY ONLY <1>2, <1>3, <2>1 DEF Objects
<1> PICK o \in Objects : o = [obj[p][a] EXCEPT !.numOpens = @ - 1]
  BY <1>4
<1>5. /\ o.numOpens = obj[p][a].numOpens - 1 /\ o.resourceId = obj[p][a].resourceId
      /\ o.objType = obj[p][a].objType /\ o.attrs = obj[p][a].attrs
  BY <1>3 DEF Objects
<1>6. /\ obj' = [obj EXCEPT ![p][a].numOpens = @ - 1]
      /\ handle' = [handle EXCEPT ![t] = NoHandle]
      /\ ~Busy(p, a, {"open"})
      /\ UNCHANGED <<inUse, status, arg, names, gates, asserts>>
  BY DEF close, shared
<1>7. obj' = [obj EXCEPT ![p][a] = o]
  BY <1>3, <1>6
<1>8. /\ ~Busy(procOf[t], a, {"open"})
      /\ o.numOpens = obj[procOf[t]][a].numOpens - 1
      /\ o.resourceId = obj[procOf[t]][a].resourceId
      /\ o.objType = obj[procOf[t]][a].objType
      /\ o.attrs = obj[procOf[t]][a].attrs
      /\ obj' = [obj EXCEPT ![procOf[t]][a] = o]
  BY <1>5, <1>6, <1>7
<1>9. obj[p][a].numOpens = 1 <=> o.numOpens = 0
  BY <1>2, <1>5
<1>10. CASE o.numOpens = 0 /\ o.objType = "open"
  <2>1. Call(t, "finalize", a)
    BY <1>5, <1>9, <1>10 DEF close
  <2>2. LeadsTo(a, o, "finalize", a)
    BY <1>10 DEF LeadsTo
  <2> QED BY <2>1, <2>2, <1>1, <1>6, <1>8, ClosedStep, ZenonT(40)
<1>11. CASE ~(o.numOpens = 0 /\ o.objType = "open")
  <2>1. Call(t, "idle", NULL)
    BY <1>5, <1>9, <1>11 DEF close, Return
  <2>2. LeadsTo(a, o, "idle", NULL)
    BY <1>11 DEF LeadsTo
  <2> QED BY <2>1, <2>2, <1>1, <1>6, <1>8, ClosedStep
<1> QED BY <1>10, <1>11

-----------------------------------------------------------------------------
\* GateMP_delete: nobody else has to do with the gate, whose name goes.
LEMMA deleteKeeps ==
  ASSUME IInv, NEW t \in Thread, delete(t)
  PROVE  IInv'
<1> USE Procs, Constants
<1> DEFINE p == procOf[t]
<1>1. /\ TypeOK /\ ThreadInv /\ OwnerInv /\ NoInvalidDelete
      /\ pc[t] = "idle" /\ handle[t].kind = "created"
  BY DEF IInv, delete
<1> PICK a \in Addr : handle[t].gate = a
  BY <1>1, HandleIs
<1>2. /\ Created(t, a) /\ Owner(t, a) /\ a \in names
      /\ obj[p][a].objType = "create" /\ obj[p][a].attrs = a
  <2>1. Created(t, a) /\ Owner(t, a)
    BY <1>1, HandleIs DEF Owner
  <2> QED BY <2>1, <1>1 DEF OwnerInv, CreatedInv, IInv
<1>3. /\ \A u \in Thread : ~Opened(u, a) /\ tAddr[u] # a
      /\ handle' = [handle EXCEPT ![t] = NoHandle]
      /\ Finalize(t, a)
  BY DEF delete, Opened
<1>4. \A u \in Thread : u # t => handle[u].gate # a
  <2> SUFFICES ASSUME NEW u \in Thread, u # t, handle[u].gate = a
               PROVE  FALSE
    OBVIOUS
  <2>1. ~Created(u, a)
    BY <1>1, <1>2 DEF OwnerInv, Owner
  <2>2. handle[u].kind \in {"none", "created", "opened"} /\ handle[u].kind # "none"
    BY <1>1, HandleTypes DEF ThreadInv
  <2> QED BY <2>1, <2>2, <1>1, <1>3, HandleIs
<1>5. \A q \in Proc : obj[q][a].numOpens = 0 /\ Users(q, a) = {}
  <2>1. \A q \in Proc : Users(q, a) = {}
    BY <1>3 DEF Users
  <2>2. \A q \in Proc : obj[q][a].numOpens = Cardinality(Users(q, a))
    BY DEF OpensCounted, IInv
  <2>3. Cardinality({}) = 0
    BY FS_EmptySet
  <2> QED BY <2>1, <2>2, <2>3
<1>6. \A q \in Proc : q # p => obj[q][a] = NoObject
  <2> SUFFICES ASSUME NEW q \in Proc, q # p
               PROVE  obj[q][a] = NoObject
    OBVIOUS
  <2>1. obj[q][a].objType \in {"none", "create", "open"} /\ obj[q][a].objType # "create"
    BY <1>1, <1>2, ObjectTypes DEF OwnerInv
  <2> QED BY <2>1, <1>3, <1>5 DEF OpenObjectInv, IInv
<1>7. /\ NoInvalidDelete' /\ Call(t, "proxy", a)
      /\ asserts' \subseteq {"A_invalidDelete", "attrs NULL"}
      /\ UNCHANGED <<inUse, arg, obj, gates>>
      /\ names' \subseteq names /\ \A c \in Addr : c # a => (c \in names' <=> c \in names)
      /\ status' \in [Addr -> {"free", "0", "CREATED"}]
      /\ \A c \in Addr : c # a => status'[c] = status[c]
      /\ status'[a] \in {status[a], "0"}
      /\ a \notin names'
  <2>1. obj[p][a].numOpens = 0 /\ obj[p][a].attrs # NULL
    BY <1>2, <1>5
  <2> QED BY ONLY <2>1, <1>1, <1>2, <1>3, t \in Thread, a \in Addr, FinalizeIs
<1>8. status'[a] # "free"
  BY <1>1, <1>2, <1>7 DEF OwnerInv
<1>9. /\ pc'[t] = "proxy" /\ \A u \in Thread : u # t => pc'[u] = pc[u]
      /\ tAddr'[t] = a /\ \A u \in Thread : u # t => tAddr'[u] = tAddr[u]
      /\ pc' \in [Thread -> Labels] /\ tAddr' \in [Thread -> Addr \cup {NULL}]
  <2>1. "proxy" \in Labels /\ a \in Addr \cup {NULL}
    BY DEF Labels
  <2>2. TypeOK /\ Call(t, "proxy", a)
    BY <1>1, <1>7
  <2> QED BY ONLY <2>1, <2>2, t \in Thread, Called
<1>10. /\ handle'[t] = NoHandle
       /\ \A u \in Thread : u # t => handle'[u] = handle[u]
       /\ handle' \in [Thread -> Handles]
  <2>1. NoHandle \in Handles
    BY DEF Handles, NoHandle
  <2> QED BY <1>1, <1>3, <2>1, HandleSet
<1>11. TypeOK'
  <2>1. names' \subseteq Addr
    BY <1>1, <1>7 DEF TypeOK
  <2> QED BY <2>1, <1>1, <1>7, <1>9, <1>10, TypesAre
<1>12. Others(t)
  BY <1>9, <1>10 DEF Others
<1>13. /\ Private(t)' /\ ~Private(t)
       /\ \A c \in Addr : /\ ~Created(t, c)' /\ (Created(t, c) <=> c = a)
                          /\ ~Opened(t, c)' /\ ~Opened(t, c)
                          /\ Owner(t, c)' <=> Owner(t, c)
  <2>1. ~Private(t)
    BY <1>1 DEF Private, Creating, Finalizing
  <2>2. Object(t)'.objType = "create"
    BY <1>2, <1>7, <1>9 DEF Object
  <2>3. Private(t)'
    BY <2>2, <1>9 DEF Private, Finalizing
  <2>4. \A c \in Addr : ~Created(t, c)' /\ ~Opened(t, c)'
    BY <1>10 DEF Created, Opened, NoHandle
  <2>5. \A c \in Addr : (Created(t, c) <=> c = a) /\ ~Opened(t, c)
    BY <1>1, HandleIs
  <2> QED BY <2>1, <2>3, <2>4, <2>5, <1>9 DEF Owner
<1>14. \A u \in Thread : u # t =>
         /\ \A c \in Addr : Owner(u, c)' <=> Owner(u, c)
         /\ \A c \in Addr : Created(u, c)' <=> Created(u, c)
         /\ \A c \in Addr : Opened(u, c)' <=> Opened(u, c)
         /\ tAddr[u] \in Addr => (Private(u)' <=> Private(u))
         /\ Finalizing(u)' <=> Finalizing(u)
         /\ tAddr[u] \in Addr => Object(u)' = Object(u)
  BY <1>1, <1>7, <1>9, <1>12, OwnerOthers DEF Object
<1>15. \A u \in Thread, c \in Addr : Owner(u, c)' <=> Owner(u, c)
  BY <1>13, <1>14
<1>16. UNCHANGED <<inUse, arg, obj, gates>>
  BY <1>7
<1>17. ThreadInv'
  BY <1>1, <1>9, <1>10 DEF ThreadInv, NoHandle
<1>18. OwnerInv'
  <2> SUFFICES ASSUME NEW c \in Addr, NEW u \in Thread, Owner(u, c)
               PROVE  /\ status'[c] # "free"
                      /\ \A v \in Thread : Owner(v, c) => u = v
                      /\ \A q \in Proc : obj[q][c].objType = "create" <=> q = procOf[u]
    BY <1>15, <1>16 DEF OwnerInv
  <2> QED BY <1>1, <1>7, <1>8 DEF OwnerInv
<1>19. VacantInv'
  <2> SUFFICES ASSUME NEW c \in Addr, \A u \in Thread : ~Owner(u, c)
               PROVE  /\ status'[c] = "free" /\ c \notin names'
                      /\ \A q \in Proc : obj[q][c] = NoObject
                      /\ \A u \in Thread : tAddr'[u] # c /\ handle'[u].gate # c
    BY <1>15, <1>16 DEF VacantInv
  <2>1. VacantInv /\ c # a
    BY <1>2 DEF IInv
  <2>2. /\ status[c] = "free" /\ c \notin names
        /\ \A q \in Proc : obj[q][c] = NoObject
        /\ \A u \in Thread : tAddr[u] # c /\ handle[u].gate # c
    BY <2>1 DEF VacantInv
  <2>3. \A u \in Thread : tAddr'[u] # c /\ handle'[u].gate # c
    BY <2>1, <2>2, <1>9, <1>10 DEF NoHandle
  <2> QED BY <2>1, <2>2, <2>3, <1>7
<1>20. PrivateInv'
  <2> SUFFICES ASSUME NEW u \in Thread, Private(u)'
               PROVE  /\ tAddr'[u] \notin names'
                      /\ Object(u)'.numOpens = 0
                      /\ \A v \in Thread : v # u => tAddr'[v] # tAddr'[u] /\ handle'[v].gate # tAddr'[u]
                      /\ \A q \in Proc : q # procOf[u] => obj[q][tAddr'[u]] = NoObject
    BY <1>16 DEF PrivateInv
  <2>1. CASE u = t
    <3>1. tAddr'[u] = a /\ Object(u)'.numOpens = 0
      BY <2>1, <1>5, <1>9, <1>16 DEF Object
    <3>2. \A v \in Thread : v # u => tAddr'[v] # a /\ handle'[v].gate # a
      BY <2>1, <1>3, <1>4, <1>9, <1>10
    <3> QED BY <2>1, <3>1, <3>2, <1>6, <1>7
  <2>2. CASE u # t
    <3>1. tAddr'[u] = tAddr[u]
      BY <2>2, <1>9
    <3>2. tAddr[u] \in Addr
      BY <2>2, <1>9, HandleTypes, <1>1 DEF ThreadInv, Private, Creating, Finalizing
    <3>3. Private(u) /\ Object(u)' = Object(u) /\ tAddr[u] # a
      BY <2>2, <3>2, <1>3, <1>14
    <3>4. /\ tAddr[u] \notin names
          /\ Object(u).numOpens = 0
          /\ \A v \in Thread : v # u => tAddr[v] # tAddr[u] /\ handle[v].gate # tAddr[u]
          /\ \A q \in Proc : q # procOf[u] => obj[q][tAddr[u]] = NoObject
      BY <3>3 DEF PrivateInv, IInv
    <3>5. \A v \in Thread : v # u => tAddr'[v] # tAddr[u] /\ handle'[v].gate # tAddr[u]
      BY <3>2, <3>3, <3>4, <1>9, <1>10 DEF NoHandle
    <3> QED BY <3>1, <3>3, <3>4, <3>5, <1>7
  <2> QED BY <2>1, <2>2
<1>21. CreatedInv'
  <2> SUFFICES ASSUME NEW u \in Thread, NEW c \in Addr
               PROVE  /\ Created(u, c)' => c \in names'
                      /\ Created(u, c)' \/ (tAddr'[u] = c /\ Creating(u)') => obj[procOf[u]][c].attrs = c
                      /\ Created(u, c)' \/ (tAddr'[u] = c /\ pc'[u] = "name") =>
                           status'[c] = "CREATED" /\ arg[c] = obj[procOf[u]][c].resourceId
    BY <1>16 DEF CreatedInv
  <2>1. CreatedInv
    BY DEF IInv
  <2>2. CASE u = t
    BY <2>2, <1>9, <1>13 DEF Creating
  <2>3. CASE u # t
    <3>1. pc'[u] = pc[u] /\ tAddr'[u] = tAddr[u] /\ (Created(u, c)' <=> Created(u, c))
      BY <2>3, <1>9, <1>14
    <3>2. Creating(u)' <=> Creating(u)
      BY <3>1 DEF Creating
    <3>3. c = a => ~Created(u, c) /\ tAddr[u] # c
      BY <2>3, <1>1, <1>2, <1>3 DEF OwnerInv, Owner
    <3>4. c # a => status'[c] = status[c] /\ (c \in names' <=> c \in names)
      BY <1>7
    <3>5. pc[u] = "name" => Creating(u)
      BY DEF Creating
    <3>6. /\ Created(u, c) => c \in names
          /\ Created(u, c) \/ (tAddr[u] = c /\ Creating(u)) => obj[procOf[u]][c].attrs = c
          /\ Created(u, c) \/ (tAddr[u] = c /\ pc[u] = "name") =>
               status[c] = "CREATED" /\ arg[c] = obj[procOf[u]][c].resourceId
      BY <2>1 DEF CreatedInv
    <3> QED BY <3>1, <3>2, <3>3, <3>4, <3>5, <3>6
  <2> QED BY <2>2, <2>3
<1>22. OpeningInv'
  <2> SUFFICES ASSUME NEW u \in Thread
               PROVE  /\ handle'[u].kind = "opened" => handle'[u].gate \in names'
                      /\ pc'[u] = "open" =>
                           /\ tAddr'[u] \in names'
                           /\ tAddr'[u] \in LocalAddr => Object(u)'.objType = "create"
                      /\ Finalizing(u)' =>
                           /\ Object(u)'.objType # "none"
                           /\ Object(u)'.numOpens = 0
                           /\ \A v \in Thread : v # u /\ procOf[v] = procOf[u] => tAddr'[v] # tAddr'[u]
    BY DEF OpeningInv
  <2>1. OpeningInv
    BY DEF IInv
  <2>2. CASE u = t
    <3>1. handle'[u].kind # "opened" /\ pc'[u] # "open"
      BY <2>2, <1>9, <1>10 DEF NoHandle
    <3>2. Object(u)'.objType # "none" /\ Object(u)'.numOpens = 0 /\ tAddr'[u] = a
      BY <2>2, <1>2, <1>5, <1>9, <1>16 DEF Object
    <3>3. \A v \in Thread : v # u => tAddr'[v] # a
      BY <2>2, <1>3, <1>9
    <3> QED BY <3>1, <3>2, <3>3
  <2>3. CASE u # t
    <3>1. /\ pc[u] # "idle" => tAddr[u] \in Addr
          /\ Finalizing(u) => pc[u] # "idle"
          /\ handle[u].kind # "none" => handle[u].gate \in Addr /\ handle[u].gate # a
      BY <2>3, HandleTypes, HandleIs, <1>1, <1>4 DEF ThreadInv, Finalizing
    <3>2. /\ pc'[u] = pc[u] /\ tAddr'[u] = tAddr[u] /\ handle'[u] = handle[u] /\ tAddr[u] # a
          /\ Finalizing(u)' <=> Finalizing(u)
      BY <2>3, <1>3, <1>9, <1>10, <1>14
    <3>3. pc[u] # "idle" => Object(u)' = Object(u)
      BY <2>3, <3>1, <1>14
    <3>4. /\ handle[u].kind = "opened" => handle[u].gate \in names'
          /\ pc[u] = "open" => tAddr[u] \in names'
      BY <2>1, <3>1, <3>2, <1>7 DEF OpeningInv
    <3>5. Finalizing(u) => \A v \in Thread : v # u /\ procOf[v] = procOf[u] => tAddr'[v] # tAddr[u]
      BY <2>1, <3>1, <3>2, <1>9 DEF OpeningInv
    <3>6. /\ pc[u] = "open" /\ tAddr[u] \in LocalAddr => Object(u).objType = "create"
          /\ Finalizing(u) => Object(u).objType # "none" /\ Object(u).numOpens = 0
      BY <2>1 DEF OpeningInv
    <3> QED BY <3>1, <3>2, <3>3, <3>4, <3>5, <3>6
  <2> QED BY <2>2, <2>3
<1>23. OpenObjectInv'
  <2>1. \A u \in Thread, c \in Addr : tAddr[u] = c /\ Finalizing(u) => tAddr'[u] = c /\ Finalizing(u)'
    <3>1. ~Finalizing(t)
      BY <1>1 DEF Finalizing
    <3> QED BY <3>1, <1>9, <1>14
  <2> QED BY <2>1, <1>16 DEF OpenObjectInv, IInv
<1>24. ResourceInv'
  <2> SUFFICES ASSUME NEW u \in Thread, NEW c \in Addr
               PROVE  LET r == obj[procOf[u]][c].resourceId IN
                      /\ Owner(u, c) /\ c \in LocalAddr => r = NULL
                      /\ tAddr'[u] = c =>
                           /\ pc'[u] \in {"getResource", "publish"} => c \notin LocalAddr
                           /\ pc'[u] = "getResource" => r = NULL
                           /\ pc'[u] = "publish" => r \in Rid
                           /\ pc'[u] = "freeResource" /\ r # NULL => gates[procOf[u]][r] # c
                      /\ c \notin LocalAddr /\ (Created(u, c)' \/ (tAddr'[u] = c /\ pc'[u] \in {"fill", "name"})) =>
                           r \in Rid /\ gates[procOf[u]][r] = c
    BY <1>15, <1>16 DEF ResourceInv
  <2>1. ResourceInv
    BY DEF IInv
  <2>2. CASE u = t
    BY <2>1, <2>2, <1>9, <1>13 DEF ResourceInv
  <2>3. CASE u # t
    BY <2>1, <2>3, <1>9, <1>14 DEF ResourceInv
  <2> QED BY <2>2, <2>3
<1>25. UsedInv' /\ TableInv'
  BY <1>16, UsedKept DEF TableInv, IInv
<1>26. OpensCounted'
  <2>1. \A q \in Proc, c \in Addr : Users(q, c)' = Users(q, c)
    BY <1>13, <1>14 DEF Users
  <2> QED BY <2>1, <1>16 DEF OpensCounted, IInv
<1> QED BY <1>7, <1>11, <1>17, <1>18, <1>19, <1>20, <1>21, <1>22, <1>23, <1>24, <1>25, <1>26 DEF IInv

-----------------------------------------------------------------------------
\* At the start nobody has a gate.
LEMMA InitIInv ==
  ASSUME Init
  PROVE  IInv
<1> USE Procs, Constants
<1>1. /\ status = [a \in Addr |-> "free"] /\ arg = [a \in Addr |-> NULL] /\ names = {}
      /\ inUse = [r \in Rid |-> "UNUSED"] /\ asserts = {}
      /\ gates = [p \in Proc |-> [r \in Rid |-> NULL]]
      /\ obj = [p \in Proc |-> [a \in Addr |-> NoObject]]
      /\ handle = [t \in Thread |-> NoHandle]
      /\ pc = [t \in Thread |-> "idle"] /\ tAddr = [t \in Thread |-> NULL]
  BY DEF Init
<1>2. /\ NoObject \in Objects /\ NoHandle \in Handles /\ "idle" \in Labels
      /\ NoHandle.kind = "none" /\ NoHandle.gate = NULL
  BY NoObjectIs DEF Handles, NoHandle, Labels
<1>3. TypeOK
  BY <1>1, <1>2, TypesAre
<1>4. \A t \in Thread, a \in Addr : ~Owner(t, a) /\ ~Created(t, a) /\ ~Opened(t, a)
  BY <1>1 DEF Owner, Created, Opened, Private, Creating, Finalizing, NoHandle
<1>5. \A t \in Thread : ~Private(t) /\ ~Finalizing(t) /\ ~Creating(t)
  BY <1>1 DEF Private, Creating, Finalizing
<1>6. ThreadInv
  BY <1>1, <1>2 DEF ThreadInv
<1>7. OwnerInv
  BY <1>4 DEF OwnerInv
<1>8. VacantInv
  BY <1>1, <1>2 DEF VacantInv
<1>9. PrivateInv
  BY <1>5 DEF PrivateInv
<1>10. CreatedInv
  BY <1>1, <1>4, <1>5 DEF CreatedInv
<1>11. OpeningInv
  BY <1>1, <1>2, <1>5 DEF OpeningInv
<1>12. OpenObjectInv
  BY <1>1, NoObjectIs DEF OpenObjectInv
<1>13. ResourceInv
  BY <1>1, <1>4 DEF ResourceInv
<1>14. UsedInv
  BY <1>1, NoObjectIs DEF UsedInv, Holds
<1>15. TableInv
  BY <1>1 DEF TableInv
<1>16. OpensCounted
  <2>1. \A p \in Proc, a \in Addr : Users(p, a) = {}
    BY <1>4 DEF Users
  <2>2. Cardinality({}) = 0
    BY FS_EmptySet
  <2> QED BY <1>1, <2>1, <2>2, NoObjectIs DEF OpensCounted
<1>17. NoInvalidDelete
  BY <1>1 DEF NoInvalidDelete
<1> QED BY <1>3, <1>6, <1>7, <1>8, <1>9, <1>10, <1>11, <1>12, <1>13, <1>14, <1>15, <1>16, <1>17 DEF IInv

LEMMA NextKeeps ==
  ASSUME IInv, AppLocks = TRUE, Next
  PROVE  IInv'
<1> PICK t \in Thread :
      \/ Step(t) \/ close(t) \/ delete(t)
      \/ \E a \in Addr : create(t, a) \/ createWithoutMemory(t, a) \/ open(t, a)
  BY DEF Next
<1>1. CASE Step(t)
  BY <1>1, getFreeResourceKeeps, publishKeeps, fillKeeps, nameKeeps, openObjectKeeps,
     finalizeKeeps, deleteProxyKeeps, freeResourceKeeps DEF Step
<1>2. CASE close(t)
  BY <1>2, closeKeeps
<1>3. CASE delete(t)
  BY <1>3, deleteKeeps
<1>4. ASSUME NEW a \in Addr, create(t, a) \/ createWithoutMemory(t, a) \/ open(t, a)
      PROVE  IInv'
  BY <1>4, createKeeps, createWithoutMemoryKeeps, openKeeps
<1> QED BY <1>1, <1>2, <1>3, <1>4

LEMMA StutterKeeps ==
  ASSUME IInv, UNCHANGED vars
  PROVE  IInv'
<1>1. UNCHANGED <<inUse, status, arg, names, gates, obj, handle, pc, tAddr, asserts>>
  BY DEF vars, shared, local, thread
<1>2. \A t \in Thread : /\ Private(t)' <=> Private(t)
                        /\ Creating(t)' <=> Creating(t)
                        /\ Finalizing(t)' <=> Finalizing(t)
                        /\ Object(t)' = Object(t)
  BY <1>1 DEF Private, Creating, Finalizing, Object
<1>3. \A t \in Thread, a \in Addr : (Owner(t, a)' <=> Owner(t, a)) /\ (Created(t, a)' <=> Created(t, a))
  BY <1>1, <1>2 DEF Owner, Created
<1>4. TypeOK' /\ ThreadInv'
  BY <1>1 DEF IInv, TypeOK, ThreadInv
<1>5. OwnerInv' /\ VacantInv'
  BY <1>1, <1>3 DEF IInv, OwnerInv, VacantInv
<1>6. PrivateInv' /\ OpeningInv'
  BY <1>1, <1>2 DEF IInv, PrivateInv, OpeningInv
<1>7. CreatedInv' /\ OpenObjectInv'
  BY <1>1, <1>2, <1>3 DEF IInv, CreatedInv, OpenObjectInv
<1>8. ResourceInv'
  BY <1>1, <1>3 DEF IInv, ResourceInv
<1>9. UsedInv' /\ TableInv' /\ OpensCounted' /\ NoInvalidDelete'
  BY <1>1, ResourcesKept
<1> QED BY <1>4, <1>5, <1>6, <1>7, <1>8, <1>9 DEF IInv

-----------------------------------------------------------------------------
\* Every gate has one owner, and the counts, the table of remote gates and
\* the resource ids agree with it, whatever the processors do: GateMP_create,
\* GateMP_open, GateMP_close and GateMP_delete of GateMP.c step by step.  The
\* threads of one processor keep their opens and closes of a gate apart, as
\* GateMP_close needs it, which deletes the object after Hwi_restore.
THEOREM GateMPInvHolds ==
  ASSUME AppLocks = TRUE
  PROVE  Spec => []Inv
<1>1. Init => IInv
  BY InitIInv
<1>2. IInv /\ [Next]_vars => IInv'
  BY NextKeeps, StutterKeeps
<1>3. IInv => Inv
  BY DEF Inv
<1> QED BY <1>1, <1>2, <1>3, PTL DEF Spec

\* The handles of a remote gate lead to its own resource id.
LEMMA LockIs ==
  ASSUME IInv, NEW t \in Thread, Remote(t)
  PROVE  LET p == procOf[t]
             a == handle[t].gate
         IN  a \in Addr /\ Lock(t) \in Rid /\ Lock(t) = arg[a] /\ obj[p][a].objType # "none"
<1> USE Procs, Constants
<1>1. TypeOK /\ ThreadInv /\ handle[t].gate \notin LocalAddr /\ handle[t].kind # "none"
  BY HandleIs DEF IInv, Remote
<1>2. handle[t].kind \in {"created", "opened"} /\ handle[t].gate \in Addr
  BY <1>1, HandleTypes, HandleIs
<1>3. handle[t].gate \in names /\ obj[procOf[t]][handle[t].gate].objType # "none"
  <2>1. CASE handle[t].kind = "created"
    <3>1. Created(t, handle[t].gate)
      BY <2>1, <1>1, <1>2, HandleIs
    <3>2. Owner(t, handle[t].gate)
      BY <3>1 DEF Owner
    <3> QED BY <3>1, <3>2, <1>2 DEF CreatedInv, OwnerInv, IInv
  <2>2. CASE handle[t].kind = "opened"
    BY <2>2, UserIs
  <2> QED BY <2>1, <2>2, <1>2
<1> QED BY <1>1, <1>2, <1>3, ObjectOfCreated DEF Lock

\* Two handles lead to the same resource id, so to the same hardware lock or
\* shared words, exactly if they are of the same gate: what GateMP_create and
\* GateMP_open of GateMP.c promise to the threads of all processors.
THEOREM OneLockPerGateHolds ==
  ASSUME AppLocks = TRUE
  PROVE  Spec => []OneLockPerGate
<1>1. IInv => OneLockPerGate
  <2> SUFFICES ASSUME IInv, NEW t \in Thread, NEW u \in Thread, Remote(t), Remote(u)
               PROVE  /\ Lock(t) \in Rid
                      /\ handle[t].gate = handle[u].gate <=> Lock(t) = Lock(u)
    BY DEF OneLockPerGate
  <2> PICK r \in Rid : Lock(t) = r
    BY LockIs
  <2>1. /\ handle[t].gate \in Addr /\ handle[u].gate \in Addr
        /\ Lock(t) = arg[handle[t].gate] /\ Lock(u) = arg[handle[u].gate]
        /\ obj[procOf[t]][handle[t].gate].objType # "none"
        /\ obj[procOf[u]][handle[u].gate].objType # "none"
    BY LockIs
  <2>2. ASSUME Lock(t) = Lock(u)
        PROVE  handle[t].gate = handle[u].gate
    BY <2>1, <2>2, Procs, OneGate DEF Lock
  <2> QED BY <2>1, <2>2
<1>2. Spec => []IInv
  BY GateMPInvHolds DEF Inv
<1> QED BY <1>1, <1>2, PTL

\* A resource id is in use exactly if one creator has it, also after a
\* GateMP_create that failed halfway: GateMP_getFreeResource and
\* Instance_finalize of GateMP.c lose none and give none out twice.
THEOREM ResourcesAccountedHolds ==
  ASSUME AppLocks = TRUE
  PROVE  Spec => []ResourcesAccounted
<1>1. IInv => ResourcesAccounted
  <2> SUFFICES ASSUME IInv, NEW r \in Rid
               PROVE  Cardinality({x \in Proc \X Addr :
                                     /\ obj[x[1]][x[2]].objType = "create"
                                     /\ obj[x[1]][x[2]].resourceId = r})
                        = (IF inUse[r] = "USED" THEN 1 ELSE 0)
    BY DEF ResourcesAccounted
  <2> DEFINE S == {x \in Proc \X Addr : Holds(x[1], x[2], r)}
  <2>1. /\ inUse[r] = "USED" <=> \E p \in Proc, a \in Addr : Holds(p, a, r)
        /\ \A p, q \in Proc, a, c \in Addr : Holds(p, a, r) /\ Holds(q, c, r) => p = q /\ a = c
    BY DEF UsedInv, IInv
  <2>2. CASE inUse[r] = "USED"
    <3> PICK p \in Proc, a \in Addr : Holds(p, a, r)
      BY <2>1, <2>2
    <3>1. S = {<<p, a>>}
      BY <2>1
    <3>2. Cardinality({<<p, a>>}) = 1
      BY FS_Singleton
    <3> QED BY <2>2, <3>1, <3>2 DEF Holds
  <2>3. CASE inUse[r] # "USED"
    <3>1. S = {}
      BY <2>1, <2>3
    <3> QED BY <2>3, <3>1, FS_EmptySet DEF Holds
  <2> QED BY <2>2, <2>3
<1>2. Spec => []IInv
  BY GateMPInvHolds DEF Inv
<1> QED BY <1>1, <1>2, PTL
=============================================================================
