------------------------------ MODULE MessageQ ------------------------------
(***************************************************************************)
(* packages/ti/sdo/ipc/MessageQ.c: message queues of one cluster.  A queue *)
(* has a list of normal messages, one of high-priority and urgent ones and *)
(* a synchronizer; a thread reads it with MessageQ_get, and any thread of  *)
(* any processor puts messages to it.  The messages are the blocks of a    *)
(* HeapBufMP that all processors share.                                    *)
(*                                                                         *)
(* This module has the queues and the calls up to the point where a        *)
(* message leaves the processor; TransportShm.tla takes over from there.   *)
(***************************************************************************)
EXTENDS Naturals, Sequences

CONSTANTS
  Proc,      \* processors
  Queue,     \* message queues
  home,      \* home[q]: the processor of queue q
  Thread,    \* threads that use MessageQ
  procOf,    \* procOf[t]: the processor of thread t
  reads,     \* reads[t]: the queue that t reads, or None
  puts,      \* puts[t]: the queues that t puts messages to
  Msg,       \* blocks of the heap
  Priority,  \* priorities in use: "normal", "high", "urgent"
  None

ASSUME MessageQAssumption ==
  /\ home \in [Queue -> Proc] /\ procOf \in [Thread -> Proc]
  /\ reads \in [Thread -> Queue \cup {None}]
  /\ puts \in [Thread -> SUBSET Queue]
  /\ \A t \in Thread : reads[t] # None => home[reads[t]] = procOf[t]
  /\ \A t, u \in Thread : t # u /\ reads[t] # None => reads[t] # reads[u]
  /\ Priority \subseteq {"normal", "high", "urgent"}
  /\ None \notin Queue \cup Thread \cup Msg

VARIABLES
  freeList,   \* blocks on the free list of the heap
  header,     \* header[m]: destination and priority of a message
  highList, normalList,  \* of every queue
  signalled,  \* signalled[q]: the semaphore of the synchronizer
  unblocked,  \* unblocked[q]: the queue was unblocked
  pc,         \* pc[t]: where thread t is
  msg,        \* msg[t]: the message that t owns, or None
  queue,      \* queue[t]: the queue that t is about to signal, or None
  sent        \* history, sent[t]: <<m, n>> if t has put n, m is n or was put before
              \* it, and nobody has received either yet

heapVars == <<freeList>>
queueVars == <<highList, normalList, signalled, unblocked>>
threadVars == <<pc, msg, queue>>

Header == [dst : Queue \cup {None}, pri : Priority \cup {None}]
NoHeader == [dst |-> None, pri |-> None]

MessageQInit ==
  /\ freeList = Msg
  /\ header = [m \in Msg |-> NoHeader]
  /\ highList = [q \in Queue |-> <<>>] /\ normalList = [q \in Queue |-> <<>>]
  /\ signalled = [q \in Queue |-> "no"] /\ unblocked = [q \in Queue |-> "no"]
  /\ pc = [t \in Thread |-> "idle"]
  /\ msg = [t \in Thread |-> None] /\ queue = [t \in Thread |-> None]
  /\ sent = [t \in Thread |-> {}]

At(t, label) == pc[t] = label
Goto(t, label) == pc' = [pc EXCEPT ![t] = label]
Dst(m) == header[m].dst

SentBy(t) == {m \in Msg : <<m, m>> \in sent[t]}
Forget(m) == sent' = [t \in Thread |-> sent[t] \cap ((Msg \ {m}) \X (Msg \ {m}))]

-----------------------------------------------------------------------------
\* MessageQ_alloc takes a block, MessageQ_free gives it back.
MessageQ_alloc(t) ==
  /\ At(t, "idle") /\ msg[t] = None /\ puts[t] # {}
  /\ \E m \in freeList :
       /\ freeList' = freeList \ {m}
       /\ msg' = [msg EXCEPT ![t] = m]
       /\ header' = [header EXCEPT ![m] = NoHeader]
  /\ UNCHANGED <<queueVars, pc, queue, sent>>

MessageQ_free(t) ==
  /\ At(t, "idle") /\ msg[t] # None
  /\ freeList' = freeList \cup {msg[t]}
  /\ msg' = [msg EXCEPT ![t] = None]
  /\ header' = [header EXCEPT ![msg[t]] = NoHeader]
  /\ UNCHANGED <<queueVars, pc, queue, sent>>

\* MessageQ_put addresses the message and looks where the queue is.
MessageQ_put(t, q, pri) ==
  /\ At(t, "idle") /\ msg[t] # None /\ q \in puts[t]
  /\ header' = [header EXCEPT ![msg[t]] = [dst |-> q, pri |-> pri]]
  /\ sent' = [sent EXCEPT ![t] = @ \cup ((SentBy(t) \cup {msg[t]}) \X {msg[t]})]
  /\ Goto(t, IF home[q] = procOf[t] THEN "putLocal" ELSE "putRemote")
  /\ UNCHANGED <<heapVars, queueVars, msg, queue>>

\* Mutant of Enqueue: normal messages too are put at the head.
EnqueueHead(m) ==
  LET q == Dst(m) IN
  IF header[m].pri = "normal"
  THEN /\ normalList' = [normalList EXCEPT ![q] = <<m>> \o @]
       /\ UNCHANGED highList
  ELSE /\ highList' = [highList EXCEPT ![q] = <<m>> \o @]
       /\ UNCHANGED normalList

\* The delivery of MessageQ_put in the processor of the queue.
Enqueue(m) ==
  LET q == Dst(m) IN
  IF header[m].pri = "normal"
  THEN /\ normalList' = [normalList EXCEPT ![q] = Append(@, m)]
       /\ UNCHANGED highList
  ELSE /\ highList' = [highList EXCEPT
            ![q] = IF header[m].pri = "urgent" THEN <<m>> \o @ ELSE Append(@, m)]
       /\ UNCHANGED normalList

ISync_signal(q) == signalled' = [signalled EXCEPT ![q] = "yes"]

PutLocal(t) ==
  /\ At(t, "putLocal")
  /\ Enqueue(msg[t])
  /\ queue' = [queue EXCEPT ![t] = Dst(msg[t])]
  /\ msg' = [msg EXCEPT ![t] = None]
  /\ Goto(t, "signal")
  /\ UNCHANGED <<heapVars, header, signalled, unblocked, sent>>

\* The end of MessageQ_put and of MessageQ_unblock.
Signal(t) ==
  /\ At(t, "signal")
  /\ ISync_signal(queue[t])
  /\ queue' = [queue EXCEPT ![t] = None]
  /\ Goto(t, "idle")
  /\ UNCHANGED <<heapVars, header, highList, normalList, unblocked, msg, sent>>

-----------------------------------------------------------------------------
\* MessageQ_get.  After E_UNBLOCKED the queue is not used any more.
MessageQ_get(t) ==
  /\ At(t, "idle") /\ msg[t] = None /\ reads[t] # None
  /\ Goto(t, "getHigh")
  /\ UNCHANGED <<heapVars, header, queueVars, msg, queue, sent>>

\* A message that was taken is returned.
Got(t, m) ==
  /\ msg' = [msg EXCEPT ![t] = m]
  /\ header' = [header EXCEPT ![m] = NoHeader]
  /\ Forget(m)
  /\ Goto(t, "idle")

GetHigh(t) ==
  LET q == reads[t] IN
  /\ At(t, "getHigh")
  /\ IF highList[q] = <<>>
     THEN Goto(t, "getNormal") /\ UNCHANGED <<highList, header, msg, sent>>
     ELSE Got(t, Head(highList[q])) /\ highList' = [highList EXCEPT ![q] = Tail(@)]
  /\ UNCHANGED <<heapVars, normalList, signalled, unblocked, queue>>

GetNormal(t) ==
  LET q == reads[t] IN
  /\ At(t, "getNormal")
  /\ IF normalList[q] = <<>>
     THEN Goto(t, "wait") /\ UNCHANGED <<normalList, header, msg, sent>>
     ELSE Got(t, Head(normalList[q])) /\ normalList' = [normalList EXCEPT ![q] = Tail(@)]
  /\ UNCHANGED <<heapVars, highList, signalled, unblocked, queue>>

\* ISync_wait returns when the synchronizer is signalled, or after the timeout.
Wait(t) ==
  LET q == reads[t] IN
  /\ At(t, "wait") /\ signalled[q] = "yes"
  /\ signalled' = [signalled EXCEPT ![q] = "no"]
  /\ Goto(t, "woken")
  /\ UNCHANGED <<heapVars, header, highList, normalList, unblocked, msg, queue, sent>>

Timeout(t) ==
  /\ At(t, "wait")
  /\ Goto(t, "idle")
  /\ UNCHANGED <<heapVars, header, queueVars, msg, queue, sent>>

\* Mutant of Woken: the queue may have been unblocked, but that is not looked at.
WokenBlind(t) ==
  /\ At(t, "woken")
  /\ Goto(t, "getHigh")
  /\ UNCHANGED <<heapVars, header, queueVars, msg, queue, sent>>

\* E_UNBLOCKED, or the next turn of the loop.
Woken(t) ==
  /\ At(t, "woken")
  /\ Goto(t, IF unblocked[reads[t]] = "yes" THEN "done" ELSE "getHigh")
  /\ UNCHANGED <<heapVars, header, queueVars, msg, queue, sent>>

\* MessageQ_unblock, by another thread of the processor: the flag first, then
\* the signal.
MessageQ_unblock(t, q) ==
  /\ At(t, "idle") /\ reads[t] # q /\ home[q] = procOf[t]
  /\ unblocked[q] = "no"
  /\ unblocked' = [unblocked EXCEPT ![q] = "yes"]
  /\ queue' = [queue EXCEPT ![t] = q]
  /\ Goto(t, "signal")
  /\ UNCHANGED <<heapVars, header, highList, normalList, signalled, msg, sent>>
=============================================================================
