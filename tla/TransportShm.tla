---------------------------- MODULE TransportShm ----------------------------
(***************************************************************************)
(* packages/ti/sdo/ipc/transports/TransportShm.c between two processors,   *)
(* under the queues of MessageQ.tla.  A message for the other processor is *)
(* put on a ListMP in shared memory, under a GateMP, and announced with a  *)
(* Notify event; there the callback of the event posts a swi that drains   *)
(* the list into the queues.                                               *)
(*                                                                         *)
(* ListMP is the atomic list of IListMP.tla, and a Notify event is a flag  *)
(* that the interrupt clears before the callback runs (NotifyDriverShm).   *)
(* A swi runs to its end before the threads of its processor go on, and    *)
(* does not start while one of them is in the gate (local protection       *)
(* TASKLET).                                                               *)
(***************************************************************************)
EXTENDS MessageQ, FiniteSets

CONSTANT Other(_)   \* the other processor

ASSUME OtherAssumption == \A p \in Proc : Other(p) \in Proc /\ Other(p) # p

VARIABLES
  registered, \* processors with an instance: their event has a callback
  list,       \* list[p]: the shared list of the messages for p
  gate,       \* owner of the gate of the lists: a thread or None
  event,      \* event[p]: the Notify event of p
  swi,        \* swi[p]: "idle", or where the swi of p is
  posted,     \* posted[p]: the swi is posted
  swiMsg,     \* swiMsg[p]: the message in the hands of the swi, or None
  swiQueue    \* swiQueue[p]: the queue that the swi is about to signal, or None

linkVars == <<registered, list, gate, event>>
swiVars == <<swi, posted, swiMsg, swiQueue>>
mqVars == <<heapVars, header, queueVars, threadVars, sent>>
vars == <<mqVars, linkVars, swiVars>>

Init ==
  /\ MessageQInit
  /\ registered = {}
  /\ list = [p \in Proc |-> <<>>]
  /\ gate = None
  /\ event = [p \in Proc |-> "down"]
  /\ swi = [p \in Proc |-> "idle"]
  /\ posted = [p \in Proc |-> "no"]
  /\ swiMsg = [p \in Proc |-> None] /\ swiQueue = [p \in Proc |-> None]

\* A thread runs when no swi of its processor does.
MayRun(t) == swi[procOf[t]] = "idle"

\* The gate, free or in the hands of t.
GateFor(t) == gate \in {None, t}

-----------------------------------------------------------------------------
\* TransportShm_Instance_init on one of the processors.
Instance_init(p) ==
  /\ p \notin registered
  /\ registered' = registered \cup {p}
  /\ UNCHANGED <<mqVars, list, gate, event, swiVars>>

\* TransportShm_put: "make sure ListMP_put and sendEvent are done before remote
\* executes".
PutEnter(t) ==
  /\ At(t, "putRemote") /\ gate = None
  /\ gate' = t
  /\ Goto(t, "putTail")
  /\ UNCHANGED <<heapVars, header, queueVars, msg, queue, sent, registered, list, event, swiVars>>

PutTail(t) ==
  LET p == Other(procOf[t]) IN
  /\ At(t, "putTail") /\ GateFor(t)
  /\ list' = [list EXCEPT ![p] = Append(@, msg[t])]
  /\ Goto(t, "sendEvent")
  /\ UNCHANGED <<heapVars, header, queueVars, msg, queue, sent, registered, gate, event, swiVars>>

\* Notify_sendEvent, which fails while the other processor has no callback.
SendEvent(t) ==
  LET p == Other(procOf[t]) IN
  /\ At(t, "sendEvent")
  /\ IF p \in registered
     THEN /\ event' = [event EXCEPT ![p] = "up"]
          /\ msg' = [msg EXCEPT ![t] = None]
          /\ Goto(t, "putLeave")
     ELSE Goto(t, "putRemove") /\ UNCHANGED <<event, msg>>
  /\ UNCHANGED <<heapVars, header, queueVars, queue, sent, registered, list, gate, swiVars>>

\* Mutant of PutRemove: the put fails, but the message stays on the list.
PutRemoveForgotten(t) ==
  /\ At(t, "putRemove")
  /\ Forget(msg[t])
  /\ Goto(t, "putLeave")
  /\ UNCHANGED <<heapVars, header, queueVars, msg, queue, linkVars, swiVars>>

\* ListMP_remove takes one element out.
Without(s, i) == [j \in 1..(Len(s) - 1) |-> IF j < i THEN s[j] ELSE s[j + 1]]

\* "remove the message from the List and return 'FALSE'".
PutRemove(t) ==
  LET p == Other(procOf[t]) IN
  /\ At(t, "putRemove") /\ GateFor(t)
  /\ \E i \in DOMAIN list[p] :
       list[p][i] = msg[t] /\ list' = [list EXCEPT ![p] = Without(@, i)]
  /\ Forget(msg[t])
  /\ Goto(t, "putLeave")
  /\ UNCHANGED <<heapVars, header, queueVars, msg, queue, registered, gate, event, swiVars>>

PutLeave(t) ==
  /\ At(t, "putLeave")
  /\ gate' = None
  /\ Goto(t, "idle")
  /\ UNCHANGED <<heapVars, header, queueVars, msg, queue, sent, registered, list, event, swiVars>>

-----------------------------------------------------------------------------
\* The interrupt: TransportShm_notifyFxn posts the swi.
TransportShm_notifyFxn(p) ==
  /\ event[p] = "up"
  /\ event' = [event EXCEPT ![p] = "down"]
  /\ posted' = [posted EXCEPT ![p] = "yes"]
  /\ UNCHANGED <<mqVars, registered, list, gate, swi, swiMsg, swiQueue>>

SwiStart(p) ==
  /\ swi[p] = "idle" /\ posted[p] = "yes"
  /\ \A t \in Thread : gate = t => procOf[t] # p
  /\ posted' = [posted EXCEPT ![p] = "no"]
  /\ swi' = [swi EXCEPT ![p] = "get"]
  /\ UNCHANGED <<mqVars, linkVars, swiMsg, swiQueue>>

\* TransportShm_swiFxn: ListMP_getHead, in the gate, until the list is empty.
SwiGet(p) ==
  /\ swi[p] = "get" /\ gate = None
  /\ IF list[p] = <<>>
     THEN swi' = [swi EXCEPT ![p] = "idle"] /\ UNCHANGED <<list, swiMsg>>
     ELSE /\ swiMsg' = [swiMsg EXCEPT ![p] = Head(list[p])]
          /\ list' = [list EXCEPT ![p] = Tail(@)]
          /\ swi' = [swi EXCEPT ![p] = "put"]
  /\ UNCHANGED <<mqVars, registered, gate, event, posted, swiQueue>>

\* MessageQ_put of the swi, always local.
SwiPut(p) ==
  /\ swi[p] = "put"
  /\ Enqueue(swiMsg[p])
  /\ swiQueue' = [swiQueue EXCEPT ![p] = Dst(swiMsg[p])]
  /\ swiMsg' = [swiMsg EXCEPT ![p] = None]
  /\ swi' = [swi EXCEPT ![p] = "signal"]
  /\ UNCHANGED <<heapVars, header, signalled, unblocked, threadVars, sent, linkVars, posted>>

\* Mutant of SwiNext: one message for each post of the swi.
SwiNextOne == "idle"
SwiNext == "get"

SwiSignal(p) ==
  /\ swi[p] = "signal"
  /\ ISync_signal(swiQueue[p])
  /\ swiQueue' = [swiQueue EXCEPT ![p] = None]
  /\ swi' = [swi EXCEPT ![p] = SwiNext]
  /\ UNCHANGED <<heapVars, header, highList, normalList, unblocked, threadVars, sent, linkVars, posted, swiMsg>>

-----------------------------------------------------------------------------
Local(t) ==
  /\ MayRun(t)
  /\ \/ MessageQ_alloc(t) \/ MessageQ_free(t)
     \/ \E q \in Queue : \E pri \in Priority :
          (home[q] # procOf[t] => procOf[t] \in registered) /\ MessageQ_put(t, q, pri)
     \/ PutLocal(t) \/ Signal(t)
     \/ MessageQ_get(t) \/ GetHigh(t) \/ GetNormal(t) \/ Wait(t) \/ Timeout(t) \/ Woken(t)
     \/ \E q \in Queue : MessageQ_unblock(t, q)
  /\ UNCHANGED <<linkVars, swiVars>>

Remote(t) ==
  MayRun(t) /\ (PutEnter(t) \/ PutTail(t) \/ SendEvent(t) \/ PutRemove(t) \/ PutLeave(t))

Swi(p) == SwiStart(p) \/ SwiGet(p) \/ SwiPut(p) \/ SwiSignal(p)

Next ==
  \/ \E t \in Thread : Local(t) \/ Remote(t)
  \/ \E p \in Proc : Instance_init(p) \/ TransportShm_notifyFxn(p) \/ Swi(p)

Spec == Init /\ [][Next]_vars

-----------------------------------------------------------------------------
InSeq(m, s) == \E i \in DOMAIN s : s[i] = m

PutLabel == {"putLocal", "putRemote", "putTail", "sendEvent", "putRemove"}
GetLabel == {"getHigh", "getNormal", "wait", "woken", "done"}
InGate == {"putTail", "sendEvent", "putRemove", "putLeave"}

TypeOK ==
  /\ freeList \subseteq Msg
  /\ header \in [Msg -> Header]
  /\ highList \in [Queue -> Seq(Msg)] /\ normalList \in [Queue -> Seq(Msg)]
  /\ signalled \in [Queue -> {"no", "yes"}] /\ unblocked \in [Queue -> {"no", "yes"}]
  /\ pc \in [Thread -> {"idle", "signal"} \cup PutLabel \cup GetLabel \cup InGate]
  /\ msg \in [Thread -> Msg \cup {None}] /\ queue \in [Thread -> Queue \cup {None}]
  /\ list \in [Proc -> Seq(Msg)]
  /\ swiMsg \in [Proc -> Msg \cup {None}] /\ swiQueue \in [Proc -> Queue \cup {None}]
  /\ registered \subseteq Proc /\ gate \in Thread \cup {None}
  /\ event \in [Proc -> {"up", "down"}]
  /\ swi \in [Proc -> {"idle", "get", "put", "signal"}]
  /\ posted \in [Proc -> {"no", "yes"}]

\* Where a message is: in the heap, with a thread or a swi, or at a place of a
\* list.  A thread that puts it has given it away once it is on the list.
Places(m) ==
  {<<"heap", m>> : x \in freeList \cap {m}}
    \cup {<<"thread", t>> : t \in {u \in Thread :
            msg[u] = m /\ pc[u] \notin {"sendEvent", "putRemove"}}}
    \cup {<<"swi", p>> : p \in {r \in Proc : swiMsg[r] = m}}
    \cup (UNION {{<<"list", p, i>> : i \in {j \in DOMAIN list[p] : list[p][j] = m}} : p \in Proc})
    \cup (UNION {{<<"high", q, i>> : i \in {j \in DOMAIN highList[q] : highList[q][j] = m}} : q \in Queue})
    \cup (UNION {{<<"normal", q, i>> : i \in {j \in DOMAIN normalList[q] : normalList[q][j] = m}} : q \in Queue})

\* Every block is at one place: no message is lost, delivered twice, or used
\* by its sender after a put that succeeded; after one that failed it is the
\* sender's again and not delivered.
OnePlace == \A m \in Msg : Cardinality(Places(m)) = 1

\* m is ahead of n on the way that both take: on the list of the link of t or in
\* the swi at its end, in the queue behind it, or in the same list of a queue,
\* where an urgent message is not counted.
Precedes(s, m, n) == \E i, j \in DOMAIN s : i < j /\ s[i] = m /\ s[j] = n
InQueue(q, m) == InSeq(m, highList[q]) \/ InSeq(m, normalList[q])
OnLink(p, m) == swiMsg[p] = m \/ InSeq(m, list[p])
Ahead(t, m, n) ==
  LET p == Other(procOf[t]) IN
  \/ Precedes(list[p], m, n)
  \/ swiMsg[p] = m /\ InSeq(n, list[p])
  \/ \E q \in Queue :
       \/ home[q] # procOf[t] /\ InQueue(q, m) /\ OnLink(p, n)
       \/ Precedes(normalList[q], m, n)
       \/ header[m].pri # "urgent" /\ Precedes(highList[q], m, n)

\* What one thread puts to one queue with one priority arrives in that order;
\* only an urgent message overtakes, and it not on the link.
InOrder ==
  \A t \in Thread : \A m, n \in SentBy(t) :
    Ahead(t, m, n) => <<n, m>> \notin sent[t]

\* While messages wait in shared memory their processor will look: the event or
\* the swi is pending or the swi runs, or the sender is about to send the event.
DoorbellRung ==
  \A p \in Proc :
    list[p] # <<>> =>
      \/ event[p] = "up" \/ posted[p] = "yes" \/ swi[p] # "idle"
      \/ \E t \in Thread : Other(procOf[t]) = p /\ pc[t] \in {"sendEvent", "putRemove"}

\* A thread does not sleep in MessageQ_get while its queue has a message or is
\* unblocked: its synchronizer is signalled, or somebody is about to do that.
ReaderWoken ==
  \A t \in Thread :
    LET q == reads[t] IN
    At(t, "wait") /\ (highList[q] # <<>> \/ normalList[q] # <<>> \/ unblocked[q] = "yes") =>
      \/ signalled[q] = "yes"
      \/ \E u \in Thread : queue[u] = q
      \/ \E p \in Proc : swiQueue[p] = q

-----------------------------------------------------------------------------
\* What the two wake-ups rest on.  Whoever puts or gets has what it needs for
\* that, and nobody but a thread at "signal" is about to signal a queue.
OwnInv ==
  /\ \A t \in Thread :
       /\ pc[t] \in PutLabel => msg[t] # None
       /\ pc[t] \in GetLabel => reads[t] # None
       /\ queue[t] # None => pc[t] = "signal"
  /\ \A p \in Proc :
       /\ swi[p] = "put" => swiMsg[p] # None
       /\ swiQueue[p] # None => swi[p] = "signal"

\* The gate of the lists keeps the threads apart.
HolderInv == \A t \in Thread : pc[t] \in InGate <=> gate = t

\* A message that meets no instance at the other side is alone on its list until
\* it is taken off, and there is no other message for that side.
AloneInv ==
  \A t \in Thread :
    LET p == Other(procOf[t]) IN
    pc[t] = "putRemove" \/ (pc[t] = "sendEvent" /\ p \notin registered) =>
      list[p] = <<msg[t]>>
UnheardInv ==
  \A p \in Proc \ registered :
    list[p] # <<>> =>
      \E t \in Thread : Other(procOf[t]) = p /\ pc[t] \in {"sendEvent", "putRemove"}

GateInv == HolderInv /\ AloneInv /\ UnheardInv

\* Somebody has signalled q or is about to.
Covered(q) ==
  \/ signalled[q] = "yes"
  \/ \E u \in Thread : queue[u] = q
  \/ \E p \in Proc : swiQueue[p] = q

\* A reader that has looked at a list and found it empty does not miss what
\* comes after, and one whose queue is unblocked will learn it.
WakeInv ==
  \A t \in Thread :
    LET q == reads[t] IN
    q # None =>
      /\ pc[t] \in {"getNormal", "wait"} /\ highList[q] # <<>> => Covered(q)
      /\ pc[t] = "wait" /\ normalList[q] # <<>> => Covered(q)
      /\ unblocked[q] = "yes" => Covered(q) \/ pc[t] \in {"woken", "done"}

\* The inductive invariant of TransportShm_put, the swi and MessageQ_get.
IInv == TypeOK /\ OwnInv /\ GateInv /\ DoorbellRung /\ WakeInv

\* Whatever is on its way to a queue has a queue as its destination, until the
\* reader has it: nobody clears the header of a message that he gave away.
AddressInv ==
  /\ \A t \in Thread :
       pc[t] \in {"putLocal", "putRemote", "putTail"} => Dst(msg[t]) \in Queue
  /\ \A p \in Proc : \A i \in DOMAIN list[p] : Dst(list[p][i]) \in Queue
  /\ \A p \in Proc : swiMsg[p] # None => Dst(swiMsg[p]) \in Queue

\* A thread in MessageQ_get has no message of its own, and the swi only the one
\* that it is about to put.
HandsInv ==
  /\ \A t \in Thread : pc[t] \in GetLabel => msg[t] = None
  /\ \A p \in Proc : swiMsg[p] # None => swi[p] = "put"

\* While the sender is in the gate, the message that it announces is on its list.
ListedInv ==
  \A t \in Thread :
    pc[t] \in {"sendEvent", "putRemove"} => InSeq(msg[t], list[Other(procOf[t])])

\* The messages in the heap and with threads are not on their way, but for the one
\* that its thread puts, and that is the last that it has put.
Addressed(t) == pc[t] \in {"putLocal", "putRemote", "putTail"}
SentInv ==
  /\ sent \in [Thread -> SUBSET (Msg \X Msg)]
  /\ \A t \in Thread :
       /\ \A pair \in sent[t] : pair \in SentBy(t) \X SentBy(t)
       /\ freeList \cap SentBy(t) = {}
       /\ \A u \in Thread : msg[u] \in SentBy(t) => u = t /\ pc[u] \in PutLabel
  /\ \A t \in Thread : Addressed(t) =>
       \A n \in Msg : <<msg[t], n>> \in sent[t] => n = msg[t]

\* A thread puts to a queue of its own processor without the link, and to the
\* others through one link.
RouteInv ==
  \A t \in Thread :
    /\ Addressed(t) => (pc[t] = "putLocal" <=> home[Dst(msg[t])] = procOf[t])
    /\ \A p \in Proc : \A m \in SentBy(t) :
         OnLink(p, m) => p = Other(procOf[t]) /\ home[Dst(m)] # procOf[t]

OrderInv == SentInv /\ RouteInv /\ InOrder

\* It, the addresses, the order, and every message at one place (MessageQ_put to
\* MessageQ_free).
Inv == IInv /\ HandsInv /\ AddressInv /\ ListedInv /\ OrderInv /\ OnePlace
=============================================================================
