----------------------------- MODULE RPMessage -----------------------------
(***************************************************************************)
(* packages/ti/ipc/rpmsg/RPMessage.c: the endpoints of a slave, over the   *)
(* vrings of VirtQueue.tla.  Threads of the slave send to the host and to  *)
(* each other, and receive; a swi empties the buffers from the host into   *)
(* the queues of the endpoints.                                            *)
(*                                                                         *)
(* The slave has one core: interrupts preempt the swi and the threads, the *)
(* swi preempts the threads, and a gate (GateHwi) keeps all of them out.   *)
(***************************************************************************)
EXTENDS VirtQueue, FiniteSets

CONSTANTS
  Thread,     \* threads of the slave
  owner,      \* owner[e]: the thread that creates, reads and deletes endpoint e
  sends,      \* sends[t]: endpoints that t sends to; None is one of the host
  HeapSize,   \* blocks of the heap of the endpoints
  Swi         \* the swi, as a sender of messages

Agent == Thread \cup {Swi}

ASSUME RPMessageAssumption ==
  /\ owner \in [Endpoint -> Thread]
  /\ sends \in [Thread -> SUBSET (Endpoint \cup {None})]
  /\ HeapSize \in Nat
  /\ Swi \notin Thread /\ None \notin Endpoint \cup Agent \cup Buffer

VARIABLES
  object,    \* object[e]: "none", "queue", "callback" or "gone" (deleted, but
             \* still in its slot)
  semaphore, \* semaphore[e]: count of semHandle
  messages,  \* messages[e]: the queue
  unblocked, \* unblocked[e]
  heap,      \* free blocks of the heap
  toHost,    \* semHandle_toHost, a binary semaphore
  posted,    \* the swi is posted
  usedBufAdded, \* local variable of the swi, "no" when it starts
  pc,        \* pc[a]: where agent a is
  token,     \* token[a]: the buffer that a has taken from its vring, or None
  item,      \* item[a]: the message that a sends: an id of the host, or 0
  dst        \* dst[a]: the endpoint that a sends to, reads or unblocks

endpointVars == <<object, semaphore, messages, unblocked, heap>>
agentVars == <<pc, token, item, dst>>
transportVars == <<toHost, posted, usedBufAdded>>
vars == <<vqVars, endpointVars, agentVars, transportVars>>

Init ==
  /\ VirtQueueInit
  /\ object = [e \in Endpoint |-> "none"]
  /\ semaphore = [e \in Endpoint |-> 0]
  /\ messages = [e \in Endpoint |-> <<>>]
  /\ unblocked = [e \in Endpoint |-> "no"]
  /\ heap = HeapSize /\ toHost = 0 /\ posted = "no" /\ usedBufAdded = "no"
  /\ pc = [a \in Agent |-> "idle"] /\ token = [a \in Agent |-> None]
  /\ item = [a \in Agent |-> 0] /\ dst = [a \in Agent |-> None]

At(a, label) == pc[a] = label
Goto(a, label) == pc' = [pc EXCEPT ![a] = label]
\* What was sent, read or deleted is forgotten when the agent is done with it.
Finish(a, label) ==
  /\ Goto(a, label)
  /\ IF label \in {"idle", "addUsedBuf"}
     THEN item' = [item EXCEPT ![a] = 0] /\ dst' = [dst EXCEPT ![a] = None]
     ELSE UNCHANGED <<item, dst>>
VringOf(a) == IF a = Swi THEN "fromHost" ELSE "toHost"

\* Who may run: the core is the agent's, and nobody else is in the gate.
InGate(a) == At(a, "look")
MayRun(a) ==
  /\ \A b \in Agent : InGate(b) => a = b
  /\ a \in Thread => At(Swi, "idle")
IsrMayRun == \A a \in Agent : ~InGate(a)

-----------------------------------------------------------------------------
\* VirtQueue_getAvailBuf, for a message to the host or in the swi.
GetAvailBuf(a) ==
  /\ At(a, "getAvailBuf")
  /\ EnableNotify(VringOf(a))
  /\ Goto(a, "look")
  /\ UNCHANGED <<avail, used, mailbox, hostKicked, hostVars, data, endpointVars,
                 token, item, dst, transportVars>>

\* Mutant of SwiEnd: the host is not told about the last buffers.
SwiEndQuiet == "idle"

\* The end of RPMessage_swiFxn: "Tell host we've processed the buffers".
SwiEnd == IF usedBufAdded = "yes" THEN "kick" ELSE "idle"

\* The second half of VirtQueue_getAvailBuf: the swi has a message to deliver, a
\* thread a buffer to fill, or there is none.
Look(a) ==
  LET v == VringOf(a) IN
  /\ At(a, "look")
  /\ IF Available(v)
     THEN /\ TakeAvail(v)
          /\ token' = [token EXCEPT ![a] = Head(avail[v])]
          /\ IF a = Swi
             THEN /\ item' = [item EXCEPT ![a] = data[Head(avail[v])].id]
                  /\ dst' = [dst EXCEPT ![a] = data[Head(avail[v])].dst]
                  /\ Goto(a, "lookup")
             ELSE Goto(a, "addUsedBuf") /\ UNCHANGED <<item, dst>>
     ELSE /\ Goto(a, IF a = Swi THEN SwiEnd ELSE "starved")
          /\ UNCHANGED <<avail, noNotify, token, item, dst>>
  /\ UNCHANGED <<used, mailbox, hostKicked, hostVars, data, endpointVars, transportVars>>

\* What was in a buffer of the host is forgotten.
AddUsedBuf(a) ==
  /\ At(a, "addUsedBuf")
  /\ VirtQueue_addUsedBuf(VringOf(a), token[a])
  /\ token' = [token EXCEPT ![a] = None]
  /\ usedBufAdded' = IF a = Swi THEN "yes" ELSE usedBufAdded
  /\ data' = IF a = Swi THEN [data EXCEPT ![token[a]] = None] ELSE data
  /\ Goto(a, IF a = Swi THEN "getAvailBuf" ELSE "kick")
  /\ UNCHANGED <<avail, noNotify, mailbox, hostKicked, hostVars, endpointVars,
                 item, dst, toHost, posted>>

\* The last step of the swi, whose local variable ends with it, or of a thread.
Kick(a) ==
  /\ At(a, "kick")
  /\ VirtQueue_kick(VringOf(a))
  /\ usedBufAdded' = IF a = Swi THEN "no" ELSE usedBufAdded
  /\ Goto(a, "idle")
  /\ UNCHANGED <<slaveVars, mailbox, hostVars, data, endpointVars, token, item, dst,
                 toHost, posted>>

\* A thread that found no buffer waits in Semaphore_pend and tries again.
Starved(t) ==
  /\ At(t, "starved") /\ toHost = 1
  /\ toHost' = 0
  /\ Goto(t, "getAvailBuf")
  /\ UNCHANGED <<vqVars, endpointVars, token, item, dst, posted, usedBufAdded>>

\* Semaphore_post of semHandle_toHost, Semaphore_Mode_BINARY.
ToHostPosted == 1

\* VirtQueue_isr and callback_availBufReady.
VirtQueue_isr ==
  /\ mailbox # <<>>
  /\ mailbox' = Tail(mailbox)
  /\ IF Head(mailbox) = "fromHost"
     THEN posted' = "yes" /\ UNCHANGED toHost
     ELSE toHost' = ToHostPosted /\ UNCHANGED posted
  /\ UNCHANGED <<slaveVars, hostKicked, hostVars, data, endpointVars, agentVars, usedBufAdded>>

\* RPMessage_swiFxn starts.
RPMessage_swiFxn ==
  /\ At(Swi, "idle") /\ posted = "yes"
  /\ posted' = "no"
  /\ Goto(Swi, "getAvailBuf")
  /\ UNCHANGED <<vqVars, endpointVars, token, item, dst, toHost, usedBufAdded>>

-----------------------------------------------------------------------------
\* RPMessage_send of a thread.
RPMessage_send(t, e) ==
  /\ At(t, "idle") /\ e \in sends[t]
  /\ dst' = [dst EXCEPT ![t] = e] /\ item' = [item EXCEPT ![t] = 0]
  /\ Goto(t, IF e = None THEN "getAvailBuf" ELSE "lookup")
  /\ UNCHANGED <<vqVars, endpointVars, token, transportVars>>

\* After a local send: the swi gives the buffer back, a thread returns.
Sent(a) == IF a = Swi THEN "addUsedBuf" ELSE "idle"

\* The endpoint is looked up in the gate and used outside of it: a callback has
\* the message at once, for a queue HeapBuf_alloc takes a block.  The message is
\* dropped when there is no endpoint or no block.
Lookup(a) ==
  LET e == dst[a]
      queued == object[e] = "queue" /\ heap > 0
  IN
  /\ At(a, "lookup")
  /\ heap' = IF queued THEN heap - 1 ELSE heap
  /\ Finish(a, IF queued THEN "put" ELSE Sent(a))
  /\ UNCHANGED <<vqVars, object, semaphore, messages, unblocked,
                 token, transportVars>>

\* Mutant of Put: at the head of the queue.
PutHead(a) ==
  /\ At(a, "put")
  /\ messages' = [messages EXCEPT ![dst[a]] = <<item[a]>> \o @]
  /\ Goto(a, "post")
  /\ UNCHANGED <<vqVars, object, semaphore, unblocked, heap,
                 token, item, dst, transportVars>>

Put(a) ==
  /\ At(a, "put")
  /\ messages' = [messages EXCEPT ![dst[a]] = Append(@, item[a])]
  /\ Goto(a, "post")
  /\ UNCHANGED <<vqVars, object, semaphore, unblocked, heap,
                 token, item, dst, transportVars>>

\* The end of a local RPMessage_send and of RPMessage_unblock.
Post(a) ==
  /\ At(a, "post")
  /\ semaphore' = [semaphore EXCEPT ![dst[a]] = @ + 1]
  /\ Finish(a, Sent(a))
  /\ UNCHANGED <<vqVars, object, messages, unblocked, heap,
                 token, transportVars>>

-----------------------------------------------------------------------------
\* RPMessage_create, without or with a callback.
RPMessage_create(t, e) ==
  /\ At(t, "idle") /\ owner[e] = t /\ object[e] = "none"
  /\ \E o \in {"queue", "callback"} : object' = [object EXCEPT ![e] = o]
  /\ semaphore' = [semaphore EXCEPT ![e] = 0]
  /\ unblocked' = [unblocked EXCEPT ![e] = "no"]
  /\ UNCHANGED <<vqVars, messages, heap, agentVars, transportVars>>

\* RPMessage_recv: "Check vring for pending messages before we block".
RPMessage_recv(t, e) ==
  /\ At(t, "idle") /\ owner[e] = t /\ object[e] = "queue"
  /\ posted' = "yes"
  /\ dst' = [dst EXCEPT ![t] = e]
  /\ Goto(t, "pend")
  /\ UNCHANGED <<vqVars, endpointVars, token, item, toHost, usedBufAdded>>

Pend(t) ==
  /\ At(t, "pend") /\ semaphore[dst[t]] > 0
  /\ semaphore' = [semaphore EXCEPT ![dst[t]] = @ - 1]
  /\ Goto(t, "woken")
  /\ UNCHANGED <<vqVars, object, messages, unblocked, heap,
                 token, item, dst, transportVars>>

Timeout(t) ==
  /\ At(t, "pend")
  /\ Finish(t, "idle")
  /\ UNCHANGED <<vqVars, endpointVars, token, transportVars>>

\* E_UNBLOCKED, or List_get; the block goes back to the heap.
Woken(t) ==
  LET e == dst[t] IN
  /\ At(t, "woken")
  /\ IF unblocked[e] = "yes" THEN UNCHANGED <<messages, heap>>
     ELSE /\ messages[e] # <<>>
          /\ messages' = [messages EXCEPT ![e] = Tail(@)]
          /\ heap' = heap + 1
  /\ Finish(t, "idle")
  /\ UNCHANGED <<vqVars, object, semaphore, unblocked, token, transportVars>>

\* Mutant of RPMessage_unblock: the semaphore is posted, but nothing is noted.
RPMessage_unblockSilent(t, e) ==
  /\ At(t, "idle") /\ owner[e] # t /\ object[e] = "queue"
  /\ unblocked[e] = "no"
  /\ dst' = [dst EXCEPT ![t] = e]
  /\ Goto(t, "post")
  /\ UNCHANGED <<vqVars, endpointVars, token, item, transportVars>>

\* RPMessage_unblock of another thread, once.
RPMessage_unblock(t, e) ==
  /\ At(t, "idle") /\ owner[e] # t /\ object[e] = "queue"
  /\ unblocked[e] = "no"
  /\ unblocked' = [unblocked EXCEPT ![e] = "yes"]
  /\ dst' = [dst EXCEPT ![t] = e]
  /\ Goto(t, "post")
  /\ UNCHANGED <<vqVars, object, semaphore, messages, heap, token, item, transportVars>>

-----------------------------------------------------------------------------
\* A message for e is on its way, or somebody is about to use the object.
InRing(e) == \E i \in DOMAIN avail["fromHost"] : data[avail["fromHost"][i]].dst = e
InUse(e) ==
  \/ InRing(e)
  \/ \E a \in Agent : dst[a] = e /\ pc[a] \in {"lookup", "put", "post"}

\* RPMessage_delete, when no message for the endpoint is under way: it deletes
\* the semaphore, the messages and the queue, then it clears the slot.
RPMessage_delete(t, e) ==
  /\ At(t, "idle") /\ owner[e] = t /\ object[e] \in {"queue", "callback"} /\ ~InUse(e)
  /\ object' = [object EXCEPT ![e] = "gone"]
  /\ semaphore' = [semaphore EXCEPT ![e] = 0]
  /\ heap' = heap + Len(messages[e])
  /\ messages' = [messages EXCEPT ![e] = <<>>]
  /\ dst' = [dst EXCEPT ![t] = e]
  /\ Goto(t, "nullSlot")
  /\ UNCHANGED <<vqVars, unblocked, token, item, transportVars>>

\* The slot is cleared and the object freed.
NullSlot(t) ==
  /\ At(t, "nullSlot")
  /\ object' = [object EXCEPT ![dst[t]] = "none"]
  /\ unblocked' = [unblocked EXCEPT ![dst[t]] = "no"]
  /\ Finish(t, "idle")
  /\ UNCHANGED <<vqVars, semaphore, messages, heap, token, transportVars>>

-----------------------------------------------------------------------------
\* Nobody sends to an endpoint that is being deleted.
MaySendTo(e) == object[e] # "gone"

ThreadStep(t) ==
  \/ \E e \in sends[t] : (e # None => MaySendTo(e)) /\ RPMessage_send(t, e)
  \/ \E e \in Endpoint :
       \/ RPMessage_create(t, e) \/ RPMessage_recv(t, e)
       \/ e \in sends[t] /\ RPMessage_unblock(t, e)
       \/ RPMessage_delete(t, e)
  \/ Starved(t) \/ Pend(t) \/ Timeout(t) \/ Woken(t) \/ NullSlot(t)

AgentStep(a) ==
  \/ GetAvailBuf(a) \/ Look(a) \/ AddUsedBuf(a) \/ Kick(a)
  \/ Lookup(a) \/ Put(a) \/ Post(a)

SwiStep == RPMessage_swiFxn \/ AgentStep(Swi)

HostStep ==
  /\ \/ \E e \in Endpoint : MaySendTo(e) /\ HostSend(e)
     \/ HostStarved \/ HostRecheck \/ HostIsr \/ HostReceive
     \/ \E v \in Vring : HostKick(v)
  /\ UNCHANGED <<endpointVars, agentVars, transportVars>>

Next ==
  \/ \E t \in Thread : MayRun(t) /\ (ThreadStep(t) \/ AgentStep(t))
  \/ MayRun(Swi) /\ SwiStep
  \/ IsrMayRun /\ VirtQueue_isr
  \/ HostStep

Spec == Init /\ [][Next]_vars

-----------------------------------------------------------------------------
Label == {"idle", "getAvailBuf", "look", "starved", "addUsedBuf", "kick", "lookup",
          "put", "post", "pend", "woken", "nullSlot"}

\* The endpoints, the messages and the transport.
EndpointsOK ==
  /\ Len(mailbox) <= MailboxSize
  /\ data \in [Buffer -> Message \cup {None}] /\ count \in 0 .. MaxSend
  /\ object \in [Endpoint -> {"none", "queue", "callback", "gone"}]
  /\ semaphore \in [Endpoint -> Nat] /\ unblocked \in [Endpoint -> {"no", "yes"}]
  /\ messages \in [Endpoint -> Seq(0 .. MaxSend)]
  /\ heap \in 0 .. HeapSize /\ toHost \in {0, 1}
  /\ posted \in {"no", "yes"} /\ usedBufAdded \in {"no", "yes"}
  /\ item \in [Agent -> 0 .. MaxSend] /\ dst \in [Agent -> Endpoint \cup {None}]

\* Every buffer of a vring is at one place: with the host, in one of the rings
\* or in the hands of one agent of the slave (VirtQueue_getAvailBuf,
\* VirtQueue_addUsedBuf).
BufferPlaces(v, b) ==
  {<<"host", x>> : x \in hostHas[v] \cap {b}}
    \cup {<<"avail", i>> : i \in {j \in DOMAIN avail[v] : avail[v][j] = b}}
    \cup {<<"used", i>> : i \in {j \in DOMAIN used[v] : used[v][j] = b}}
    \cup {<<"agent", a>> : a \in {c \in Agent : VringOf(c) = v /\ token[c] = b}}
BuffersAccounted == \A v \in Vring, b \in Buffer : Cardinality(BufferPlaces(v, b)) = 1

\* Blocks of the heap are free, in a queue or in the hands of a sender:
\* RPMessage_delete leaks none and a message is freed once.
HeapAccounted ==
  heap + Cardinality(UNION {{<<e, i>> : i \in DOMAIN messages[e]} : e \in Endpoint})
       + Cardinality({a \in Agent : At(a, "put")}) = HeapSize

\* A message that the host made available will be looked at, although the swi
\* switches the interrupts for new ones off while it works ("Clear flag here to
\* avoid race condition with remote processor").
MessagesSeen ==
  avail["fromHost"] # <<>> =>
    \/ HostAt("fromHost", "kick") /\ "fromHost" \notin noNotify
    \/ \E i \in DOMAIN mailbox : mailbox[i] = "fromHost"
    \/ posted = "yes"
    \/ pc[Swi] \notin {"idle", "kick"}

\* A thread does not sleep in RPMessage_send next to an available buffer: the
\* host is about to kick, the interrupt is there, the semaphore is posted or the
\* thread is about to look again.  With one sending thread; the semaphore wakes
\* one thread, and while that has switched the notifications off a second one
\* sleeps on.
SenderWoken ==
  (\E t \in Thread : At(t, "starved")) /\ avail["toHost"] # <<>> =>
    \/ HostAt("toHost", "kick") /\ "toHost" \notin noNotify
    \/ \E i \in DOMAIN mailbox : mailbox[i] = "toHost"
    \/ toHost = 1
    \/ \E t \in Thread : pc[t] \in {"getAvailBuf", "look"}

\* The host hears of every message for it, and of emptied buffers when it has
\* run out of them.
HostTold ==
  /\ used["toHost"] # <<>> =>
       "toHost" \in hostKicked \/ \E t \in Thread : At(t, "kick")
  /\ used["fromHost"] # <<>> /\ HostAt("fromHost", "wait") =>
       "fromHost" \in hostKicked \/ ~At(Swi, "idle")

\* RPMessage_recv: Assert_isTrue((payload), NULL).  The semaphore of an endpoint
\* never lets a reader through to an empty queue, whatever RPMessage_unblock does.
PayloadThere == \A t \in Thread : 
  At(t, "woken") /\ unblocked[dst[t]] = "no" => messages[dst[t]] # <<>>

\* The messages of the host for one endpoint stay in the order in which it sent
\* them, and none is there twice, in the queue, with the swi and in the ring,
\* whatever the threads of the slave (which send 0) put between them.
Delivering == pc[Swi] \in {"lookup", "put"}
RingId(i) == data[avail["fromHost"][i]].id
Ascending(s) == \A i, j \in DOMAIN s : i < j /\ s[j] # 0 => s[i] < s[j]
InOrder ==
  \A e \in Endpoint :
    LET queue == messages[e]
        swi == IF Delivering /\ dst[Swi] = e THEN {item[Swi]} ELSE {}
        ring == {i \in DOMAIN avail["fromHost"] : data[avail["fromHost"][i]].dst = e}
    IN
    /\ Ascending(queue)
    /\ \A i, j \in ring : i < j => RingId(i) < RingId(j)
    /\ \A i \in DOMAIN queue, id \in swi : queue[i] < id
    /\ \A i \in DOMAIN queue, j \in ring : queue[i] < RingId(j)
    /\ \A id \in swi, j \in ring : id < RingId(j)

-----------------------------------------------------------------------------
\* What the wake-ups rest on.  The agents that own a buffer, and the labels of
\* the swi.
AgentsOK ==
  /\ pc \in [Agent -> Label] /\ token \in [Agent -> Buffer \cup {None}]
  /\ pc[Swi] \in {"idle", "getAvailBuf", "look", "lookup", "put", "post", "addUsedBuf", "kick"}
  /\ pc[Swi] \in {"lookup", "put", "post"} => token[Swi] \in Buffer
  /\ \A a \in Agent : pc[a] = "addUsedBuf" => token[a] \in Buffer

\* The slave has asked the host for silence only while it will look again.
SilenceInv ==
  "fromHost" \in noNotify =>
    pc[Swi] \in {"getAvailBuf", "lookup", "put", "post", "addUsedBuf"}

\* The host asks for interrupts when it waits for empty buffers, and always when
\* it receives; while it waits, the swi remembers that it has given some back.
RemindInv ==
  /\ "toHost" \notin noInterrupt
  /\ host["fromHost"] \in {"recheck", "wait"} => "fromHost" \notin noInterrupt
  /\ used["fromHost"] # <<>> /\ HostAt("fromHost", "wait") =>
       "fromHost" \in hostKicked \/ (usedBufAdded = "yes" /\ pc[Swi] # "idle")

\* The inductive invariant of the wake-ups between slave and host.
IInv == VringsOK /\ AgentsOK /\ SilenceInv /\ MessagesSeen /\ RemindInv /\ HostTold

\* The types, which are those of IInv and the remaining variables.
TypeOK == VringsOK /\ AgentsOK /\ EndpointsOK

-----------------------------------------------------------------------------
\* What the accounts rest on.  Only an agent that is about to give a buffer back
\* has one, and what the host has made available holds a message.
HandsInv ==
  /\ \A a \in Agent : token[a] # None =>
       pc[a] = "addUsedBuf" \/ (a = Swi /\ pc[a] \in {"lookup", "put", "post"})
  /\ \A i \in DOMAIN avail["fromHost"] : data[avail["fromHost"][i]] \in Message

\* Who puts to a queue, posts its semaphore or reads it finds the object: nobody
\* but its owner deletes it, and that not while it is used.  No message, and no
\* count of a semaphore, outlives the object.
UseInv ==
  /\ \A a \in Agent :
       /\ pc[a] \in {"lookup", "put", "post", "pend", "woken", "nullSlot"} => dst[a] \in Endpoint
       /\ pc[a] \in {"put", "post", "pend", "woken"} => object[dst[a]] = "queue"
       /\ pc[a] \in {"pend", "woken", "nullSlot"} => owner[dst[a]] = a
       /\ pc[a] = "nullSlot" => object[dst[a]] = "gone"
  /\ \A e \in Endpoint : object[e] # "queue" => messages[e] = <<>> /\ semaphore[e] = 0

\* A reader that was let through and a sender that is about to post stand for one
\* message each, the semaphore counts the others.
Claims(e) == {a \in Agent : pc[a] \in {"post", "woken"} /\ dst[a] = e}
SemaphoreInv ==
  \A e \in Endpoint :
    /\ IsFiniteSet(Claims(e))
    /\ unblocked[e] = "no" => semaphore[e] + Cardinality(Claims(e)) = Len(messages[e])

\* The way from the ring through the swi to the queues, of all endpoints at once:
\* what is further on the way is older.
RingOrder ==
  \A i \in DOMAIN avail["fromHost"] :
    /\ RingId(i) \in 1 .. count
    /\ \A j \in DOMAIN avail["fromHost"] : i < j => RingId(i) < RingId(j)
    /\ Delivering => item[Swi] < RingId(i)
QueueOrder ==
  \A e \in Endpoint :
    /\ Ascending(messages[e])
    /\ \A k \in DOMAIN messages[e] :
         /\ messages[e][k] <= count
         /\ Delivering => messages[e][k] < item[Swi]
         /\ \A i \in DOMAIN avail["fromHost"] : messages[e][k] < RingId(i)
OrderInv ==
  /\ \A t \in Thread : item[t] = 0
  /\ Delivering => item[Swi] \in 1 .. count
  /\ RingOrder /\ QueueOrder

\* IInv and types, buffers and heap blocks accounted for, and no reader let through
\* to an empty queue, and the order of the messages, with what that rests on.
Inv ==
  /\ IInv /\ EndpointsOK /\ HandsInv /\ UseInv /\ SemaphoreInv /\ OrderInv
  /\ BuffersAccounted /\ HeapAccounted /\ PayloadThere
=============================================================================
