# TLA+ models of TI IPC

This directory is a verification development for the inter-processor
communication package in `src/` (TI IPC 3.x). It models the parts of the
package that several processors, threads and interrupt routines run
concurrently, checks them with TLC on small instances, and proves the most
important results for every instance with TLAPS.

Paths below are relative to the root of the repository;
`sdo/ipc` abbreviates `packages/ti/sdo/ipc`.

Contents: 1 the system, 2 modules and code, 3 runs, 4 fairness, 5 proofs,
6 disagreements between the code and its documentation, 7 what is not
modelled, 8 plan.

## 1. The system

IPC connects the processors of one chip (DSPs, ARM cores, an HLOS host). The
RTOS half talks through shared memory and inter-processor interrupts; the
Linux and QNX half talks rpmsg to the RTOS half and offers the same API to
processes through a daemon. The layers, from below:

| component | state it keeps | operations | correct if |
|---|---|---|---|
| gates (`sdo/ipc/gates`): GatePeterson, GatePetersonN, GateHWSpinlock, GateHWSem, GateAAMonitor | words in shared memory or a hardware lock, a local gate and a nesting count per processor | create, open, close, enter, leave | one thread over all processors is inside; nested enters are matched; nobody who waits starves |
| GateMP (`sdo/ipc/GateMP.c`) | `inUse` arrays and attrs in shared memory, a table of objects per processor | create, open, close, delete, enter, leave | users of one gate, and only they, share one lock; ids are neither lost nor given twice |
| Notify drivers (`sdo/ipc/notifyDrivers`): NotifyDriverShm, NotifyDriverCirc | event chart with flags and payloads, or a ring with two indices; interrupt line; masks | sendEvent, isr, (un)registerEvent, disable/enable of a line or an event | events that are accepted arrive once, in order, with their payload; no wake-up is missed |
| Notify (`sdo/ipc/Notify.c`) | callback and listener list of each event, nesting count | attach, detach, register, unregister, disable, restore, sendEvent, exec | callbacks, lists and the driver's registrations agree |
| SharedRegion | region table in shared memory | setEntry, getPtr, getSRPtr | addresses translate back and forth |
| ListMP | doubly linked list of shared pointers under a GateMP | putHead, putTail, getHead, insert, remove | a list, whatever processors do |
| NameServer, NameServerRemoteNotify, NameServerMessageQ | local tables; one shared message per pair of processors, two semaphores | add, remove, get (local, then remote with timeout) | an answer belongs to its request |
| heaps (`sdo/ipc/heaps`) | free lists and counters in shared memory under a GateMP | alloc, free | no block has two owners, none is lost |
| transports (`sdo/ipc/transports`) | a ListMP or ring per direction, a Notify event | put, isr/swi | messages arrive in order |
| MessageQ (`sdo/ipc/MessageQ.c`) | queues, heaps, transports | create, open, alloc, put, get, unblock, free | a message has one owner |
| Ipc (`sdo/ipc/Ipc.c`) | reserved memory of region 0, a table of attach counts | start, attach, detach | both sides go through the same stages |
| RPMessage, VirtQueue, TransportRpmsg (`packages/ti/ipc`) | virtio rings shared with Linux | send, recv, isr | buffers are owned by one side |
| Linux daemon and client library (`linux/src`) | client table, command FIFOs, sockets | connect, commands, disconnect | resources of a dead client are released |
| RcmServer (`packages/ti/grcm`) | job streams, message queues | exec, acquire/release job | jobs run in order per stream |
| deh, pm, srvmgr, trace, QNX resource manager | device registers, hooks | – | – |

How they interact: Ipc attaches a pair of processors by calling, in order,
Notify, NameServer, GateMP, MessageQ and the transports. GateMP picks a gate
module for the lock of a resource id. ListMP and the heaps hold a GateMP
around each access to shared memory. Transports put a message into a ListMP
and send a Notify event; the event's callback takes the message out and calls
MessageQ_put on the local queue. NameServerRemoteNotify is itself a Notify
event. Calls go down, callbacks (isr, swi) come up, and everything that crosses
a processor boundary is a word in shared memory and an interrupt.

What is hard: two processors interleave at every access to shared memory; the
isr of a processor preempts its tasks at any point where the line is enabled;
threads of one processor preempt each other outside `Hwi_disable`; a cache
holds stores back and writes lines out of order; waits are polls with a limit;
and an object may be half created when its creation fails. The list in
`PROJECT.json` under `hazards` names these places by line, with the properties
that cover them, and says where none does.

## 2. Modules and code

Names of actions and variables are those of the code where it has a name.
Each definition's lines are in `PROJECT.json` under `map`. Definitions
introduced by a comment "Mutant of X" are wrong versions of X that the
corresponding property is shown to reject; they are part of no specification.

**IGate** – abstract. The re-entrant multiprocessor gate that the callers of
GateMP_enter and GateMP_leave see: a holder and a depth.

**GatePeterson** – `sdo/ipc/gates/GatePeterson.c`. Threads of two processors;
first the local gate of the processor, then Peterson's algorithm on `flag` and
`turn`. One action is one access to shared memory; the two operands of the
wait loop are two actions. `Open` and `Close` are the creation and deletion of
the opener's object. The creator's write to `turn` and the flags in postInit
are in `Init`: it is complete before the gate can be found. GatePeterson writes
each word back and waits for it before the next one is written, so the cache
leaves no trace.

**GatePetersonN** – `sdo/ipc/gates/GatePetersonN.c`, the same for N
processors. `SetStage` and `SetLast` are the two stores of a stage, `ReadStage`
and `ReadLast` the two operands of the wait, `Advance` the loop control. Its proofs
are in **GatePetersonNProofs**, those of GatePeterson in
**SharedMemoryProofs**.

**NotifyDriverShm** – `sdo/ipc/notifyDrivers/NotifyDriverShm.c`, one direction
(the two share no memory). Threads of the sender: `sendEvent`, the three
checks of the receiver's control words (three reads, three actions), `Poll`,
then payload, flag and interrupt with the sender's interrupts off. The isr:
`IsrEnter` (clears the interrupt), `IsrScan`, `IsrSave`, `IsrAck`, `IsrExec`.
The receiver's task: init and finalize of the driver, (un)register, disable
and enable of events and of the line, one action per access that somebody else
can observe. The isr preempts the task; the task does not move while the isr
runs. `accepted`, `delivered`, `dropped` and `tPayload` are history variables.
Its proofs are the first part of **NotifyProofs**.

**NotifyFifo** – abstract: the bounded queue that `packages/ti/ipc/Notify.h`
promises for drivers with a FIFO.

**NotifyDriverCirc** – `sdo/ipc/notifyDrivers/NotifyDriverCirc.c`, one
direction. The driver leaves out cache operations on purpose, so each index
has a value in the cache of its owner and one in memory, and the sender has a
cached copy of the read index. The `Evict` actions let caches write back or
fetch at any moment. Its proofs are the second part of **SharedMemoryProofs**, which
extends GatePeterson, this module and ListMP; hence `CircInit`, `ListInit` and the
like.

**Notify** – `sdo/ipc/Notify.c`, extends NotifyDriverShm: the receiver's task
calls Notify's functions, which call the driver's actions. What Notify does
after the driver has returned is `AfterDriver`. The module gate keeps other
tasks out, so one task stands for all of them; `gate` counts the enters of it
that have no leave. `asserts` collects assertions that fail. Its proofs are the second
part of **NotifyProofs**, on top of those of the driver.

**GateMP** – `sdo/ipc/GateMP.c`: create with each of its failures (no memory,
no resource id, no proxy, name taken), open (whose object may fail to be
created), close, delete and
Instance_finalize, over threads of several processors; the resource ids and
attrs in shared memory, the table and objects of each processor. enter and
leave are IGate's. The application obeys two rules that the API needs and that
the code cannot check: nobody deletes a gate that others have open or are
opening and, if `AppLocks` is true, the threads of a processor keep their
opens and closes of one gate apart. Its proofs are in **GateMPProofs**.

**IListMP** – abstract: the sequence that `packages/ti/ipc/ListMP.h` promises,
with an owner for each element that is off the list.

**ListMP** – `sdo/ipc/ListMP.c` with the caches of the processors. The list's
GateMP makes a call one step (ImplementsGate is what allows that); what is left
to go wrong are the lines of the head and of the elements, which each processor
reads and writes through a cache of its own. `Cache_inv` and `Cache_wbInv` are the
calls of these names, `InvAttrs` the one that is compiled for ARM only,
and `Evict`, `Speculate` and `Use` (the owner of an element writes its data,
which share the line with the links) are what the hardware and the application
do in between. `Chain(s)` says that the links in memory go around the head in the
order of the sequence s, both ways; `Listed` is that sequence. Its proofs are the
third part of **SharedMemoryProofs**.

**NameServer** – `packages/ti/sdo/utils/NameServer.c`: the table of one
processor with add, remove and removeEntry in the two critical sections each of
them has; `hand` is the entry that a thread has taken off a list and not yet
put on the other one.

**NameServerRemoteNotify** – `sdo/ipc/nsremote/NameServerRemoteNotify.c`, extends
NameServer: the remote half of a get. One message per direction holds the
request and then the answer; two Notify events, two swis and two semaphores
move it. A Notify event sent with waitClear is a place for one payload, which
is what the shm run shows of the driver. `window` is a history variable: what
the remote table has had for the name since the request. The proofs about both
modules are in **NameServerProofs**.

**MessageQ** – `sdo/ipc/MessageQ.c`: alloc, free, put, get with timeout, and
unblock of the queues, with their two lists and the synchronizer.
**TransportShm** – `sdo/ipc/transports/TransportShm.c`, extends MessageQ: put
under the gate with its failure path, the callback of the event, and the swi
that drains the list into the queues. It uses the list of IListMP and a Notify
event that the interrupt clears before its callback runs. Its proofs are in
**TransportShmProofs**.

**Ipc** – `sdo/ipc/Ipc.c`: start, stop, attach, detach. A task runs through the
handshake on the two `startedKey`s of a pair, the attach functions of the
components in their order with the memory they take from region 0, and back.
Each of them may fail. Attach with `procSync` PAIR is called by the
application; with ALL it is called by Ipc_start, which polls: `toAttach[p]` holds
the processors that its loop has still to attach to and `Turn` says whose turn it
is. Its proofs are in **IpcProofs**.

**VirtQueue** – `packages/ti/ipc/family/vayu/VirtQueue.c`: the two vrings with
their flags, kick, and the mailbox. The free-running indices are abstracted to
the sequences of buffers between them. The host is external: a virtio driver
that sends, runs out of buffers, waits and receives; it may send with any buffer
that is not in a ring.
**RPMessage** – `packages/ti/ipc/rpmsg/RPMessage.c`, extends VirtQueue: create,
send, recv, unblock and delete of endpoints, the swi and the callback for
buffers that come back. An agent is a thread or the swi; a slave has one core,
so an agent runs only while nobody of a higher priority does. Its proofs are in
**RPMessageProofs**.

`MCxxx` modules instantiate these for TLC: values for thread tables and
symmetry sets.

## 3. Runs

Twelve runs, all of them of properties that hold. Where the code does not do
what the repository says of it, section 6 tells how to see it.

| run | instance | checks |
|---|---|---|
| gate_peterson | two threads on each of two processors, nesting 2 | MutualExclusion, the inductive invariant IInv, EntersEventually, ImplementsGate |
| gate_petersonn | three processors, two threads on one of them, nesting 2 | Inv (MutualExclusion, and the inductive invariant IInv: TypeOK, what each thread has published, and StageFilters: at most N-1-k processors are past stage k), EntersEventually, ImplementsGate |
| shm | two senders, two sends in all, two events, one sent with waitClear (poll limit 2), the other without and disabled and enabled | DeliveredInOrder, Inv (the inductive invariant IInv with TakenOnce in it, NothingLost), UpIsServiced |
| circ | four slots, two events, one sender, all cache behaviours, line disabled and enabled | CircInv (the inductive invariant: CircTypeOK, SendingInv, RingInv), NoOverrun, ImplementsFifo |
| circ_live | eight slots, so that the read index is written back every second entry only | EntryTaken, RoomAtLast |
| notify | two events, both pairs of registration functions on event 0, two listeners, nesting 2, one sender | IsrFindsCallback, NotifyInv (NotifyTypeOK, ChartInOrder, RegistrationAgrees, and what these rest on: TablesInv, CallInv, ListenersInv) |
| gatemp | two threads of one processor, one of another, three remote gates and a local one, two resource ids | OneLockPerGate, ResourcesAccounted, Inv (the inductive invariant IInv: TypeOK, OpensCounted, NoInvalidDelete, and the owner of each gate) |
| listmp | a DSP and an ARM core, three elements, two of them and the head cached, the head also speculatively | ListInv (the inductive invariant: ListTypeOK, LinksAgree, CacheInv), NothingToWriteBack, ImplementsIListMP |
| nameserver | one thread and two threads on two processors, two names, one entry per table, one timeout on one side | Inv (TypeOK, EntriesAccounted), AnswerInWindow, ReplyUnderWay |
| messageq | a reader and a writer on one processor, a writer on the other, two queues, two blocks, normal and urgent messages | Inv (the inductive invariant IInv with TypeOK in it, HandsInv, AddressInv, ListedInv, OrderInv (SentInv, RouteInv, InOrder), OnePlace), InOrder, DoorbellRung, ReaderWoken |
| ipc | three processors with a task each, two components, both values of procSync, every step failing | Inv (TypeOK, InstanceHasMemory, BlocksAccounted), DetachedClean, RegionZeroThere, ConnectionComplete, StartEnds |
| rpmsg | one endpoint with its reader, a sender, two messages from the host, rings of one buffer | Inv (the inductive invariant IInv, EndpointsOK (the types that IInv lacks), HandsInv, UseInv, SemaphoreInv, OrderInv, BuffersAccounted, HeapAccounted, PayloadThere), MessagesSeen, SenderWoken, HostTold, InOrder |

What the properties say, beyond the names:

* *MutualExclusion, ImplementsGate*: over threads of all processors, through
  nested enters, with the local gate and the shared words together. With
  ImplementsGate a critical section under a GateMP may be one step of the
  models above it.
* *NothingLost, DeliveredInOrder* are about events sent with waitClear that
  nobody disables: each accepted send is in the chart, in the isr's hands,
  delivered, or was dropped by (un)registering its number; none is delivered
  twice or out of order. Events sent without waitClear may overwrite each
  other, which Notify.h allows.
* *TakenOnce* is about all events, those that disableEvent takes itself included:
  each raise of the flag makes the callback run at most once, in the isr or in
  disableEvent, whatever the senders raise again in between. It counts runs and does
  not look at payloads: with which payload disableEvent runs the callback, and
  whether a flag raised behind its back is looked at, is section 6.
* *ChartInOrder, IsrFindsCallback*: the isr never walks a chart that is being
  changed, and never dispatches to a missing callback.
* *NoOverrun, ImplementsFifo*: with one sending thread the cache savings of
  NotifyDriverCirc are sound. With two they are not (section 6). *RingInv* is why: no
  copy of an index, in a cache, in memory or in a variable of sendEvent or of the isr,
  overtakes the index itself.
* *RegistrationAgrees*: outside a call, callback table, driver chart and shared
  mask agree; for an event used with one pair of functions only, the listener
  list agrees too. It is not claimed for events on which the two pairs are
  mixed: there the assertion of Notify_registerEvent fails (section 6).
* *ResourcesAccounted*: every point at which a create can fail is reached.
* *NothingToWriteBack* is what LinksAgree rests on: a dirty line of the head or
  of a listed element in any cache would, when evicted, undo what the other
  processor has done to the links. ImplementsIListMP then lets the models above
  use the list as a sequence.
* *AnswerInWindow*: a remote get returns a value that the remote table had for
  the name, or NOTFOUND if it lacked it, at some moment between request and
  answer, although threads add and remove names meanwhile and the message is
  reused without being cleared. It is not claimed for a processor on which a get
  has timed out (section 6). *ReplyUnderWay* is: after timeouts too, a waiting
  thread has an answer coming.
* *OnePlace* is ownership: also when the event cannot be sent and put takes
  the message back, and when a message is in nobody's list but in a swi's hand.
  *DoorbellRung* and *ReaderWoken* are the two missed wake-ups: of a processor
  whose list is not empty, of a thread that sleeps next to a message or although
  its queue has been unblocked.
* *InstanceHasMemory* relates the two sides of a connection through the
  handshake: the slave gives memory before the master opens it and takes it
  back after the master has let go. *StartEnds* says that the order in which
  Ipc_start attaches (owner of region 0 first) has no circular wait.
* *MessagesSeen, SenderWoken, HostTold* are the wake-ups of virtio with
  suppressed notifications. They fail if the order of "clear the flag, then
  look" in VirtQueue_getAvailBuf is changed.

Bounds. `MaxNested = 2` distinguishes the outermost enter from an inner one;
deeper levels repeat the inner one (and the proof has no bound). Three
processors are the least with two stages, the least at which a filter lock
differs from Peterson's algorithm; a second thread on one processor exercises
the local gate. `MaxSends = 2` lets one send meet an unfinished one by the same
or by another thread, which is what every race above needs. Four slots are the
least that `modIndex = numMsgs / 4` admits; then every entry is written back,
and eight slots give the case where it is not. `NumRemote` is one less than the
gates that want an id, so that ids run out and are used again. `MaxNesting`
tells the outermost Notify_disable from a nested one; `MaxMisses = 1` stops at
the first call that keeps the module gate. Three elements make an insert or
remove in the middle of a list possible, and one of them is not cached, which
mixes both kinds of lines. One entry per table makes NameServer_add fail and
entries change their names; one timeout is enough for a late answer to meet a
new request. Two blocks let one message overtake another and the heap run dry.
Three processors give Ipc an owner that is a slave, a processor that is master
of one and slave of another, and one that is master of both; `MaxAttach = 2`
tells the first attach from a counted one; a processor is started and stopped
once. With rings of one buffer and a mailbox of one word each side runs out of
what it needs after one message, which is when somebody has to be woken; the
second message of the host reuses the buffer.

Symmetry is used in gatemp, circ and messageq, none of which checks liveness.

## 4. Fairness

Safety runs use none. In the others:

* *Gates*: weak fairness of a thread's steps inside enter and leave (a
  processor that spins still runs, and SYS/BIOS runs the thread that holds the
  local gate), and strong fairness of the outermost leave: a critical section
  is finite code that waits for nobody. Nobody need enter.
* *NotifyDriverShm*: steps of calls that have begun, and of the isr, are
  weakly fair. `IsrEnter` is strongly fair, since intSend sets a latch in
  hardware that stays until the line is enabled. `enable` is strongly fair: a
  task that disables the line restores it (Notify_disable/Notify_restore are
  used as a pair). Nobody need send, register or disable.
* *NotifyDriverCirc*: the same without `enable` (circ_live does not disable).
  No fairness for `Evict`: that RoomAtLast holds anyway shows that the explicit
  write-back every numMsgs / 4 entries is enough.

* *Ipc*: weak fairness of Ipc_start, of every step of an attach or detach that
  has begun, and of the calls that Ipc_start makes ("while (status ==
  Ipc_E_NOTREADY)"). Nobody need call Ipc_attach or Ipc_detach.

Deadlock is not checked in messageq, ipc and rpmsg, which may stop: when nobody
frees the blocks that sit in an unread queue, when all processors are stopped or
one has failed to start, when the host has sent what it may. In all other runs
it is checked: these systems may not stop.

## 5. Proofs

Everything below is proved for all values of the constants that satisfy the
named assumptions, which stand in the modules and which TLC evaluates in the
runs. Theorems are `Spec => []P`; each rests on an inductive invariant, of which
TLC checks every part in the run of the component.

| module | theorems | for any |
|---|---|---|
| SharedMemoryProofs | of GatePeterson: TypeCorrect, IInvHolds, MutualExclusionHolds, GatePetersonImplementsGate | threads of two processors, depth of nesting |
| | of NotifyDriverCirc: CircTypeCorrect, CircInvHolds, NoOverrunHolds, ImplementsFifoHolds | slots, events; senders (one in the last three) |
| | of ListMP: ListInvHolds, NothingToWriteBackHolds, ImplementsIListMPHolds | processors with and without speculation, elements, cached lines |
| GatePetersonNProofs | IInvHolds, InvHolds, MutualExclusionHolds, StageFiltersHolds, GatePetersonNImplementsGate | number of processors, threads, depth of nesting |
| NotifyProofs | of the driver: InvHolds, DeliveredInOrderHolds, NothingLostHolds | events, sending threads, sends, poll limit |
| | of Notify: NotifyInvHolds, IsrFindsCallbackHolds, DriverInvHolds | events, listeners, and what the driver has |
| GateMPProofs | GateMPInvHolds, OneLockPerGateHolds, ResourcesAccountedHolds | processors, finitely many threads, gates, resource ids |
| NameServerProofs | InvHolds, AnswerInWindowHolds, ReplyUnderWayHolds | names, values, threads of two processors, table size, timeouts |
| TransportShmProofs | IInvHolds, DoorbellRungHolds, ReaderWokenHolds, OnePlaceHolds, InOrderHolds, InvHolds | processors, queues, threads, messages |
| IpcProofs | IpcInvHolds, DetachedCleanHolds, ConnectionCompleteHolds, RegionZeroThereHolds | processors with one task each, components, attaches; owner of region 0 (processor 0 in the last) |
| RPMessageProofs | IInvHolds, MessagesSeenHolds, HostToldHolds, InvHolds, BuffersAccountedHolds, HeapAccountedHolds, PayloadThereHolds, InOrderHolds, SenderWokenHolds | threads, endpoints, buffers, sizes of rings, mailbox and heap |

### Gates

The first part of `SharedMemoryProofs.tla`, for any sets `Thread0`, `Thread1`, any `MaxNested`
(assumptions `ThreadAssumption`: the sets are disjoint and NoThread is in
neither; `NestedAssumption`: MaxNested is a positive number):

* `IInvHolds`: `Spec => []IInv`; `TypeCorrect`: `Spec => []TypeOK`.
* `MutualExclusionHolds`: `Spec => []MutualExclusion`.
* `GatePetersonImplementsGate`: `Spec => ImplementsGate`.

MutualExclusion alone is not inductive. IInv adds four facts: *LocalInv*, the
local gate of a side is held by exactly the one thread of it that is anywhere
inside enter, the critical section or leave; *NestedInv*, the nesting count
says how far that thread is, and no thread of the opener runs without its
object; *FlagInv*, the flag of a side is up exactly from SetFlag to ClearFlag;
*TurnInv*, if a thread of one side is inside and one of the other is past
GiveTurn, the turn belongs to the first. Two threads inside would, by LocalInv,
be on different sides and, by TurnInv applied both ways, give `turn` two
values. The proof of `NextIInv` has a step per action and below it one per
conjunct that the action touches. TLC checks IInv in gate_peterson.

The refinement rests on `HolderFacts`: with mutual exclusion, `holder` is the
thread that is inside, and is NoThread if there is none. Then ReadFlag and
ReadTurn that let a thread in, and an inner Enter, are IGate's Enter; Leave is
IGate's Leave; all other steps stutter.

`GatePetersonNProofs.tla`, for any number of processors and any threads on them
(`ProcAssumption`: each thread is on a processor; `NestedAssumption`). *BaseInv* is
about one thread and its processor: LocalInv and NestedInv as above, *LoopInv*
(stage and loop counter are in range only while the thread climbs) and *FlagInv*
(what `enteredStage` shows at each label). *StageInv* is about the threads at a
stage k. A thread is in `Arrived(k)` from its store of `lastProcEnteringStage[k]`
until it clears its stage, and in `Passed(k)` once it is beyond the stage; `Cleared(t, p, k)`
says that t has looked at processor p at stage k, or has passed, and does not wait for p.
*LastArrived*: if any thread has arrived at k, the last arrival is one of them.
*LastIsAlone*: a last arrival that has cleared a processor has nobody of that
processor beside it. *StageFilters*: at most N - 1 - k processors are past k.

A thread passes a stage in one of two ways. Another one has arrived after it,
and then that one is still at the stage, so not all who arrived pass; or it has
cleared every other processor as the last arrival, and is then alone at the
stage (`StageHoldsBack`). In both cases `Passed(k)` is smaller than
`Passed(k - 1)`, which gives the bound at k from that at k - 1 (`PassOnStage`).
Past the last stage there is at most one: MutualExclusion. Most steps move no
thread across a stage (`SameSideQuiet`) and are done by `QuietKeeps`. The
refinement of IGate goes as for two processors.

### NotifyDriverCirc

The second part of `SharedMemoryProofs.tla`, for any number of slots and events, with
and without Notify_disable (`SlotsAssumption`: a quarter of the slots, `modIndex`, is at
least one). `CircTypeCorrect` holds for any number of senders, the others assume
`OneSender`; with two senders NoOverrun is false (section 6).

*RingInv*: whoever walks the ring from what the sender knows of the read index
(`knownRead`: the value read before Hwi_disable, or the cached one) meets the cached
copy, the copy in memory and the read index, then the write index that the isr has read
(`seen`), the one in memory and the sender's own, in this order and before having gone
all the way round. `Upto` says it for two of them, as a comparison of distances. The
provers have no arithmetic modulo a constant; `Modulo` states what they need of `%`,
`SuccIs` and `DistanceIs` remove it from Succ and Distance, and what is left is linear.
Each step moves one of the indices up to the next at most (an index is copied, or moves
one slot with room in front of it), or moves the starting point to a later place, which
changes nothing in the order (`RingFrom`). NoOverrun follows: the sender has found a
free slot as seen from knownRead, so there is one as seen from the read index. For
ImplementsFifo the queue of NotifyFifo is what lies between the read index and the
sender's write index; `QueuePut` and `QueueGet` say what moving one of them does to it.

### ListMP

The third part of `SharedMemoryProofs.tla`, for any processors, any finite set of
elements and any choice of which lines are cached (`LineAssumption`). The theorems
have the hypothesis `OnlyHeadSpeculated`: an ARM core fetches on its own the line of
the head at most, which is what the code provides for (the comment at `ListMP.c:344`);
if it may fetch elements too, LinksAgree is false (section 6).

ListInv is inductive by *CacheInv*, what a cache may hold outside a call: a line of an
element only at its owner, a line of the head only unwritten and on an ARM core. So
whatever an operation reads, after the Cache_inv calls it makes, is what is in memory,
and an eviction changes no link of the list. NothingToWriteBack follows from it.

The argument has three layers. The *view* lemmas (`ReadSees`, `StoreSees`, `InvSees`,
`WbInvSees`) say what one access, or one cache call, does to what a processor sees.
`LinkIn` and `LinkOut` put them together into what a whole operation does to memory and
cache: `LinkedIn(p, a, x, b)`, the element x is now between a and b, and `TakenOut(p, a,
x, b)`, a and b are now neighbours; also when a and b are both the head. They hold for
lines in cached and in uncached regions. `ChainInsert` and `ChainRemove` then say that
these turn the chain s into InsertAt(s, i, x) and RemoveAt(s, i). That links determine
the sequence (`ChainUnique`: at the first position at which two chains would differ they
have the same predecessor) makes `Listed` this sequence, before and after a step, and
ImplementsIListMP is then a comparison of each call with its abstract one
(`GetStep`, `PutStep`, `InsertStep`, `RemoveStep`, `LookStep`); `Use`, `Evict` and
`Speculate` stutter.

### Notify

`NotifyProofs.tla`. The driver, for any events, senders and number of sends
(`EventAssumption`: at least one event; `BoundAssumption`: the poll limit is -1 or
positive). An event is reliable if it is in `WaitEvents` and not in
`DisableEvents`. Inv adds to DeliveredInOrder and NothingLost:

* *ChartInOrder* and *LineInv*: the isr walks the chart only while no task changes
  it, since every change is made with the line disabled and the isr out;
* *IsrInv*: between its look at the flag and the acknowledgement the isr has the
  flag up and, of a reliable event, its payload unchanged. Only a task could lower
  the flag, and none can run;
* *SendInv*: one sender at a time is past `Hwi_disable` (`Masked`), and what it
  writes is its own payload; at the write and the raise of a reliable event the
  flag is down, because it saw it down and nobody else raises it;
* *NumberInv*: numbers of a thread's payloads grow, and what it is about to send
  is newer than anything of it on its way;
* *OrderInv*: what was delivered is behind what the isr holds, and that behind what
  the chart holds;
* *TakenOnce* and *RaiseInv*: of every event the callbacks that ran, the one that
  the isr or disableEvent is about to run and the flag that is up are together no
  more than the raises. A step moves one of these into the next (`NothingTaken`,
  `RaisedOnce`, `RunOnce`), which needs that a raise is not one of those before and
  that the flag which disableEvent found up is up when it acknowledges it: its event
  is disabled and the line off, so the isr cannot have taken it.

A step of the sender, the isr and the task is taken apart in `Steps`; each part of
the invariant has a lemma per actor, and `SenderFrame`, `IsrFrame`, `CalmFrame`,
`RechartFrame`, `ClearFrame` and `TakeFrame` say what an actor leaves alone. That
the three parts of a reliable event's way (chart, isr, delivered) are looked at
together is why NothingLost is proved last.

The second part extends this to Notify (`ApiAssumption`). Every step of Notify is a
step of the driver or stutters for it (`DriverSteps`), so Inv carries over
(`DriverInvHolds`). RegistrationAgrees, which speaks of the time between calls, needs
what holds inside them: *TablesInv*, an event of the driver's chart has a callback
and is in the shared mask, or is the one that the task is registering or
unregistering; *CallInv*, where the driver stands while a call of Notify waits for it;
*ListenersInv*, an event used with one pair of functions only has its list of
listeners exactly if its callback is execMany.
IsrFindsCallback follows from TablesInv and IsrInv.

### GateMP

`GateMPProofs.tla`, for any processors, threads, gates and resource ids
(`ThreadAssumption`: the threads are finitely many; `AddrAssumption`: NULL is neither
a gate nor an id; `ResourceAssumption`). The theorems assume `AppLocks = TRUE`: the
threads of one processor keep their opens and closes of one gate apart. Without it
the race of close and open in section 6 breaks the counts. There is no such
assumption about threads of different processors.

Nothing in the code says who owns a gate; the invariant does. The `Owner` of a gate
is the thread that is creating it, has its handle from create, or is deleting it
(or giving up its creation). *OwnerInv*: a gate has at most one owner, and the object
of a creator is on its processor. *VacantInv*: what nobody owns is in no use at all.
*PrivateInv*: a gate that is being created or deleted has no other user, object or
name. *CreatedInv* and *ResourceInv*: what the owner's object, the attrs and the
table say of it at each label. *OpeningInv* and *OpenObjectInv*: who opens a gate
finds it created until it has finished, and an object without opens is being
deleted by a thread that is alone with it on its processor. *UsedInv* and *TableInv*:
an id in use is that of one creator, an entry of the table leads to an object with
that id.

From these, every object with an id has it from the creator of its gate (`Backed`),
so two objects with one id are of one gate (`OneGate`) and an entry of the table is
either empty or the right one (`EntryIs`). That is what openByAddr relies on when it
looks an id up (`openObjectKeeps`; `openFailedKeeps` if it gets no object), what deleteProxy relies on when it clears the
entry (`EntryCleared`), and with `LockIs` it is OneLockPerGate. Each action has its
lemma; those of a thread alone with its gate share `CreateStep`, `PrivateStep` and
`PrivateGoesOn`.

### NameServer

`NameServerProofs.tla`, for any names, values, threads, size of the tables and
number of timeouts (`TableAssumption`: where a thread runs, and NULL is nothing else;
`TimeoutAssumption`: there are two processors).

The table. EntriesAccounted counts; the proof has places instead: *PlaceInv*, an entry
is on the name list, on the free list or in the hands of one thread, and in one of
these only; *ListsInv*, no list has an entry twice; *HandInv*, who has one in hand is
between the two critical sections of its add or removal; *KeysInv*, an entry whose key
somebody still has is on the name list under a name that only a key removes, so
NameServer_remove does not take it away from removeEntry. `AppendIs`, `TailIs` and
`WithoutIs` say what List_put, List_get and List_remove leave on a list, `Accounted`
leads back to the counts. That findLocal finds an entry is that a set of naturals has
a least member (`FirstIs`, by well-foundedness of <).

The way of an answer. *BlockInv*: semMultiBlock is 0 exactly while one thread of the
processor is past it. *SomeReply*: who waits has a request or an answer under way, also
after timeouts; each step that takes it off one of the ways puts it on the next
(`Passes`), all others leave the ways alone (`Still`). *OneReply*, until the first
timeout: there is one at most, and none without a thread that waits. Hence an event
or a post of the semaphore is for the thread that waits now. *WindowInv* is the other
processor's table seen from the window of the asker. *MessageInv* says what the message
and the swi hold on each of the ways: the name of the asker until the answer is
written (`Asked`), and a value of its window from then on (`Answered`).

### Ipc

`IpcProofs.tla`, for any number of processors, any owner of region 0, components and
numbers of attaches (`IpcAssumption`: there are two processors at least and one
component). The theorems assume `OneTask`, one task that calls Ipc on each processor;
two on one slave break the invariant (section 6). RegionZeroThere has the further
hypothesis `owner = 0`, for another owner it is false (section 6).

InstanceHasMemory and BlocksAccounted speak of memory that one processor gives and two
use. What keeps them together is the handshake. *Phases*: of the sixteen values of the
two keys of a pair eight occur, in a circle from one attach to the next. *SlaveOK* and
*MasterOK* say, for each phase, at which labels the slave and the master can be, whether
they count themselves attached and which instances they have: a master has instances
only while the slave's key is FINISH and its own is not yet DETACH, and then the slave
has all of its own. *MemoryInv* has one block for each instance of the
slave, and its address in the slot.

*FreshInv* is about the start: the owner of region 0 clears all keys when it starts,
which may be after others have written theirs. Slaves may, and then poll; a master that
has read such a START would write its own after the keys are cleared. None can have,
because all attach to the owner first (*RouteInv*): `OwnerStarted` and `BeforeOwner`. RouteInv
with *RegionInv* and *StopInv* also gives RegionZeroThere.

A step of a task moves one side of one pair. `SideKeeps` takes such a step to IInv, once
for all of them, from what the step does to the key, the instances, the count and the
label; `LabelKeeps`, `KeyKeeps`, `InstanceKeeps` and `CountKeeps` are its cases, and the
lemma of an action only says which one it is. `SetKeyIs` and `SetPtrIs` say that the slots
of different pairs do not overlap.

### Messages

`TransportShmProofs.tla`, for any processors, queues, threads and messages
(assumptions `MessageQAssumption`: which thread runs and which queue lies where;
`OtherAssumption`: a processor has one other processor that it sends to).

Neither wake-up is inductive. IInv adds *OwnInv*: what a thread or a swi holds at
each of its labels, and that only who is about to signal a queue is counted as
such (a queue has one reader: MessageQAssumption). *GateInv* is about the failure path of put, which
takes an element off a list without looking at what else is on it: the gate of a
list has at most one thread inside (*HolderInv*); a message that somebody is about
to take back is the only one of its list (*AloneInv*); and nothing lies on the list
of a processor that has not registered the event (*UnheardInv*). Hence the list is
empty after the removal, and DoorbellRung holds although no event was sent.
*WakeInv* says for each label of a reader what it may have missed: after GetHigh
found nothing, a message on the high list has a signal, or somebody who is about
to give one (`Covered`); after GetNormal, one on either list. The proof has a lemma
per part (`OwnStep`, `GateStep`, `DoorbellStep`, `WakeStep`) and in it a step per
action, the calls of MessageQ that leave a part alone by a frame lemma. `OnePlaceHolds` (a message
is in one place, also when a put fails and takes it back, or a swi hands it on) has
an invariant of its own on top, *PlaceInv*: a message has exactly one holder (heap,
thread, swi, list, queue), stated with the holder as a value instead of a count, and
no list or queue has it twice (`NoRepeat`). It needs *HandsInv*, a thread that gets
has nothing in its hands and a swi only at its put, and *AddressInv*, what is on its
way has a queue to go to.

`InOrderHolds` is about the history `sent`: for each thread the pairs <<m, n>> of
messages that it has put and nobody has received, with m put before n (or m = n, which
says that the thread has put it; MessageQ_get and a failing put take a message out of all
pairs). The invariant, OrderInv, says of any two messages of a thread that the one
`Ahead` of the other was not put later: on the shared list, in the swi, in a queue behind the link
against all that is still on the link, and in a queue, where an urgent message does not
count. That is inductive with *SentInv*, a message in the heap or with a thread is in no
pair, but for the one that the thread puts, which is its last; *RouteInv*, the messages of a
thread to its own processor never use the link and the others use one link, without
which a message of the swi could pass one that was put to the same queue directly; and
*ListedInv*, the message that a sender announces is on the list until it leaves the gate.
`WayStays` and `WayMoves` are the frame lemmas, `OrderStep` has one lemma per action.

`RPMessageProofs.tla`, for any threads, endpoints, buffers, messages of the host and
sizes of mailbox and heap (assumption `RPMessageAssumption`: the swi is no thread;
`VirtQueueAssumption` for the first state).

*SilenceInv* is what the code's "Clear flag here to avoid race condition" is for:
the flag that silences the host is up only at labels of the swi from which it will
look once more, so a host that reads the flag before or after it changes is right
either way. *RemindInv* is the same for the other direction: a host that waits
has asked for interrupts, and `usedBufAdded` is set if a buffer has come back that
the host has not been told about. *AgentsOK* says who has a buffer to give back.
The lemmas are `TypeStep`, `SeenStep` and `ToldStep`; `QuietFrame` and
`DeliverFrame` cover the calls that touch no ring.

The accounts (`AccountInv`) are proved on top. *BufferInv*: a buffer of a vring has
exactly one holder (a ring, at one index; an agent; the host), stated with the
holder as a value instead of a count, from which BuffersAccounted follows. *HeapInv*:
the free blocks, the queued messages and the agents between HeapBuf_alloc and List_put
add up to the heap; with it and `HeapBound` the count of free blocks never passes
HeapSize. *UseInv*: an endpoint with a message or an agent on its way to it exists.
*SemaphoreInv*: the posts in the semaphore, those an agent is about to give and those a
thread was let through by (the last two are `Claims`) are together as many as the
messages of the queue, unless the endpoint was unblocked; PayloadThere is the case of a
thread that was let through.

`InOrderHolds` rests on *OrderInv*, which forgets the endpoints: the host numbers its
messages (`count`), and whatever is further along the way, in a queue, with the swi, in
the ring, has a smaller number (*QueueOrder*, *RingOrder*), while what threads of the slave put
has number 0 and is left out. That a buffer the host fills, or the swi empties, is not in the
ring at the same time, so that no number in the ring changes, is BufferInv.

`SenderWokenHolds` has as hypothesis that only one thread sends to the host;
without it the theorem is false (section 6). `SenderInv(s)` says for each label of
that thread what it may have missed.

Only model-checked are the liveness properties (EntersEventually, UpIsServiced,
EntryTaken, RoomAtLast, StartEnds, ...): fairness and ENABLED are outside the prover's
reach.

## 6. Disagreements

Places where the code does not do what a comment, a header or an assertion says.
Most are stated as properties of the modules; to reproduce one, add the property
to the cfg of the module's run with the change named.

| property | module | the code |
|---|---|---|
| NoOverrun (PROPERTY, with Sender = {s1, s2}, one event) | NotifyDriverCirc | sendEvent reads the read index (`NotifyDriverCirc.c:303`) before Hwi_disable; a second thread makes it stale, and an entry that was not read is overwritten, although "the remote core will not use a slot until it sees that the event has been processed" (`NotifyDriverCirc.c:580-582`) |
| DisabledPayloadKept (INVARIANT) | NotifyDriverShm | disableEvent lowers the flag and then reads the payload: "the payload within the eventChart will not get overwritten" (`NotifyDriverShm.c:514-517`); a sender that passed the check of the enable mask earlier overwrites it |
| NoInvalidDelete (INVARIANT, with AppLocks = FALSE) | GateMP | GateMP_close counts down in one critical section and deletes outside it (`GateMP.c:172-183`); a concurrent open of the same processor gets the object that is being deleted: "Cannot call when numOpen is non-zero." (`GateMP.c:1401`) |
| LinksAgree (INVARIANT, with Speculated = {head, e1}) | ListMP | ListMP_remove reads the links of the element without invalidating it; an ARM core that fetched the line speculatively, which `ListMP.c:344` expects of the head, removes it with old neighbours |
| NamesUnique (INVARIANT) | NameServer | NameServer_add looks for the name and inserts it in two critical sections; two threads add the same name |
| AnswerAlwaysInWindow (INVARIANT) | NameServerRemoteNotify | the answer to a get that has timed out posts semRemoteWait later and is taken by the next get, which returns a value for another name or NOTFOUND for a name that is there |
| RegionZeroThere (INVARIANT, with owner = 1 or 2) | Ipc | an owner of region 0 that is the master of a pair detaches first and may stop, which deletes the heap to which its slave must still give the memory back |
| TypeOK (INVARIANT, with two tasks on one slave) | Ipc | both tasks pass the test of the count; the second writes START over FINISH and the processor is counted twice |
| SenderWoken (INVARIANT, with two threads that send to the host) | RPMessage | semHandle_toHost is binary and a thread that finds a buffer switches notifications off: a second sender sleeps on next to buffers that have come back |
| NotLeftSpinning (PROPERTY; sendEventPollCount = -1, given by a definition of the MC module) | NotifyDriverShm | disableEvent takes a pending event so that the other core "isn't left spinning" (`NotifyDriverShm.c:508-510`); a sender that passed its check raises the flag after that, the isr clears the interrupt and passes over the disabled event, and enableEvent neither looks at the flag nor causes an interrupt: a second sender then polls the flag for ever although the event is registered and enabled |
| NestingInSync (INVARIANT) | Notify | registerEvent, unregisterEvent and disableEvent enable the line when they finish (`NotifyDriverShm.c:276, 340, 535`), also inside a Notify_disable ("nesting value and enable state have to be in sync", `Notify.c:159, 467`) |
| NestingInSync (INVARIANT) | NotifyDriverCirc | `enable` is not implemented, it is `enableEvent` that enables the line (`NotifyDriverCirc.c:420-424`, against `INotifyDriver.xdc:109-111`) |
| ExecFindsCallback (INVARIANT) | Notify | disableEvent calls Notify_exec for a flag left up by an event nobody is registered for (`NotifyDriverShm.c:531`, `Notify.c:886`) |
| GateGivenBack (INVARIANT) | Notify | Notify_unregisterEvent with no listener returns without Gate_leaveModule (`Notify.c:653-659`); the gate is a GateSwi (`Notify.xs:61-66`) |
| NoAssertFails (INVARIANT) | Notify | Notify_registerEvent on an event taken by Notify_registerEventSingle appends the listener and fails its assertion (`Notify.c:384`) |
| NoNullAttrs (INVARIANT) | GateMP | Instance_finalize writes `attrs->status` (`GateMP.c:1412`) before the test whose comment says attrs may be NULL (`GateMP.c:1421`) |

Seen while reading, outside what the modules express:

* GatePetersonN_enter stores enteredStage and lastProcEnteringStage before it
  writes either line back (`GatePetersonN.c:156-164`). In a cached region a line
  may reach memory early and the two words out of order, and then two
  processors get in. GatePetersonN is modelled without a cache; GatePeterson
  writes each word back before the next.
* `NameServer.c:495`: getLocal reads the length of an entry after it has left
  the gate; on its failure path add frees the entry and then uses its name.
* `ListMP.c:853`: insert and remove return without GateMP_leave when a neighbour
  has no address here.
* `Ipc.c:143`: with a cached region 0 Ipc_attach invalidates the slave's slot,
  and with it the addresses that a failed attach had written and not written
  back; the retry skips the instances that exist.
* `RPMessage.c:458`: delete destroys the semaphore and the queue before it clears
  the slot, and send uses the object after it has left the gate ("Protect from
  RPMessage_delete", line 599). The model deletes an endpoint only while no
  message for it is under way.
* `GatePeterson.c:113`: openerProcId is tested and then written without a lock; a
  creator that opens and closes its own gate resets it (line 141) while the
  remote opener uses the gate. `GatePetersonN.c:252`: sharedMemReq counts the
  cache line per word while Instance_init lays the words out with the larger of
  cache line and default alignment.
* `Notify.c:862`: detach frees the Notify object before it deletes the driver
  whose isr uses it. `TransportShm.c:330`: finalize deletes the lists before it
  unregisters the event and destructs the swi. `MessageQ.c:1194`: a queue may be
  deleted while messages to it are in a transport.
* `RPMessage.c:612`: a callback runs in the swi; if it sends to the host without a
  free buffer, it pends for ever in a swi.
* `HeapBufMP.c`: postInit returns without an error when ListMP_create fails, and
  the heap is then registered under its name without a free list.
* `RcmServer.c` (2418-2475): after a message with a bad pool id has been returned
  to the client, the loop that reads again keeps the old `packet`, which is
  executed and answered a second time. `getFxnAddr_P` returns an unset function
  for index 0 of a dynamic table, `getPool_P` leaves the pool unset for ids
  without bit 15.

## 7. Not modelled

* GateHWSpinlock, GateHWSem, GateAAMonitor: one atomic read or write of a
  hardware lock is the whole algorithm.
* Address layout (sharedMemReq, alignment), Memory and Startup: the models
  name words, they do not place them.
* GateMP: the default gate is taken as a lock; resource ids of custom gates
  are the same code on other arrays; reserved ids are left out; what Ipc calls
  of GateMP_attach is the default gate in `sr0` of Ipc.
* Notify: the loopback of a processor to itself, a second line, and a second
  task that calls Notify_disableEvent outside the module gate.
  Notify_registerEvent of a listener that is on the list already. Its failure to get
  memory for the listener changes nothing and is no step.
* NotifyDriverShm: one direction at a time; a stream of events without end.
* GatePeterson: opening on the processor that created the gate, and the failure to open
  one of a third processor (`GatePeterson.c:104-121`).
* ListMP: creating, opening and closing a list, which wrap GateMP and NameServer.
* NameServer: creation of instances, match, values longer than 32 bits, tables
  without a limit, more than two processors. After a get has timed out nothing
  is said of answers. The swis are not fair to the threads: sustained requests
  of the other processor starve them, so there is no liveness property.
* MessageQ: creation and deletion of queues, open, the table of heaps, network
  transports, tracing. A synchronizer is a binary semaphore; a queue that has
  been unblocked is not used again. The put of TransportShm fails only as long as
  the other side has no instance; a swi runs to its end and does not start while
  a thread of its processor is in the gate (local protection TASKLET); finalize
  is left out. TransportShmCirc and TransportShmNotify have the same interface,
  and the first has the ring of NotifyDriverCirc.
* Ipc: Ipc_writeConfig and Ipc_readConfig, the attach functions of the components
  (external: they create an instance, or fail), a cache in front of region 0, a
  second start of a processor. Ipc_start is taken to succeed up to its attaches: a
  failure of GateMP_start or SharedRegion_start, a second call and processors
  without interrupt lines (`Ipc.c:715-793`) are left out.
* VirtQueue: the messages of the mailbox that do not name a vring (echo, cache
  flush, hibernation, crash), families other than vayu. RPMessage: callbacks that
  call RPMessage themselves; a callback has the message at once. The slave has
  one core. Buffers have valid heads (`VirtQueue.c:274-277`); RPMessage_create without
  memory for its object changes nothing and is no step. Finding the endpoint and
  taking the heap block (`RPMessage.c:600-625`) are one step, as long as nobody deletes
  the endpoint, which section 6 is about.
* HeapBufMP, HeapMemMP, HeapMultiBufMP, SharedRegion, NameServerMessageQ,
  TransportRpmsg: in the plan. MessageQ uses the heap as a set of free blocks.
* RcmServer: built, as the repository is, with `USE_RPMESSAGE` (`RcmTypes.h:52`)
  it receives every packet into one buffer on the stack of the server thread and
  hands pointers to it to its worker threads, and the variant for MessageQ does
  not compile (`createFxn` in execMsg_I). A model of what the pools and job
  streams are meant to do would not be a model of this code; what is wrong with
  it is found by reading (section 6).
* Linux daemon and client library: processes, sockets and FIFOs. The QNX resource
  manager and deh, pm, trace, srvmgr are mostly register and hook code.

## 8. Plan

Order of the modules, by what the rest depends on:

1. gates, with IGate above them (done, proved);
2. Notify drivers and Notify, with NotifyFifo above the ring (done, proved);
3. GateMP's life cycle (done, proved);
4. NameServer and NameServerRemoteNotify (done, proved);
5. ListMP with IListMP above it (done, proved); HeapBufMP on it;
6. MessageQ over TransportShm (done, proved), above them a specification of a mailbox;
7. Ipc_start, attach, detach and stop (done, proved);
8. VirtQueue and RPMessage (done, proved); TransportRpmsg and the Linux side after them.

Modules extend each other where one calls the other (Notify extends the
driver, TransportShm extends MessageQ, RPMessage extends VirtQueue); a layer
that only needs the promise of a lower one uses its abstract module.

Theorems to prove next: that MessageQ over TransportShm implements a specification of
a mailbox, once that is written.
