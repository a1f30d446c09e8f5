-------------------------- MODULE NotifyDriverCirc --------------------------
(***************************************************************************)
(* packages/ti/sdo/ipc/notifyDrivers/NotifyDriverCirc.c: events from one   *)
(* processor to another through a circular buffer in shared memory.  The   *)
(* two directions share no memory; the module is one of them.              *)
(*                                                                         *)
(* This driver saves cache operations, so the cache is part of the model.  *)
(* The receiver writes its read index back to memory only once every       *)
(* modIndex entries and the sender fetches it only when the buffer looks   *)
(* full; the sender writes its write index back after it has restored      *)
(* interrupts.  A line may also be written back or fetched at any other    *)
(* moment (the three Evict actions), which makes the driver without cache  *)
(* a special case.  Entries are written back before the index that         *)
(* publishes them and are not told apart from memory.                      *)
(***************************************************************************)
EXTENDS Naturals, Sequences

CONSTANTS
  numMsgs,     \* slots of the buffer, a power of two
  Event,       \* what is sent: an event number with its payload
  None,        \* no event
  Sender,      \* threads of the sending processor
  MayDisable   \* does the receiver call Notify_disable and Notify_restore?

Index == 0..(numMsgs - 1)
modIndex == numMsgs \div 4

ASSUME SlotsAssumption == numMsgs \in Nat /\ modIndex > 0
ASSUME EventAssumption == None \notin Event
ASSUME DisableAssumption == MayDisable \in BOOLEAN

\* Mutant of Succ: the index is not masked.
SuccUnmasked(i) == i + 1

\* (i + 1) & maxIndex
Succ(i) == (i + 1) % numMsgs

VARIABLES
  buffer,      \* putBuffer of the sender, getBuffer of the receiver
  writeIndex,  \* putWriteIndex in the sender's cache
  memWrite,    \* putWriteIndex in shared memory
  readIndex,   \* getReadIndex in the receiver's cache
  memRead,     \* getReadIndex in shared memory
  cachedRead,  \* putReadIndex in the sender's cache
  sPc, sEv, sWait, sRead, sLoop,   \* the sending threads and their locals
  isrPc, isrWrite,                 \* the isr and its local writeIndex
  interrupt,   \* external: the latch that intSend sets, intClear clears
  line,        \* external: is the interrupt line enabled?
  nesting,     \* obj->nesting of Notify: calls of Notify_disable in force
  evtRegMask,  \* registered events, local to the receiver
  given,       \* history: the entry that the isr took last
  ran          \* history: did its callback run?

indices == <<writeIndex, memWrite, readIndex, memRead, cachedRead>>
senders == <<sPc, sEv, sWait, sRead, sLoop>>
isr == <<isrPc, isrWrite>>
taken == <<given, ran>>
receiver == <<line, nesting, evtRegMask>>
circVars == <<buffer, indices, senders, isr, interrupt, receiver, taken>>

\* Instance_init on both processors; the line is enabled by intRegister.
CircInit ==
  /\ buffer = [i \in Index |-> None]
  /\ writeIndex = 0 /\ memWrite = 0
  /\ readIndex = 0 /\ memRead = 0 /\ cachedRead = 0
  /\ sPc = [s \in Sender |-> "idle"]
  /\ sEv = [s \in Sender |-> None]
  /\ sWait = [s \in Sender |-> "no"]
  /\ sRead = [s \in Sender |-> 0]
  /\ sLoop = [s \in Sender |-> "no"]
  /\ isrPc = "idle" /\ isrWrite = 0
  /\ interrupt = "clear"
  /\ line = "enabled"
  /\ nesting = 0
  /\ evtRegMask = {}
  /\ given = None
  /\ ran = "no"

-----------------------------------------------------------------------------
(* sendEvent.                                                              *)

Goto(s, pc) == sPc' = [sPc EXCEPT ![s] = pc]

Return(s) ==
  /\ Goto(s, "idle")
  /\ sEv' = [sEv EXCEPT ![s] = None]
  /\ sWait' = [sWait EXCEPT ![s] = "no"]
  /\ sRead' = [sRead EXCEPT ![s] = 0]
  /\ sLoop' = [sLoop EXCEPT ![s] = "no"]

\* The first read of the read index, from the cache and before Hwi_disable.
sendEvent(s, e, waitClear) ==
  /\ sPc[s] = "idle"
  /\ sEv' = [sEv EXCEPT ![s] = e]
  /\ sWait' = [sWait EXCEPT ![s] = waitClear]
  /\ sRead' = [sRead EXCEPT ![s] = cachedRead]
  /\ sLoop' = [sLoop EXCEPT ![s] = "no"]
  /\ Goto(s, "test")
  /\ UNCHANGED <<buffer, indices, isr, interrupt, receiver, taken>>

\* Mutant of Put: the last free slot is used too.
PutAnywhere(s) ==
  /\ sPc[s] = "test"
  /\ buffer' = [buffer EXCEPT ![writeIndex] = sEv[s]]
  /\ writeIndex' = Succ(writeIndex)
  /\ Goto(s, "flush")
  /\ UNCHANGED <<memWrite, readIndex, memRead, cachedRead, sEv, sWait, sRead,
                 sLoop, isr, interrupt, receiver, taken>>

\* Between Hwi_disable and Hwi_restore: there is a slot, it is filled and the
\* write index moves on.
Put(s) ==
  /\ sPc[s] = "test"
  /\ Succ(writeIndex) # sRead[s]
  /\ buffer' = [buffer EXCEPT ![writeIndex] = sEv[s]]
  /\ writeIndex' = Succ(writeIndex)
  /\ Goto(s, "flush")
  /\ UNCHANGED <<memWrite, readIndex, memRead, cachedRead, sEv, sWait, sRead,
                 sLoop, isr, interrupt, receiver, taken>>

\* There is none: a thread that does not wait and has looked twice returns
\* E_FAIL, the others look at the memory.
Full(s) ==
  /\ sPc[s] = "test"
  /\ Succ(writeIndex) = sRead[s]
  /\ \/ sLoop[s] = "yes" /\ sWait[s] = "no" /\ Return(s)
     \/ /\ sLoop[s] = "no" \/ sWait[s] = "yes"
        /\ Goto(s, "reread")
        /\ UNCHANGED <<sEv, sWait, sRead, sLoop>>
  /\ UNCHANGED <<buffer, indices, isr, interrupt, receiver, taken>>

\* Cache_inv and "re-read the get count".
Reread(s) ==
  /\ sPc[s] = "reread"
  /\ cachedRead' = memRead
  /\ sRead' = [sRead EXCEPT ![s] = memRead]
  /\ sLoop' = [sLoop EXCEPT ![s] = "yes"]
  /\ Goto(s, "test")
  /\ UNCHANGED <<buffer, writeIndex, memWrite, readIndex, memRead, sEv, sWait,
                 isr, interrupt, receiver, taken>>

\* Cache_wb of the write index, interrupts restored.
Flush(s) ==
  /\ sPc[s] = "flush"
  /\ memWrite' = writeIndex
  /\ Goto(s, "intSend")
  /\ UNCHANGED <<buffer, writeIndex, readIndex, memRead, cachedRead, sEv, sWait,
                 sRead, sLoop, isr, interrupt, receiver, taken>>

IntSend(s) ==
  /\ sPc[s] = "intSend"
  /\ interrupt' = "pending"
  /\ Return(s)
  /\ UNCHANGED <<buffer, indices, isr, receiver, taken>>

-----------------------------------------------------------------------------
(* NotifyDriverCirc_isr.                                                   *)

\* intClear; the indices are invalidated but not yet read.
IsrEnter ==
  /\ isrPc = "idle"
  /\ line = "enabled" /\ interrupt = "pending"
  /\ interrupt' = "clear"
  /\ isrPc' = "read"
  /\ UNCHANGED <<buffer, indices, senders, isrWrite, receiver, taken>>

IsrRead ==
  /\ isrPc = "read"
  /\ isrWrite' = memWrite
  /\ isrPc' = "loop"
  /\ UNCHANGED <<buffer, indices, senders, interrupt, receiver, taken>>

\* Mutant of IsrTake: the read index is never written back.
IsrTakeSilently ==
  /\ isrPc = "loop"
  /\ isrWrite # readIndex
  /\ given' = buffer[readIndex]
  /\ ran' = IF given' \in evtRegMask THEN "yes" ELSE "no"
  /\ readIndex' = Succ(readIndex)
  /\ UNCHANGED <<buffer, writeIndex, memWrite, memRead, cachedRead, senders, isr,
                 interrupt, receiver>>

\* Mutant of IsrTake: the read index moves on first.
IsrTakeNext ==
  /\ isrPc = "loop"
  /\ isrWrite # readIndex
  /\ given' = buffer[Succ(readIndex)]
  /\ ran' = IF given' \in evtRegMask THEN "yes" ELSE "no"
  /\ readIndex' = Succ(readIndex)
  /\ memRead' = IF readIndex' % modIndex = 0 THEN readIndex' ELSE memRead
  /\ UNCHANGED <<buffer, writeIndex, memWrite, cachedRead, senders, isr,
                 interrupt, receiver>>

\* One entry: Notify_exec if its event is registered ("the event is not
\* processed and is lost" otherwise), the read index moves on and is written
\* back once every numMsgs / 4 entries.
IsrTake ==
  /\ isrPc = "loop"
  /\ isrWrite # readIndex
  /\ given' = buffer[readIndex]
  /\ ran' = IF given' \in evtRegMask THEN "yes" ELSE "no"
  /\ readIndex' = Succ(readIndex)
  /\ memRead' = IF readIndex' % modIndex = 0 THEN readIndex' ELSE memRead
  /\ UNCHANGED <<buffer, writeIndex, memWrite, cachedRead, senders, isr,
                 interrupt, receiver>>

\* Mutant of IsrExit: an interrupt that came meanwhile is cleared.
IsrExitClears ==
  /\ isrPc = "loop"
  /\ isrWrite = readIndex
  /\ isrPc' = "idle" /\ isrWrite' = 0
  /\ interrupt' = "clear"
  /\ UNCHANGED <<buffer, indices, senders, receiver, taken>>

IsrExit ==
  /\ isrPc = "loop"
  /\ isrWrite = readIndex
  /\ isrPc' = "idle" /\ isrWrite' = 0
  /\ UNCHANGED <<buffer, indices, senders, interrupt, receiver, taken>>

-----------------------------------------------------------------------------
(* The receiver's task, which the isr preempts, and the caches.            *)

registerEvent(e) ==
  /\ isrPc = "idle"
  /\ evtRegMask' = evtRegMask \cup {e}
  /\ UNCHANGED <<buffer, indices, senders, isr, interrupt, line, nesting, taken>>

unregisterEvent(e) ==
  /\ isrPc = "idle"
  /\ evtRegMask' = evtRegMask \ {e}
  /\ UNCHANGED <<buffer, indices, senders, isr, interrupt, line, nesting, taken>>

\* Notify_disable, outermost call.
disable ==
  /\ MayDisable /\ isrPc = "idle" /\ nesting = 0
  /\ nesting' = 1
  /\ line' = "disabled"
  /\ UNCHANGED <<buffer, indices, senders, isr, interrupt, evtRegMask, taken>>

\* Notify_restore, outermost call: the driver's enable only asserts that it
\* is not supported.
enable ==
  /\ MayDisable /\ isrPc = "idle" /\ nesting = 1
  /\ nesting' = 0
  /\ UNCHANGED <<buffer, indices, senders, isr, interrupt, line, evtRegMask, taken>>

\* Notify_enableEvent: it is this operation that enables the line.
enableEvent ==
  /\ MayDisable /\ isrPc = "idle"
  /\ line' = "enabled"
  /\ UNCHANGED <<buffer, indices, senders, isr, interrupt, nesting, evtRegMask,
                 taken>>

EvictWrite ==
  /\ memWrite' = writeIndex
  /\ UNCHANGED <<buffer, writeIndex, readIndex, memRead, cachedRead, senders, isr,
                 interrupt, receiver, taken>>

EvictRead ==
  /\ memRead' = readIndex
  /\ UNCHANGED <<buffer, writeIndex, memWrite, readIndex, cachedRead, senders, isr,
                 interrupt, receiver, taken>>

EvictCachedRead ==
  /\ cachedRead' = memRead
  /\ UNCHANGED <<buffer, writeIndex, memWrite, readIndex, memRead, senders, isr,
                 interrupt, receiver, taken>>

-----------------------------------------------------------------------------
SenderStep(s) == Put(s) \/ Full(s) \/ Reread(s) \/ Flush(s) \/ IntSend(s)
IsrStep == IsrRead \/ IsrTake \/ IsrExit

CircNext ==
  \/ \E s \in Sender, e \in Event, w \in {"yes", "no"} : sendEvent(s, e, w)
  \/ \E s \in Sender : SenderStep(s)
  \/ IsrEnter \/ IsrStep
  \/ \E e \in Event : registerEvent(e) \/ unregisterEvent(e)
  \/ disable \/ enable \/ enableEvent
  \/ EvictWrite \/ EvictRead \/ EvictCachedRead

CircSpec == CircInit /\ [][CircNext]_circVars

\* A thread inside sendEvent and an isr run on, and the interrupt of an
\* enabled line is taken.  No cache line need ever be evicted.
CircFairness ==
  /\ \A s \in Sender : WF_circVars(SenderStep(s))
  /\ WF_circVars(IsrEnter) /\ WF_circVars(IsrStep)

CircFairSpec == CircSpec /\ CircFairness

-----------------------------------------------------------------------------
CircTypeOK ==
  /\ buffer \in [Index -> Event \cup {None}]
  /\ {writeIndex, memWrite, readIndex, memRead, cachedRead, isrWrite} \subseteq Index
  /\ sPc \in [Sender -> {"idle", "test", "reread", "flush", "intSend"}]
  /\ sEv \in [Sender -> Event \cup {None}]
  /\ sWait \in [Sender -> {"yes", "no"}]
  /\ sRead \in [Sender -> Index]
  /\ sLoop \in [Sender -> {"yes", "no"}]
  /\ isrPc \in {"idle", "read", "loop"}
  /\ interrupt \in {"clear", "pending"}
  /\ line \in {"enabled", "disabled"}
  /\ nesting \in {0, 1}
  /\ evtRegMask \subseteq Event
  /\ given \in Event \cup {None}
  /\ ran \in {"yes", "no"}

\* The number of entries from index i up to index j.
Distance(i, j) == (j + numMsgs - i) % numMsgs

\* From b on one meets i before j, or they are the same.
Upto(b, i, j) == Distance(b, i) <= Distance(b, j)

\* What a thread knows of the read index when it looks for room.
knownRead(s) == IF sPc[s] = "idle" THEN cachedRead ELSE sRead[s]

\* The write index up to which the isr takes entries.
seen == IF isrPc = "loop" THEN isrWrite ELSE readIndex

\* From b on one meets the read index of the sender (c), in memory (m) and of
\* the receiver (r), then the write index of the isr (i), in memory (w) and of
\* the sender (x).
Ring(b, c, m, r, i, w, x) ==
  Upto(b, c, m) /\ Upto(b, m, r) /\ Upto(b, r, i) /\ Upto(b, i, w) /\ Upto(b, w, x)

\* No copy of an index overtakes the one it is a copy of: what a thread takes
\* for the read index is behind it, and so on up to the write index, which has
\* not gone all the way round.
RingInv ==
  \A s \in Sender :
    Ring(knownRead(s), cachedRead, memRead, readIndex, seen, memWrite, writeIndex)

\* A thread inside sendEvent has an event to send.
SendingInv == \A s \in Sender : sPc[s] # "idle" => sEv[s] \in Event

\* What holds in every state, with one thread that sends.
CircInv == CircTypeOK /\ SendingInv /\ RingInv

\* With two, the first read of the read index may be out of date (sendEvent).
OneSender == \E s : Sender = {s}

\* The isr's comment on the write-back every numMsgs / 4 entries: "the remote
\* core will not use a slot until it sees that the event has been processed".
\* An entry is put in only while there is a free slot, so the write index
\* never catches up with the read index.
NoOverrun ==
  [][writeIndex' # writeIndex => Distance(readIndex, writeIndex) < numMsgs - 1]_circVars

\* The entries in the buffer, oldest first.
queue == [k \in 1..Distance(readIndex, writeIndex) |->
            buffer[(readIndex + k - 1) % numMsgs]]

Fifo == INSTANCE NotifyFifo WITH Entry <- Event, Capacity <- numMsgs - 1

\* Every step puts an entry in at the end, takes the oldest one out or does
\* neither: the driver implements the queue of Notify.h.
ImplementsFifo == Fifo!FifoSpec

\* The interrupt of no entry is missed: while entries wait the isr gets to
\* take one, although it reads the write index only once per run and the
\* index is written back after the entry.
EntryTaken ==
  (writeIndex # readIndex) ~> (isrPc = "loop" /\ isrWrite # readIndex)

\* A thread that waits for room gets it: the write-back every numMsgs / 4
\* entries is enough, the sender does not spin on a read index that stays in
\* the receiver's cache.
RoomAtLast ==
  \A s \in Sender : (sPc[s] = "reread") ~> (sPc[s] \in {"flush", "idle"})

\* Notify_disable and Notify_restore: "Nesting value and enable state have to
\* be in sync".
NestingInSync == nesting = 0 => line = "enabled"
=============================================================================
