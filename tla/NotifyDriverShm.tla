-------------------------- MODULE NotifyDriverShm --------------------------
(***************************************************************************)
(* packages/ti/sdo/ipc/notifyDrivers/NotifyDriverShm.c: events from one    *)
(* processor to another through a chart of flags and payloads in shared    *)
(* memory, and one interrupt.  The two directions of a driver share no     *)
(* memory, so the module is one direction: the threads of the sending      *)
(* processor, and the receiving processor with its isr and the task that   *)
(* registers, disables and enables events.                                 *)
(*                                                                         *)
(* One action is one access to the shared memory.  Every write is followed *)
(* by Cache_wbInv and every read preceded by Cache_inv when the cache is   *)
(* on, which leaves no other trace here.  The isr preempts the task, so    *)
(* the task moves only while no isr runs; a sending thread between         *)
(* Hwi_disable and Hwi_restore keeps the other threads of its processor    *)
(* from running.                                                           *)
(***************************************************************************)
EXTENDS Integers, Sequences, FiniteSets

CONSTANTS
  NumEvents,            \* Notify_numEvents
  Sender,               \* threads of the sending processor
  sendEventPollCount,   \* Notify_sendEventPollCount, -1 to poll for ever
  WaitEvents,           \* events that are sent with waitClear = TRUE
  DisableEvents,        \* events that the receiver disables and enables
  MaxSends              \* bound: how many events are sent in all

Event == 0..(NumEvents - 1)

ASSUME EventAssumption ==
  /\ NumEvents \in Nat \ {0}
  /\ WaitEvents \subseteq Event
  /\ DisableEvents \subseteq Event

ASSUME BoundAssumption ==
  /\ sendEventPollCount \in (Nat \cup {-1}) \ {0}
  /\ MaxSends \in Nat

\* A payload is the name of the call that sends it: its thread and a number
\* that grows from call to call.
Payload == Sender \X (1..MaxSends)
NoPayload == <<>>

VARIABLES
  recvInitStatus,  \* selfProcCtrl of the receiver, in shared memory
  eventRegMask,    \* ... the registered events
  eventEnableMask, \* ... the enabled events
  flag,            \* its event chart, in shared memory: UP or DOWN
  payload,         \* ... and the payload of each event
  regChart,        \* registered events, by priority; local to the receiver
  line,            \* external: is the interrupt line enabled?
  interrupt,       \* external: the latch that intSend sets, intClear clears
  isrPc, isrI, isrPayload,          \* the isr and its local variables
  tPc, tEv,        \* the receiver's task and the event it deals with
  tPayload,        \* history: the payload that disableEvent acknowledges
  sPc, sEv, sNum, sPoll,            \* the sending threads and their locals
  sends,           \* how many calls of sendEvent there have been
  accepted,        \* history: the events that sendEvent put into the chart
  delivered,       \* history: the calls of Notify_exec, in order
  dropped          \* history: pending events that (un)registering cleared

ctrl == <<recvInitStatus, eventRegMask, eventEnableMask>>
chart == <<flag, payload>>
intr == <<line, interrupt>>
isr == <<isrPc, isrI, isrPayload>>
task == <<tPc, tEv, tPayload>>
senders == <<sPc, sEv, sNum, sPoll, sends>>
history == <<accepted, delivered, dropped>>
vars == <<ctrl, chart, regChart, intr, isr, task, senders, history>>

ChartEvents == {regChart[i] : i \in DOMAIN regChart}

\* SharedRegion zeroes the memory of the driver before anybody uses it.
Init ==
  /\ recvInitStatus = "0"
  /\ eventRegMask = {}
  /\ eventEnableMask = {}
  /\ flag = [e \in Event |-> "DOWN"]
  /\ payload = [e \in Event |-> NoPayload]
  /\ regChart = <<>>
  /\ line = "disabled"
  /\ interrupt = "clear"
  /\ isrPc = "idle" /\ isrI = 1 /\ isrPayload = NoPayload
  /\ tPc = "detached" /\ tEv = 0 /\ tPayload = NoPayload
  /\ sPc = [s \in Sender |-> "idle"]
  /\ sEv = [s \in Sender |-> 0]
  /\ sNum = [s \in Sender |-> 0]
  /\ sends = 0
  /\ sPoll = [s \in Sender |-> 0]
  /\ accepted = {}
  /\ delivered = <<>>
  /\ dropped = {}

-----------------------------------------------------------------------------
(* sendEvent.                                                              *)

\* Threads that have interrupts disabled.
Masked == {s \in Sender : sPc[s] \in {"write", "raise", "intSend"}}

\* Thread s is at pc and its processor lets it run.
SenderAt(s, pc) == sPc[s] = pc /\ Masked \subseteq {s}

\* sendEvent returns.
Return(s) ==
  /\ sPc' = [sPc EXCEPT ![s] = "idle"]
  /\ sEv' = [sEv EXCEPT ![s] = 0]
  /\ sNum' = [sNum EXCEPT ![s] = 0]
  /\ sPoll' = [sPoll EXCEPT ![s] = 0]
  /\ UNCHANGED sends

sendEvent(s, e) ==
  /\ SenderAt(s, "idle")
  /\ sends < MaxSends
  /\ sends' = sends + 1
  /\ sNum' = [sNum EXCEPT ![s] = sends + 1]
  /\ sEv' = [sEv EXCEPT ![s] = e]
  /\ sPc' = [sPc EXCEPT ![s] = "checkInit"]
  /\ UNCHANGED <<ctrl, chart, regChart, intr, isr, task, sPoll, history>>

\* The three checks, each a read of the receiver's ProcCtrl; an event that
\* fails one returns E_NOTINITIALIZED, E_EVTDISABLED or E_EVTNOTREGISTERED.
Check(s, pc, ok, next) ==
  /\ SenderAt(s, pc)
  /\ \/ /\ ok
        /\ sPc' = [sPc EXCEPT ![s] = next]
        /\ UNCHANGED <<sEv, sNum, sPoll, sends>>
     \/ ~ok /\ Return(s)
  /\ UNCHANGED <<ctrl, chart, regChart, intr, isr, task, history>>

CheckInit(s) == Check(s, "checkInit", recvInitStatus = "INIT_STAMP", "checkEnabled")
CheckEnabled(s) == Check(s, "checkEnabled", sEv[s] \in eventEnableMask, "checkReg")
CheckRegistered(s) ==
  Check(s, "checkReg", sEv[s] \in eventRegMask,
        IF sEv[s] \in WaitEvents THEN "poll" ELSE "mask")

\* Mutant of Poll: waitClear is ignored.
PollIgnored(s) ==
  /\ SenderAt(s, "poll")
  /\ sPc' = [sPc EXCEPT ![s] = "write"]
  /\ UNCHANGED <<ctrl, chart, regChart, intr, isr, task, sEv, sNum, sPoll,
                 sends, history>>

\* waitClear: one round of the loop that waits for the previous event of this
\* number to be acknowledged.  Interrupts stay disabled only if it was; a
\* round that finds the flag up counts and may give up with E_TIMEOUT.
Poll(s) ==
  LET i == IF sendEventPollCount = -1 THEN 0 ELSE sPoll[s] + 1 IN
  /\ SenderAt(s, "poll")
  /\ \/ /\ flag[sEv[s]] = "DOWN"
        /\ sPc' = [sPc EXCEPT ![s] = "write"]
        /\ UNCHANGED <<sEv, sNum, sPoll, sends>>
     \/ /\ flag[sEv[s]] = "UP"
        /\ i # sendEventPollCount
        /\ sPoll' = [sPoll EXCEPT ![s] = i]
        /\ UNCHANGED <<sPc, sEv, sNum, sends>>
     \/ /\ flag[sEv[s]] = "UP"
        /\ i = sendEventPollCount
        /\ Return(s)
  /\ UNCHANGED <<ctrl, chart, regChart, intr, isr, task, history>>

\* waitClear = FALSE: no more than Hwi_disable.
Mask(s) ==
  /\ SenderAt(s, "mask")
  /\ sPc' = [sPc EXCEPT ![s] = "write"]
  /\ UNCHANGED <<ctrl, chart, regChart, intr, isr, task, sEv, sNum, sPoll,
                 sends, history>>

WritePayload(s) ==
  /\ SenderAt(s, "write")
  /\ payload' = [payload EXCEPT ![sEv[s]] = <<s, sNum[s]>>]
  /\ sPc' = [sPc EXCEPT ![s] = "raise"]
  /\ UNCHANGED <<ctrl, flag, regChart, intr, isr, task, sEv, sNum, sPoll,
                 sends, history>>

RaiseFlag(s) ==
  /\ SenderAt(s, "raise")
  /\ flag' = [flag EXCEPT ![sEv[s]] = "UP"]
  /\ accepted' = accepted \cup {[ev |-> sEv[s], payload |-> <<s, sNum[s]>>]}
  /\ sPc' = [sPc EXCEPT ![s] = "intSend"]
  /\ UNCHANGED <<ctrl, payload, regChart, intr, isr, task, sEv, sNum, sPoll,
                 sends, delivered, dropped>>

\* The interrupt goes out before Hwi_restore; sendEvent returns S_SUCCESS.
IntSend(s) ==
  /\ SenderAt(s, "intSend")
  /\ interrupt' = "pending"
  /\ Return(s)
  /\ UNCHANGED <<ctrl, chart, regChart, line, isr, task, history>>

-----------------------------------------------------------------------------
(* NotifyDriverShm_isr.                                                    *)

\* Notify_exec, which calls the callback of the event.
Notify_exec(e, p) == delivered' = Append(delivered, [ev |-> e, payload |-> p])

IsrEnter ==
  /\ isrPc = "idle"
  /\ tPc # "detached"
  /\ line = "enabled"
  /\ interrupt = "pending"
  /\ interrupt' = "clear"
  /\ isrPc' = "scan"
  /\ isrI' = 1
  /\ UNCHANGED <<ctrl, chart, regChart, line, isrPayload, task, senders, history>>

\* Mutant of IsrScan: the interrupt is cleared when the scan is over.
IsrScanClears ==
  /\ isrPc = "scan"
  /\ \/ /\ isrI > Len(regChart)
        /\ isrPc' = "idle" /\ isrI' = 1
        /\ interrupt' = "clear"
     \/ /\ isrI <= Len(regChart)
        /\ IF regChart[isrI] \in eventEnableMask /\ flag[regChart[isrI]] = "UP"
           THEN isrPc' = "save" /\ UNCHANGED isrI
           ELSE isrI' = isrI + 1 /\ UNCHANGED isrPc
        /\ UNCHANGED interrupt
  /\ UNCHANGED <<ctrl, chart, regChart, line, isrPayload, task, senders, history>>

\* One entry of regChart: past its end the isr returns, and an event that is
\* disabled or whose flag is down is passed over.
IsrScan ==
  /\ isrPc = "scan"
  /\ \/ /\ isrI > Len(regChart)
        /\ isrPc' = "idle" /\ isrI' = 1
     \/ /\ isrI <= Len(regChart)
        /\ IF regChart[isrI] \in eventEnableMask /\ flag[regChart[isrI]] = "UP"
           THEN isrPc' = "save" /\ UNCHANGED isrI
           ELSE isrI' = isrI + 1 /\ UNCHANGED isrPc
  /\ UNCHANGED <<ctrl, chart, regChart, intr, isrPayload, task, senders, history>>

\* "Save the payload since it may be overwritten before Notify_exec is called"
IsrSave ==
  /\ isrPc = "save"
  /\ isrPayload' = payload[regChart[isrI]]
  /\ isrPc' = "ack"
  /\ UNCHANGED <<ctrl, chart, regChart, intr, isrI, task, senders, history>>

IsrAck ==
  /\ isrPc = "ack"
  /\ flag' = [flag EXCEPT ![regChart[isrI]] = "DOWN"]
  /\ isrPc' = "exec"
  /\ UNCHANGED <<ctrl, payload, regChart, intr, isrI, isrPayload, task, senders,
                 history>>

\* Mutant of IsrExec: the payload is read only now, as disableEvent does.
IsrExecRereads ==
  /\ isrPc = "exec"
  /\ Notify_exec(regChart[isrI], payload[regChart[isrI]])
  /\ isrPc' = "scan"
  /\ isrI' = 1
  /\ isrPayload' = NoPayload
  /\ UNCHANGED <<ctrl, chart, regChart, intr, task, senders, accepted,
                 dropped>>

\* The callback runs, and the scan begins again with the first event.
IsrExec ==
  /\ isrPc = "exec"
  /\ Notify_exec(regChart[isrI], isrPayload)
  /\ isrPc' = "scan"
  /\ isrI' = 1
  /\ isrPayload' = NoPayload
  /\ UNCHANGED <<ctrl, chart, regChart, intr, task, senders, accepted,
                 dropped>>
-----------------------------------------------------------------------------
(* The receiver's task: setting the driver up and down, and the operations *)
(* of INotifyDriver that Notify calls.                                     *)

TaskAt(pc) == tPc = pc /\ isrPc = "idle"
Goto(pc) == tPc' = pc /\ UNCHANGED <<tEv, tPayload>>

\* Instance_init: all events enabled, none registered, interrupt plugged.
\* What an earlier driver left in eventRegMask and in the flags stays there.
Instance_init ==
  /\ TaskAt("detached")
  /\ eventEnableMask' = Event
  /\ regChart' = <<>>
  /\ line' = "enabled"
  /\ Goto("created")
  /\ UNCHANGED <<recvInitStatus, eventRegMask, chart, interrupt, isr, senders,
                 history>>

setNotifyHandle ==
  /\ TaskAt("created")
  /\ recvInitStatus' = "INIT_STAMP"
  /\ Goto("idle")
  /\ UNCHANGED <<eventRegMask, eventEnableMask, chart, regChart, intr, isr,
                 senders, history>>

\* Instance_finalize: first the stamp is taken back, then the interrupt
\* unplugged and the registration chart freed.
Instance_finalize ==
  /\ TaskAt("idle")
  /\ recvInitStatus' = "0"
  /\ Goto("unplug")
  /\ UNCHANGED <<eventRegMask, eventEnableMask, chart, regChart, intr, isr,
                 senders, history>>

Unplug ==
  /\ TaskAt("unplug")
  /\ line' = "disabled"
  /\ regChart' = <<>>
  /\ Goto("detached")
  /\ UNCHANGED <<ctrl, chart, interrupt, isr, senders, history>>

\* What (un)registering an event does to a notification nobody took yet.
ClearPending(e) ==
  /\ flag' = [flag EXCEPT ![e] = "DOWN"]
  /\ dropped' = IF flag[e] = "UP" THEN dropped \cup {payload[e]} ELSE dropped
  /\ UNCHANGED <<payload, accepted, delivered>>

\* Entry n is where e belongs, "in ascending order of event numbers"; it gets
\* there, and the entries behind it move on.
PlaceOf(e, n) ==
  \A i \in DOMAIN regChart : IF i < n THEN regChart[i] <= e ELSE e < regChart[i]
Inserted(e, n) ==
  [i \in 1..(Len(regChart) + 1) |->
     IF i < n THEN regChart[i] ELSE IF i = n THEN e ELSE regChart[i - 1]]

\* The gap of entry n is closed.
Closed(n) ==
  [i \in 1..(Len(regChart) - 1) |-> IF i < n THEN regChart[i] ELSE regChart[i + 1]]

\* registerEvent, called by Notify for an event that has no callback yet.
registerEvent(e) ==
  /\ TaskAt("idle")
  /\ e \notin ChartEvents
  /\ line' = "disabled"
  /\ \E n \in 1..(Len(regChart) + 1) : PlaceOf(e, n) /\ regChart' = Inserted(e, n)
  /\ tPc' = "regClear" /\ tEv' = e /\ UNCHANGED tPayload
  /\ UNCHANGED <<ctrl, chart, interrupt, isr, senders, history>>

RegClear ==
  /\ TaskAt("regClear")
  /\ ClearPending(tEv)
  /\ Goto("regMask")
  /\ UNCHANGED <<ctrl, regChart, intr, isr, senders>>

RegMask ==
  /\ TaskAt("regMask")
  /\ eventRegMask' = eventRegMask \cup {tEv}
  /\ Goto("lineOn")
  /\ UNCHANGED <<recvInitStatus, eventEnableMask, chart, regChart, intr, isr,
                 senders, history>>

\* unregisterEvent: "First unset the registered bit in shared memory".
unregisterEvent(e) ==
  /\ TaskAt("idle")
  /\ e \in ChartEvents
  /\ line' = "disabled"
  /\ eventRegMask' = eventRegMask \ {e}
  /\ tPc' = "unregClear" /\ tEv' = e /\ UNCHANGED tPayload
  /\ UNCHANGED <<recvInitStatus, eventEnableMask, chart, regChart, interrupt,
                 isr, senders, history>>

\* ... then the pending event goes and the gap in regChart is closed.
UnregClear ==
  /\ TaskAt("unregClear")
  /\ ClearPending(tEv)
  /\ \E n \in DOMAIN regChart : regChart[n] = tEv /\ regChart' = Closed(n)
  /\ Goto("lineOn")
  /\ UNCHANGED <<ctrl, intr, isr, senders>>

disableEvent(e) ==
  /\ TaskAt("idle")
  /\ e \in DisableEvents
  /\ eventEnableMask' = eventEnableMask \ {e}
  /\ tPc' = "disTest" /\ tEv' = e /\ UNCHANGED tPayload
  /\ UNCHANGED <<recvInitStatus, eventRegMask, chart, regChart, intr, isr,
                 senders, history>>

\* Is this the race in which the flag is up and the interrupt still to come?
DisTest ==
  /\ TaskAt("disTest")
  /\ line' = "disabled"
  /\ Goto(IF flag[tEv] = "UP" THEN "disAck" ELSE "lineOn")
  /\ UNCHANGED <<ctrl, chart, regChart, interrupt, isr, senders, history>>

\* Mutant of DisAck: the callback runs without an acknowledgement.
DisAckForgotten ==
  /\ TaskAt("disAck")
  /\ tPc' = "disExec" /\ tPayload' = payload[tEv] /\ UNCHANGED tEv
  /\ UNCHANGED <<ctrl, chart, regChart, intr, isr, senders, history>>

DisAck ==
  /\ TaskAt("disAck")
  /\ flag' = [flag EXCEPT ![tEv] = "DOWN"]
  /\ tPc' = "disExec" /\ tPayload' = payload[tEv] /\ UNCHANGED tEv
  /\ UNCHANGED <<ctrl, payload, regChart, intr, isr, senders, history>>

\* "No need to store the payload": it is read after the acknowledgement.
DisExec ==
  /\ TaskAt("disExec")
  /\ Notify_exec(tEv, payload[tEv])
  /\ tPc' = "lineOn" /\ tPayload' = NoPayload /\ UNCHANGED tEv
  /\ UNCHANGED <<ctrl, chart, regChart, intr, isr, senders, accepted,
                 dropped>>

enableEvent(e) ==
  /\ TaskAt("idle")
  /\ e \in DisableEvents
  /\ eventEnableMask' = eventEnableMask \cup {e}
  /\ UNCHANGED <<recvInitStatus, eventRegMask, chart, regChart, intr, isr, task,
                 senders, history>>

\* disable and enable, for Notify_disable and Notify_restore.
disable ==
  /\ TaskAt("idle")
  /\ line' = "disabled"
  /\ UNCHANGED <<ctrl, chart, regChart, interrupt, isr, task, senders, history>>

enable ==
  /\ TaskAt("idle")
  /\ line' = "enabled"
  /\ UNCHANGED <<ctrl, chart, regChart, interrupt, isr, task, senders, history>>

\* The last thing registerEvent, unregisterEvent and disableEvent do.
LineOn ==
  /\ TaskAt("lineOn")
  /\ line' = "enabled"
  /\ tPc' = "returned" /\ tEv' = 0 /\ UNCHANGED tPayload
  /\ UNCHANGED <<ctrl, chart, regChart, interrupt, isr, senders, history>>

\* Back in the caller.
Returned ==
  /\ TaskAt("returned")
  /\ Goto("idle")
  /\ UNCHANGED <<ctrl, chart, regChart, intr, isr, senders, history>>

-----------------------------------------------------------------------------
SenderStep(s) ==
  CheckInit(s) \/ CheckEnabled(s) \/ CheckRegistered(s) \/ Poll(s) \/ Mask(s)
    \/ WritePayload(s) \/ RaiseFlag(s) \/ IntSend(s)

IsrStep == IsrScan \/ IsrSave \/ IsrAck \/ IsrExec

\* What the task does by itself once it has called an operation.
TaskStep ==
  setNotifyHandle \/ Unplug \/ RegClear \/ RegMask \/ UnregClear
    \/ DisTest \/ DisAck \/ DisExec \/ LineOn

Call(e) ==
  registerEvent(e) \/ unregisterEvent(e) \/ disableEvent(e) \/ enableEvent(e)

Next ==
  \/ \E s \in Sender : SenderStep(s) \/ \E e \in Event : sendEvent(s, e)
  \/ IsrEnter \/ IsrStep
  \/ TaskStep \/ Returned
  \/ \E e \in Event : Call(e)
  \/ Instance_init \/ Instance_finalize \/ disable \/ enable

Spec == Init /\ [][Next]_vars

\* Threads and tasks that are inside an operation keep running.  A pending
\* interrupt is taken if the line is enabled again and again (a latch of the
\* hardware), and a user who disables the line restores it.  No fairness
\* makes anybody send, register or disable.
Fairness ==
  /\ \A s \in Sender : WF_vars(SenderStep(s))
  /\ SF_vars(IsrEnter) /\ WF_vars(IsrStep)
  /\ WF_vars(TaskStep) /\ WF_vars(Returned)
  /\ SF_vars(enable)

FairSpec == Spec /\ Fairness

-----------------------------------------------------------------------------
TypeOK ==
  /\ recvInitStatus \in {"0", "INIT_STAMP"}
  /\ eventRegMask \subseteq Event
  /\ eventEnableMask \subseteq Event
  /\ flag \in [Event -> {"DOWN", "UP"}]
  /\ payload \in [Event -> Payload \cup {NoPayload}]
  /\ regChart \in Seq(Event)
  /\ line \in {"enabled", "disabled"}
  /\ interrupt \in {"pending", "clear"}
  /\ isrPc \in {"idle", "scan", "save", "ack", "exec"}
  /\ isrI \in Nat \ {0}
  /\ isrPayload \in Payload \cup {NoPayload}
  /\ tPc \in {"detached", "created", "idle", "unplug", "regClear", "regMask",
              "unregClear", "disTest", "disAck", "disExec", "lineOn", "returned"}
  /\ tEv \in Event
  /\ tPayload \in Payload \cup {NoPayload}
  /\ sPc \in [Sender -> {"idle", "checkInit", "checkEnabled", "checkReg", "poll",
                         "mask", "write", "raise", "intSend"}]
  /\ sEv \in [Sender -> Event]
  /\ sNum \in [Sender -> 0..MaxSends]
  /\ sends \in 0..MaxSends
  /\ sPoll \in [Sender -> 0..(IF sendEventPollCount = -1 THEN 0
                              ELSE sendEventPollCount - 1)]
  /\ accepted \subseteq [ev : Event, payload : Payload]
  /\ delivered \in Seq([ev : Event, payload : Payload \cup {NoPayload}])
  /\ dropped \subseteq Payload \cup {NoPayload}

\* Events whose sends the documentation calls reliable ("when in doubt, a
\* value of TRUE should be used"), and that nobody disables.
Reliable == WaitEvents \ DisableEvents

\* The isr reads regChart only while no (un)registration is under way on it,
\* and finds it sorted without duplicates: priorities are event numbers.
ChartInOrder ==
  /\ \A i, j \in DOMAIN regChart : i < j => regChart[i] < regChart[j]
  /\ isrPc # "idle" => tPc \notin {"regClear", "regMask", "unregClear"}

\* The payloads that a thread sends to a reliable event reach the callback at
\* most once each and in the order in which they were sent: neither the isr
\* nor a retry of sendEvent runs a callback twice for one send.
DeliveredInOrder ==
  \A i, j \in DOMAIN delivered :
    /\ i < j
    /\ delivered[i].ev \in Reliable
    /\ delivered[j].ev = delivered[i].ev
    /\ delivered[j].payload[1] = delivered[i].payload[1]
    => delivered[i].payload[2] < delivered[j].payload[2]

\* A reliable event that sendEvent accepted waits in the chart, is in the
\* hands of the isr, was delivered, or was cleared when its event number was
\* registered or unregistered: no later send overwrites it and no
\* acknowledgement is given for an event that was not taken.
NothingLost ==
  \A a \in accepted : a.ev \in Reliable =>
    \/ flag[a.ev] = "UP" /\ payload[a.ev] = a.payload
    \/ isrPc = "exec" /\ regChart[isrI] = a.ev /\ isrPayload = a.payload
    \/ \E i \in DOMAIN delivered : delivered[i] = a
    \/ a.payload \in dropped

-----------------------------------------------------------------------------
(* What the two rest on, besides TypeOK and ChartInOrder.                  *)

\* Operations that change the chart or take an event have the line disabled.
LineInv ==
  /\ tPc \in {"regClear", "regMask", "unregClear", "disAck", "disExec", "lineOn"} =>
       line = "disabled" /\ isrPc = "idle"
  /\ tPc \in {"detached", "created"} => regChart = <<>>
  /\ tPc = "detached" => isrPc = "idle"
  /\ tPc = "unregClear" => tEv \in ChartEvents
  /\ tPc \in {"disTest", "disAck", "disExec"} => tEv \in DisableEvents

\* From the scan to the callback the isr has an event of the chart.  It stays up
\* until the isr acknowledges it, a reliable one with its payload.
IsrInv ==
  isrPc \in {"save", "ack", "exec"} =>
    /\ isrI \in DOMAIN regChart
    /\ isrPc \in {"save", "ack"} => flag[regChart[isrI]] = "UP"
    /\ regChart[isrI] \in Reliable /\ isrPc = "ack" =>
         isrPayload = payload[regChart[isrI]]

\* One thread has interrupts disabled.  What it writes for a reliable event, the
\* receiver has acknowledged the event before.
SendInv ==
  /\ \A s, t \in Masked : s = t
  /\ \A s \in Sender :
       /\ sPc[s] = "mask" => sEv[s] \notin WaitEvents
       /\ sPc[s] = "raise" => payload[sEv[s]] = <<s, sNum[s]>>
       /\ sPc[s] \in {"write", "raise"} /\ sEv[s] \in Reliable => flag[sEv[s]] = "DOWN"
       /\ sPc[s] # "idle" => sNum[s] \in 1..sends

\* Of two payloads of one thread the first was sent earlier.
Behind(p, q) == p[1] = q[1] => p[2] < q[2]
InIsr(e) == isrPc = "exec" /\ regChart[isrI] = e
Up(e) == flag[e] = "UP"

\* What was delivered was sent before what the isr has, and that before what is in
\* the chart.
OrderInv ==
  \A e \in Reliable :
    /\ InIsr(e) => isrPayload \in Payload
    /\ Up(e) => payload[e] \in Payload
    /\ InIsr(e) /\ Up(e) => Behind(isrPayload, payload[e])
    /\ \A i \in DOMAIN delivered : delivered[i].ev = e =>
         /\ delivered[i].payload \in Payload
         /\ InIsr(e) => Behind(delivered[i].payload, isrPayload)
         /\ Up(e) => Behind(delivered[i].payload, payload[e])

\* A thread that has a payload still to raise numbered it after all that it has
\* sent already.
OnItsWay(e, p) ==
  \/ InIsr(e) /\ p = isrPayload
  \/ Up(e) /\ p = payload[e]
  \/ \E i \in DOMAIN delivered : delivered[i].ev = e /\ delivered[i].payload = p
NumberInv ==
  \A e \in Reliable, p \in Payload : OnItsWay(e, p) =>
    /\ p[2] <= sends
    /\ sPc[p[1]] \notin {"idle", "intSend"} => p[2] < sNum[p[1]]

\* Of any event, one that is disabled meanwhile included: how often sendEvent
\* raised it, how often its callback ran, and who has it in hand.
Raises(e) == {a \in accepted : a.ev = e}
Runs(e) == {i \in DOMAIN delivered : delivered[i].ev = e}
InTask(e) == tPc = "disExec" /\ tEv = e
OneIf(b) == IF b THEN 1 ELSE 0
InHand(e) == OneIf(Up(e)) + OneIf(InIsr(e)) + OneIf(InTask(e))

\* NotifyDriverShm_isr and disableEvent never both run the callback for one raise
\* of the flag, whatever the senders raise again in between.
TakenOnce ==
  \A e \in Event :
    Cardinality(Runs(e)) + InHand(e) <= Cardinality(Raises(e))

\* What that rests on: a raise is not one of those before, and the flag that
\* disableEvent found up is still up when it acknowledges it.
RaiseInv ==
  /\ IsFiniteSet(accepted)
  /\ \A a \in accepted :
       /\ a.payload[2] <= sends
       /\ sPc[a.payload[1]] \notin {"idle", "intSend"} =>
            a.payload[2] < sNum[a.payload[1]]
  /\ tPc = "disAck" => Up(tEv)

\* The inductive invariant of the driver.
IInv ==
  /\ TypeOK /\ ChartInOrder /\ LineInv /\ IsrInv /\ SendInv
  /\ OrderInv /\ NumberInv /\ DeliveredInOrder
  /\ TakenOnce /\ RaiseInv

\* No reliable event is lost and no event is taken twice, with what that rests on:
\* who may write to the chart while isr, task and senders interleave (sendEvent,
\* NotifyDriverShm_isr, disableEvent, registerEvent, unregisterEvent).
Inv == IInv /\ NothingLost

\* An event that is up, registered and enabled is acknowledged some day, or
\* unregistered or disabled: the isr misses no flag (the interrupt is cleared
\* before the scan), so no thread waits for it in vain.
UpIsServiced ==
  \A e \in Event \ DisableEvents :
    (flag[e] = "UP" /\ e \in ChartEvents) ~>
      (flag[e] = "DOWN" \/ e \notin ChartEvents)

\* disableEvent: "The other side will not send this event again even though
\* flag is down, because the event is now disabled. So the payload within the
\* eventChart will not get overwritten."
DisabledPayloadKept ==
  tPc = "disExec" /\ tEv \in WaitEvents => payload[tEv] = tPayload

\* disableEvent takes a pending event itself "so the other core isn't left
\* spinning until the event is re-enabled and the next NotifyDriverShm_isr
\* executes": a thread that spins on a flag of an event that is registered
\* and enabled for good does not spin for ever.
NotLeftSpinning ==
  \A s \in Sender :
    (sPc[s] = "poll") ~>
      (sPc[s] # "poll" \/ sEv[s] \notin ChartEvents \/ sEv[s] \notin eventEnableMask)
=============================================================================
