------------------------------ MODULE NotifyProofs ------------------------------
(***************************************************************************)
(* Proofs about NotifyDriverShm and, on top of it, Notify, for any number  *)
(* of events, listeners, sending threads and sends.  First the driver: a   *)
(* reliable event is neither lost nor repeated nor reordered, however the  *)
(* senders, the isr and the receiver's task interleave.  Then the tables   *)
(* of Notify and the registrations of the driver agree, and the isr never  *)
(* finds an event without a callback.                                      *)
(***************************************************************************)
EXTENDS Notify, FiniteSetTheorems, TLAPS

USE EventAssumption, BoundAssumption DEF Event, Payload

SenderMove(s) == SenderStep(s) \/ \E e \in Event : sendEvent(s, e)

\* Steps of the task that touch neither the event chart nor the registrations.
Calm ==
  \/ setNotifyHandle \/ RegMask \/ DisTest \/ LineOn \/ Returned
  \/ \E e \in Event : unregisterEvent(e) \/ disableEvent(e) \/ enableEvent(e)
  \/ Instance_finalize \/ disable \/ enable
\* ... and those that change the registration chart, or take or clear an event.
Rechart == Unplug \/ Instance_init \/ \E e \in Event : registerEvent(e)
Clear == RegClear \/ UnregClear
Take == DisAck \/ DisExec

LEMMA Steps ==
  ASSUME Next
  PROVE  \/ \E s \in Sender : SenderMove(s)
         \/ IsrEnter \/ IsrScan \/ IsrSave \/ IsrAck \/ IsrExec
         \/ Calm \/ Rechart \/ Clear \/ Take
BY Zenon DEF Next, SenderMove, TaskStep, Call, IsrStep, Calm, Rechart, Clear, Take

-----------------------------------------------------------------------------
\* What the steps leave alone.
LEMMA SenderFrame ==
  ASSUME NEW s \in Sender, SenderMove(s)
  PROVE  UNCHANGED <<ctrl, regChart, line, isr, task, delivered, dropped>>
<1> USE DEF intr, chart, history
<1>1. CASE CheckInit(s) \/ CheckEnabled(s) \/ CheckRegistered(s)
  BY <1>1 DEF CheckInit, CheckEnabled, CheckRegistered, Check
<1>2. CASE Poll(s) \/ Mask(s) \/ WritePayload(s)
  BY <1>2 DEF Poll, Mask, WritePayload
<1>3. CASE RaiseFlag(s) \/ IntSend(s) \/ \E e \in Event : sendEvent(s, e)
  BY <1>3 DEF RaiseFlag, IntSend, sendEvent
<1>4. QED
  BY <1>1, <1>2, <1>3 DEF SenderMove, SenderStep

LEMMA IsrFrame ==
  ASSUME IsrEnter \/ IsrScan \/ IsrSave \/ IsrAck \/ IsrExec
  PROVE  UNCHANGED <<ctrl, regChart, line, task, senders, payload, accepted, dropped>>
BY DEF IsrEnter, IsrScan, IsrSave, IsrAck, IsrExec, intr, chart, history

LEMMA CalmFrame ==
  ASSUME Calm
  PROVE  isrPc = "idle" /\ UNCHANGED <<isr, senders, chart, history, interrupt>>
BY DEF Calm, setNotifyHandle, RegMask, DisTest, LineOn, Returned, unregisterEvent,
  disableEvent, enableEvent, Instance_finalize, disable, enable, TaskAt, intr

LEMMA RechartFrame ==
  ASSUME Rechart
  PROVE  isrPc = "idle" /\ UNCHANGED <<isr, senders, chart, history, interrupt>>
BY DEF Rechart, Unplug, Instance_init, registerEvent, TaskAt

LEMMA ClearFrame ==
  ASSUME Clear
  PROVE  /\ isrPc = "idle" /\ UNCHANGED <<isr, senders, payload, accepted, delivered, intr, ctrl>>
         /\ flag' = [flag EXCEPT ![tEv] = "DOWN"]
         /\ dropped' = IF flag[tEv] = "UP" THEN dropped \cup {payload[tEv]} ELSE dropped
BY DEF Clear, RegClear, UnregClear, ClearPending, TaskAt

LEMMA TakeFrame ==
  ASSUME Take
  PROVE  /\ isrPc = "idle" /\ tPc \in {"disAck", "disExec"}
         /\ UNCHANGED <<isr, senders, payload, accepted, dropped, regChart, intr, ctrl>>
         /\ \/ flag' = [flag EXCEPT ![tEv] = "DOWN"] /\ UNCHANGED delivered
            \/ /\ delivered' = Append(delivered, [ev |-> tEv, payload |-> payload[tEv]])
               /\ UNCHANGED flag
BY DEF Take, DisAck, DisExec, Notify_exec, TaskAt, chart, history

-----------------------------------------------------------------------------
\* The types, by what a step changes.
CtrlTypes ==
  /\ recvInitStatus \in {"0", "INIT_STAMP"}
  /\ eventRegMask \subseteq Event /\ eventEnableMask \subseteq Event
  /\ line \in {"enabled", "disabled"} /\ interrupt \in {"pending", "clear"}
ChartTypes ==
  /\ flag \in [Event -> {"DOWN", "UP"}]
  /\ payload \in [Event -> Payload \cup {NoPayload}]
  /\ regChart \in Seq(Event)
IsrTypes ==
  /\ isrPc \in {"idle", "scan", "save", "ack", "exec"} /\ isrI \in Nat \ {0}
  /\ isrPayload \in Payload \cup {NoPayload}
TaskTypes ==
  /\ tPc \in {"detached", "created", "idle", "unplug", "regClear", "regMask",
              "unregClear", "disTest", "disAck", "disExec", "lineOn", "returned"}
  /\ tEv \in Event /\ tPayload \in Payload \cup {NoPayload}
SenderTypes ==
  /\ sPc \in [Sender -> {"idle", "checkInit", "checkEnabled", "checkReg", "poll",
                         "mask", "write", "raise", "intSend"}]
  /\ sEv \in [Sender -> Event] /\ sNum \in [Sender -> 0..MaxSends] /\ sends \in 0..MaxSends
  /\ sPoll \in [Sender -> 0..(IF sendEventPollCount = -1 THEN 0 ELSE sendEventPollCount - 1)]
HistoryTypes ==
  /\ accepted \subseteq [ev : Event, payload : Payload]
  /\ delivered \in Seq([ev : Event, payload : Payload \cup {NoPayload}])
  /\ dropped \subseteq Payload \cup {NoPayload}

AllTypes == CtrlTypes /\ ChartTypes /\ IsrTypes /\ TaskTypes /\ SenderTypes /\ HistoryTypes

LEMMA Types == (TypeOK <=> AllTypes) /\ (TypeOK' <=> AllTypes')
BY DEF AllTypes, TypeOK, CtrlTypes, ChartTypes, IsrTypes, TaskTypes, SenderTypes,
  HistoryTypes

\* What a thread sends is a payload.
LEMMA Numbered ==
  ASSUME TypeOK, SendInv, NEW s \in Sender, sPc[s] # "idle"
  PROVE  <<s, sNum[s]>> \in Payload /\ sNum[s] \in 1..sends /\ sNum[s] <= MaxSends
<1>1. sNum[s] \in 1..sends /\ sends \in 0..MaxSends
  BY DEF SendInv, TypeOK
<1>2. QED
  BY <1>1

\* A sender writes a payload, raises a flag, or leaves chart and history alone.
Quiet(s) ==
  \/ CheckInit(s) \/ CheckEnabled(s) \/ CheckRegistered(s) \/ Poll(s) \/ Mask(s)
  \/ IntSend(s) \/ \E e \in Event : sendEvent(s, e)

LEMMA SenderSteps ==
  ASSUME NEW s \in Sender, SenderMove(s)
  PROVE  Quiet(s) \/ WritePayload(s) \/ RaiseFlag(s)
BY DEF SenderMove, SenderStep, Quiet

LEMMA QuietFrame ==
  ASSUME NEW s \in Sender, Quiet(s)
  PROVE  UNCHANGED <<chart, history>>
BY DEF Quiet, CheckInit, CheckEnabled, CheckRegistered, Check, Poll, Mask, IntSend, sendEvent

Pcs == {"idle", "checkInit", "checkEnabled", "checkReg", "poll", "mask", "write", "raise",
        "intSend"}

LEMMA QuietTypes ==
  ASSUME CtrlTypes, SenderTypes, NEW s \in Sender, Quiet(s)
  PROVE  CtrlTypes' /\ SenderTypes'
<1>1. CtrlTypes'
  BY DEF CtrlTypes, ctrl, intr, Quiet, CheckInit, CheckEnabled, CheckRegistered, Check,
    Poll, Mask, IntSend, sendEvent
<1> DEFINE Limit == IF sendEventPollCount = -1 THEN 0 ELSE sendEventPollCount - 1
<1>2. Limit \in Nat
  OBVIOUS
<1>3. /\ sPc \in [Sender -> Pcs] /\ sEv \in [Sender -> Event]
      /\ sNum \in [Sender -> 0..MaxSends] /\ sends \in 0..MaxSends
      /\ sPoll \in [Sender -> 0..Limit]
  BY DEF SenderTypes, Pcs
<1>4. \/ Return(s)
      \/ \E n \in Pcs : sPc' = [sPc EXCEPT ![s] = n] /\ UNCHANGED <<sEv, sNum, sPoll, sends>>
      \/ \E i \in 0..Limit : sPoll' = [sPoll EXCEPT ![s] = i] /\ UNCHANGED <<sPc, sEv, sNum, sends>>
      \/ /\ sends' = sends + 1 /\ sends < MaxSends /\ sNum' = [sNum EXCEPT ![s] = sends + 1]
         /\ \E e \in Event : sEv' = [sEv EXCEPT ![s] = e]
         /\ sPc' = [sPc EXCEPT ![s] = "checkInit"] /\ UNCHANGED sPoll
  <2>1. CASE CheckInit(s) \/ CheckEnabled(s) \/ CheckRegistered(s)
    BY <2>1 DEF CheckInit, CheckEnabled, CheckRegistered, Check, Pcs
  <2>2. CASE Mask(s) \/ IntSend(s) \/ \E e \in Event : sendEvent(s, e)
    BY <2>2 DEF Mask, IntSend, sendEvent, Pcs
  <2>3. CASE Poll(s)
    <3>1. sPoll[s] \in 0..Limit
      BY <1>3
    <3>2. sPoll[s] + 1 # sendEventPollCount /\ sendEventPollCount # -1 => sPoll[s] + 1 \in 0..Limit
      BY <3>1
    <3>3. 0 \in 0..Limit
      BY <1>2
    <3> HIDE DEF Limit
    <3>4. QED
      BY <2>3, <3>2, <3>3 DEF Poll, Pcs
  <2>4. QED
    BY <2>1, <2>2, <2>3 DEF Quiet
<1> HIDE DEF Limit
<1>5. 0 \in 0..Limit /\ 0 \in 0..MaxSends /\ 0 \in Event /\ "idle" \in Pcs /\ "checkInit" \in Pcs
  BY <1>2 DEF Pcs
<1>6. /\ sPc' \in [Sender -> Pcs] /\ sEv' \in [Sender -> Event]
      /\ sNum' \in [Sender -> 0..MaxSends] /\ sends' \in 0..MaxSends
      /\ sPoll' \in [Sender -> 0..Limit]
  <2>1. CASE Return(s)
    BY <1>3, <1>5, <2>1 DEF Return
  <2>2. CASE \E n \in Pcs : sPc' = [sPc EXCEPT ![s] = n] /\ UNCHANGED <<sEv, sNum, sPoll, sends>>
    BY <1>3, <2>2
  <2>3. CASE \E i \in 0..Limit : sPoll' = [sPoll EXCEPT ![s] = i] /\ UNCHANGED <<sPc, sEv, sNum, sends>>
    BY <1>3, <2>3
  <2>4. CASE /\ sends' = sends + 1 /\ sends < MaxSends /\ sNum' = [sNum EXCEPT ![s] = sends + 1]
             /\ \E e \in Event : sEv' = [sEv EXCEPT ![s] = e]
             /\ sPc' = [sPc EXCEPT ![s] = "checkInit"] /\ UNCHANGED sPoll
    <3>1. sends + 1 \in 0..MaxSends
      BY <1>3, <2>4
    <3>2. QED
      BY <1>3, <1>5, <2>4, <3>1
  <2>5. QED
    BY <1>4, <2>1, <2>2, <2>3, <2>4
<1>7. SenderTypes'
  BY <1>6 DEF SenderTypes, Limit, Pcs
<1>8. QED
  BY <1>1, <1>7

LEMMA SenderTypeStep ==
  ASSUME TypeOK, SendInv, NEW s \in Sender, SenderMove(s)
  PROVE  TypeOK'
<1>1. CtrlTypes /\ ChartTypes /\ IsrTypes /\ TaskTypes /\ SenderTypes /\ HistoryTypes
  BY Types DEF AllTypes
<1>2. IsrTypes' /\ TaskTypes'
  BY <1>1, SenderFrame DEF isr, task, IsrTypes, TaskTypes
<1>3. CASE Quiet(s)
  <2>1. ChartTypes' /\ HistoryTypes'
    BY <1>1, <1>3, SenderFrame, QuietFrame DEF ChartTypes, HistoryTypes, chart, history
  <2>2. QED
    BY <1>1, <1>2, <1>3, <2>1, QuietTypes, Types DEF AllTypes
<1>4. CASE WritePayload(s) \/ RaiseFlag(s)
  <2>1. <<s, sNum[s]>> \in Payload
    BY <1>4, Numbered DEF WritePayload, RaiseFlag, SenderAt
  <2>2. CtrlTypes'
    BY <1>1, <1>4 DEF CtrlTypes, WritePayload, RaiseFlag, ctrl, intr
  <2>3. SenderTypes'
    BY <1>1, <1>4 DEF SenderTypes, WritePayload, RaiseFlag
  <2>4. ChartTypes' /\ HistoryTypes'
    <3>1. CASE WritePayload(s)
      BY <1>1, <2>1, <3>1 DEF ChartTypes, HistoryTypes, WritePayload, history, SenderTypes
    <3>2. CASE RaiseFlag(s)
      <4>1. [ev |-> sEv[s], payload |-> <<s, sNum[s]>>] \in [ev : Event, payload : Payload]
        BY <1>1, <2>1 DEF SenderTypes
      <4>2. QED
        BY <1>1, <3>2, <4>1 DEF ChartTypes, HistoryTypes, RaiseFlag, SenderTypes
    <3>3. QED
      BY <1>4, <3>1, <3>2
  <2>5. QED
    BY <1>2, <2>2, <2>3, <2>4, Types DEF AllTypes
<1>5. QED
  BY <1>3, <1>4, SenderSteps

LEMMA IsrTypeStep ==
  ASSUME TypeOK, IsrInv, IsrEnter \/ IsrScan \/ IsrSave \/ IsrAck \/ IsrExec
  PROVE  TypeOK'
<1>1. CtrlTypes /\ ChartTypes /\ IsrTypes /\ TaskTypes /\ SenderTypes /\ HistoryTypes
  BY Types DEF AllTypes
<1>2. TaskTypes' /\ SenderTypes'
  BY <1>1, IsrFrame DEF task, senders, TaskTypes, SenderTypes
<1>3. CtrlTypes'
  <2>1. UNCHANGED <<ctrl, line>>
    BY IsrFrame
  <2>2. interrupt' = interrupt \/ interrupt' = "clear"
    BY DEF IsrEnter, IsrScan, IsrSave, IsrAck, IsrExec, intr
  <2>3. QED
    BY <1>1, <2>1, <2>2 DEF CtrlTypes, ctrl
<1>4. ASSUME isrPc \in {"save", "ack", "exec"}
      PROVE  regChart[isrI] \in Event
  BY <1>1, <1>4 DEF IsrInv, ChartTypes
<1>5. IsrTypes'
  BY <1>1, <1>4 DEF IsrTypes, ChartTypes, IsrEnter, IsrScan, IsrSave, IsrAck, IsrExec
<1>6. ChartTypes'
  <2>1. UNCHANGED <<regChart, payload>>
    BY IsrFrame
  <2>2. flag' \in [Event -> {"DOWN", "UP"}]
    BY <1>1, <1>4 DEF ChartTypes, IsrEnter, IsrScan, IsrSave, IsrAck, IsrExec, chart
  <2>3. QED
    BY <1>1, <2>1, <2>2 DEF ChartTypes
<1>7. HistoryTypes'
  <2>1. UNCHANGED <<accepted, dropped>>
    BY IsrFrame
  <2>2. CASE IsrExec
    <3>1. [ev |-> regChart[isrI], payload |-> isrPayload] \in [ev : Event, payload : Payload \cup {NoPayload}]
      BY <1>1, <1>4, <2>2 DEF IsrTypes, IsrExec
    <3>2. QED
      BY <1>1, <2>1, <2>2, <3>1 DEF HistoryTypes, IsrExec, Notify_exec
  <2>3. CASE ~IsrExec
    BY <1>1, <2>1, <2>3 DEF HistoryTypes, IsrEnter, IsrScan, IsrSave, IsrAck, history
  <2>4. QED
    BY <2>2, <2>3
<1>8. QED
  BY <1>2, <1>3, <1>5, <1>6, <1>7, Types DEF AllTypes

\* Sequences.
LEMMA EmptyOK == \A S : <<>> \in Seq(S)
OBVIOUS

LEMMA AppendOK ==
  ASSUME NEW S, NEW q \in Seq(S), NEW x \in S
  PROVE  /\ Append(q, x) \in Seq(S) /\ Len(q) \in Nat /\ Append(q, x)[Len(q) + 1] = x
         /\ DOMAIN q = 1..Len(q) /\ DOMAIN Append(q, x) = 1..(Len(q) + 1)
         /\ \A i \in 1..Len(q) : Append(q, x)[i] = q[i]
OBVIOUS

\* An entry of the registration chart is an event; inserting and removing keep it so.
LEMMA InsertedOK ==
  ASSUME regChart \in Seq(Event), NEW e \in Event, NEW n \in 1..(Len(regChart) + 1)
  PROVE  /\ Inserted(e, n) \in Seq(Event) /\ Len(Inserted(e, n)) = Len(regChart) + 1
         /\ \A i \in 1..(Len(regChart) + 1) :
              Inserted(e, n)[i] = IF i < n THEN regChart[i] ELSE IF i = n THEN e ELSE regChart[i - 1]
<1>1. \A i \in 1..(Len(regChart) + 1) :
        (IF i < n THEN regChart[i] ELSE IF i = n THEN e ELSE regChart[i - 1]) \in Event
  BY SMTT(40)
<1>2. Inserted(e, n) \in [1..(Len(regChart) + 1) -> Event]
  BY <1>1 DEF Inserted
<1>3. Len(regChart) + 1 \in Nat
  OBVIOUS
<1>4. QED
  BY <1>2, <1>3, SMTT(40) DEF Inserted

LEMMA ClosedOK ==
  ASSUME regChart \in Seq(Event), NEW n \in DOMAIN regChart
  PROVE  /\ Closed(n) \in Seq(Event) /\ Len(Closed(n)) = Len(regChart) - 1
         /\ \A i \in 1..(Len(regChart) - 1) :
              Closed(n)[i] = IF i < n THEN regChart[i] ELSE regChart[i + 1]
<1>1. \A i \in 1..(Len(regChart) - 1) :
        (IF i < n THEN regChart[i] ELSE regChart[i + 1]) \in Event
  OBVIOUS
<1>2. Closed(n) \in [1..(Len(regChart) - 1) -> Event]
  BY <1>1 DEF Closed
<1>3. Len(regChart) - 1 \in Nat
  OBVIOUS
<1>4. QED
  BY <1>2, <1>3 DEF Closed

\* Both keep an ascending chart ascending.
Ascending(f, n) == \A i, j \in 1..n : i < j => f[i] < f[j]

LEMMA InsertedAscending ==
  ASSUME NEW L \in Nat, NEW f \in [1..L -> Int], NEW n \in 1..(L + 1), NEW e \in Int, NEW g,
         Ascending(f, L), \A i \in 1..L : IF i < n THEN f[i] < e ELSE e < f[i],
         \A i \in 1..(L + 1) : g[i] = IF i < n THEN f[i] ELSE IF i = n THEN e ELSE f[i - 1]
  PROVE  Ascending(g, L + 1)
<1> SUFFICES ASSUME NEW i \in 1..(L + 1), NEW j \in 1..(L + 1), i < j
             PROVE  g[i] < g[j]
  BY DEF Ascending
<1>1. CASE j < n
  <2>1. i \in 1..L /\ j \in 1..L /\ f[i] < f[j]
    BY <1>1 DEF Ascending
  <2>2. QED
    BY <1>1, <2>1
<1>2. CASE j = n
  BY <1>2
<1>3. CASE j > n /\ i < n
  <2>1. i \in 1..L /\ (j - 1) \in 1..L /\ f[i] < e /\ e < f[j - 1] /\ f[i] \in Int /\ f[j - 1] \in Int
    BY <1>3
  <2>2. f[i] < f[j - 1]
    BY <2>1
  <2>3. QED
    BY <1>3, <2>2
<1>4. CASE i = n
  <2>1. j - 1 \in 1..L /\ ~(j - 1 < n)
    BY <1>4
  <2>2. QED
    BY <1>4, <2>1
<1>5. CASE i > n
  <2>1. i - 1 \in 1..L /\ j - 1 \in 1..L /\ i - 1 < j - 1
    BY <1>5
  <2>2. f[i - 1] < f[j - 1]
    BY <2>1 DEF Ascending
  <2>3. QED
    BY <1>5, <2>2
<1>6. QED
  BY <1>1, <1>2, <1>3, <1>4, <1>5

LEMMA ClosedAscending ==
  ASSUME NEW L \in Nat, NEW f \in [1..L -> Int], NEW n \in 1..L, NEW g, Ascending(f, L),
         \A i \in 1..(L - 1) : g[i] = IF i < n THEN f[i] ELSE f[i + 1]
  PROVE  Ascending(g, L - 1)
<1> SUFFICES ASSUME NEW i \in 1..(L - 1), NEW j \in 1..(L - 1), i < j
             PROVE  g[i] < g[j]
  BY DEF Ascending
<1>1. i + 1 \in 1..L /\ j + 1 \in 1..L /\ i \in 1..L /\ j \in 1..L
  OBVIOUS
<1>2. f[i] < f[j] /\ f[i + 1] < f[j + 1] /\ f[i] < f[j + 1]
  BY <1>1 DEF Ascending
<1>3. QED
  BY <1>2

LEMMA TaskTypeStep ==
  ASSUME TypeOK, Calm \/ Rechart \/ Clear \/ Take
  PROVE  TypeOK'
<1>1. CtrlTypes /\ ChartTypes /\ IsrTypes /\ TaskTypes /\ SenderTypes /\ HistoryTypes
  BY Types DEF AllTypes
<1>2. UNCHANGED isr /\ UNCHANGED senders
  BY CalmFrame, RechartFrame, ClearFrame, TakeFrame
<1>3. IsrTypes' /\ SenderTypes'
  BY <1>1, <1>2 DEF isr, senders, IsrTypes, SenderTypes
<1>4. CASE Calm
  <2>1. HistoryTypes'
    BY <1>1, <1>4, CalmFrame DEF HistoryTypes, history
  <2>2. CtrlTypes' /\ regChart' = regChart
    BY <1>1, <1>4 DEF CtrlTypes, TaskTypes, Calm, setNotifyHandle, RegMask, DisTest, LineOn,
      Returned, unregisterEvent, disableEvent, enableEvent, Instance_finalize, disable, enable,
      ctrl, intr
  <2>3. TaskTypes'
    BY <1>1, <1>4 DEF TaskTypes, Calm, setNotifyHandle, RegMask, DisTest, LineOn,
      Returned, unregisterEvent, disableEvent, enableEvent, Instance_finalize, disable, enable,
      Goto, task
  <2>4. ChartTypes'
    BY <1>1, <1>4, <2>2, CalmFrame DEF ChartTypes, chart
  <2>5. QED
    BY <1>3, <2>1, <2>2, <2>3, <2>4, Types DEF AllTypes
<1>5. CASE Rechart
  <2>1. HistoryTypes'
    BY <1>1, <1>5, RechartFrame DEF HistoryTypes, history
  <2>2. CtrlTypes' /\ TaskTypes'
    BY <1>1, <1>5 DEF CtrlTypes, TaskTypes, Rechart, Unplug, Instance_init, registerEvent,
      Goto, ctrl
  <2>3. regChart' \in Seq(Event)
    <3>1. CASE Unplug \/ Instance_init
      BY <3>1, EmptyOK DEF Unplug, Instance_init
    <3>2. CASE \E e \in Event : registerEvent(e)
      <4>1. PICK e \in Event : registerEvent(e)
        BY <3>2
      <4>2. PICK n \in 1..(Len(regChart) + 1) : regChart' = Inserted(e, n)
        BY <4>1 DEF registerEvent
      <4>3. regChart \in Seq(Event)
        BY <1>1 DEF ChartTypes
      <4>4. Inserted(e, n) \in Seq(Event)
        BY ONLY <4>3, e \in Event, n \in 1..(Len(regChart) + 1), InsertedOK
      <4>5. QED
        BY <4>2, <4>4
    <3>3. QED
      BY <1>5, <3>1, <3>2 DEF Rechart
  <2>4. ChartTypes'
    BY <1>1, <1>5, <2>3, RechartFrame DEF ChartTypes, chart
  <2>5. QED
    BY <1>3, <2>1, <2>2, <2>4, Types DEF AllTypes
<1>6. CASE Clear
  <2>1. CtrlTypes' /\ HistoryTypes'
    BY <1>1, <1>6, ClearFrame, ZenonT(40) DEF CtrlTypes, HistoryTypes, ctrl, intr, TaskTypes, ChartTypes
  <2>2. TaskTypes'
    BY <1>1, <1>6 DEF TaskTypes, Clear, RegClear, UnregClear, Goto
  <2>3. regChart' \in Seq(Event)
    BY <1>1, <1>6, ClosedOK DEF ChartTypes, Clear, RegClear, UnregClear
  <2>4. ChartTypes'
    BY <1>1, <1>6, <2>3, ClearFrame DEF ChartTypes, TaskTypes
  <2>5. QED
    BY <1>3, <2>1, <2>2, <2>4, Types DEF AllTypes
<1>7. CASE Take
  <2>1. CtrlTypes' /\ ChartTypes'
    BY <1>1, <1>7, TakeFrame DEF CtrlTypes, ChartTypes, TaskTypes, ctrl, intr
  <2>2. TaskTypes'
    BY <1>1, <1>7 DEF TaskTypes, ChartTypes, Take, DisAck, DisExec
  <2>3. [ev |-> tEv, payload |-> payload[tEv]] \in [ev : Event, payload : Payload \cup {NoPayload}]
    BY <1>1 DEF TaskTypes, ChartTypes
  <2>4. UNCHANGED <<accepted, dropped>>
    BY <1>7, TakeFrame
  <2>5. delivered' \in Seq([ev : Event, payload : Payload \cup {NoPayload}])
    <3>1. \/ UNCHANGED delivered
          \/ delivered' = Append(delivered, [ev |-> tEv, payload |-> payload[tEv]])
      BY <1>7, TakeFrame
    <3> DEFINE Calls == [ev : Event, payload : Payload \cup {NoPayload}]
    <3>2. delivered \in Seq(Calls) /\ [ev |-> tEv, payload |-> payload[tEv]] \in Calls
      BY <1>1, <2>3 DEF HistoryTypes
    <3> HIDE DEF Calls
    <3>3. delivered' \in Seq(Calls)
      BY ONLY <3>1, <3>2, AppendOK
    <3>4. QED
      BY <3>3 DEF Calls
  <2>6. HistoryTypes'
    BY <1>1, <2>4, <2>5 DEF HistoryTypes
  <2>7. QED
    BY <1>3, <2>1, <2>2, <2>6, Types DEF AllTypes
<1>8. QED
  BY <1>4, <1>5, <1>6, <1>7

-----------------------------------------------------------------------------
\* The registrations: who changes the chart has the line disabled.
Registrations == ChartInOrder /\ LineInv

LEMMA SenderRegistrations ==
  ASSUME Registrations, NEW s \in Sender, SenderMove(s)
  PROVE  Registrations'
BY SenderFrame DEF Registrations, ChartInOrder, LineInv, ChartEvents, isr, task

LEMMA IsrRegistrations ==
  ASSUME Registrations, IsrEnter \/ IsrScan \/ IsrSave \/ IsrAck \/ IsrExec
  PROVE  Registrations'
<1>1. UNCHANGED <<regChart, line, task>>
  BY IsrFrame
<1>2. isrPc' = "idle" \/ isrPc # "idle" \/ (line = "enabled" /\ tPc # "detached")
  BY DEF IsrEnter, IsrScan, IsrSave, IsrAck, IsrExec
<1>3. isrPc' # "idle" => tPc # "detached" /\ tPc \notin
        {"regClear", "regMask", "unregClear", "disAck", "disExec", "lineOn"}
  BY <1>2 DEF Registrations, LineInv
<1>4. QED
  BY <1>1, <1>3 DEF Registrations, ChartInOrder, LineInv, ChartEvents, task

LEMMA TaskRegistrations ==
  ASSUME TypeOK, Registrations, Calm \/ Rechart \/ Clear \/ Take
  PROVE  Registrations'
<1>1. isrPc = "idle" /\ isrPc' = "idle"
  BY CalmFrame, RechartFrame, ClearFrame, TakeFrame DEF isr
<1>2. regChart \in Seq(Event) /\ tEv \in Event
  BY DEF TypeOK
<1>3. Len(regChart) \in Nat /\ regChart \in [1..Len(regChart) -> Int] /\ DOMAIN regChart = 1..Len(regChart)
  BY <1>2
<1>4. Ascending(regChart', Len(regChart')) /\ DOMAIN regChart' = 1..Len(regChart')
  <2> Ascending(regChart, Len(regChart))
    BY <1>3 DEF Registrations, ChartInOrder, Ascending
  <2>1. CASE \E e \in Event : registerEvent(e)
    <3>1. PICK e \in Event : registerEvent(e)
      BY <2>1
    <3>2. PICK n \in 1..(Len(regChart) + 1) : PlaceOf(e, n) /\ regChart' = Inserted(e, n)
      BY <3>1 DEF registerEvent
    <3>3. /\ Inserted(e, n) \in Seq(Event) /\ Len(Inserted(e, n)) = Len(regChart) + 1
          /\ \A i \in 1..(Len(regChart) + 1) :
               Inserted(e, n)[i] = IF i < n THEN regChart[i] ELSE IF i = n THEN e ELSE regChart[i - 1]
      BY ONLY <1>2, e \in Event, n \in 1..(Len(regChart) + 1), InsertedOK
    <3>4. \A i \in 1..Len(regChart) : IF i < n THEN regChart[i] < e ELSE e < regChart[i]
      <4>1. \A i \in 1..Len(regChart) : regChart[i] # e
        BY <1>3, <3>1 DEF registerEvent, ChartEvents
      <4>2. QED
        BY <1>3, <3>2, <4>1 DEF PlaceOf
    <3>5. Ascending(Inserted(e, n), Len(regChart) + 1)
      BY <1>3, <3>3, <3>4, InsertedAscending, e \in Int, n \in 1..(Len(regChart) + 1)
    <3>6. DOMAIN Inserted(e, n) = 1..Len(Inserted(e, n))
      BY <3>3
    <3>7. QED
      BY <3>2, <3>3, <3>5, <3>6
  <2>2. CASE UnregClear
    <3>1. PICK n \in DOMAIN regChart : regChart' = Closed(n)
      BY <2>2 DEF UnregClear
    <3>2. /\ Closed(n) \in Seq(Event) /\ Len(Closed(n)) = Len(regChart) - 1
          /\ \A i \in 1..(Len(regChart) - 1) :
               Closed(n)[i] = IF i < n THEN regChart[i] ELSE regChart[i + 1]
      BY ONLY <1>2, n \in DOMAIN regChart, ClosedOK
    <3>3. Ascending(Closed(n), Len(regChart) - 1)
      BY <1>3, <3>2, ClosedAscending, n \in 1..Len(regChart)
    <3>4. DOMAIN Closed(n) = 1..Len(Closed(n))
      BY <3>2
    <3>5. QED
      BY <3>1, <3>2, <3>3, <3>4
  <2>3. CASE regChart' = <<>>
    BY <2>3 DEF Ascending
  <2>4. CASE regChart' = regChart
    BY <1>3, <2>4
  <2>5. QED
    BY <2>1, <2>2, <2>3, <2>4 DEF Rechart, Clear, Take, Calm, RegClear, DisAck, DisExec, Unplug,
      Instance_init, setNotifyHandle, RegMask, DisTest, LineOn, Returned, unregisterEvent,
      disableEvent, enableEvent, Instance_finalize, disable, enable
<1>5. LineInv'
  <2> USE <1>1 DEF LineInv, TaskAt, Goto, task, intr, ChartEvents
  <2>1. LineInv
    BY DEF Registrations
  <2>2. CASE Calm
    BY <2>1, <2>2 DEF Calm, setNotifyHandle, RegMask, DisTest, LineOn, Returned, unregisterEvent,
      disableEvent, enableEvent, Instance_finalize, disable, enable
  <2>3. CASE Rechart
    BY <2>1, <2>3 DEF Rechart, Unplug, Instance_init, registerEvent
  <2>4. CASE Clear
    BY <2>1, <2>4 DEF Clear, RegClear, UnregClear
  <2>5. CASE Take
    BY <2>1, <2>5 DEF Take, DisAck, DisExec
  <2>6. QED
    BY <2>2, <2>3, <2>4, <2>5
<1>6. QED
  BY <1>1, <1>4, <1>5 DEF Registrations, ChartInOrder, Ascending

-----------------------------------------------------------------------------
\* The event in the hands of the isr stays up, with its payload.
LEMMA SenderIsrInv ==
  ASSUME TypeOK, IsrInv, SendInv, NEW s \in Sender, SenderMove(s)
  PROVE  IsrInv'
<1>1. UNCHANGED <<regChart, isrPc, isrI, isrPayload>>
  BY SenderFrame DEF isr
<1> SUFFICES ASSUME isrPc \in {"save", "ack", "exec"}
             PROVE  IsrInv'
  BY <1>1 DEF IsrInv
<1>2. isrI \in DOMAIN regChart /\ regChart \in Seq(Event)
  BY DEF IsrInv, TypeOK
<1> DEFINE e == regChart[isrI]
<1>3. e \in Event
  BY <1>2
<1>4. flag \in [Event -> {"DOWN", "UP"}] /\ payload \in [Event -> Payload \cup {NoPayload}]
      /\ sEv \in [Sender -> Event]
  BY DEF TypeOK
<1>5. /\ isrPc \in {"save", "ack"} => flag[e] = "UP"
      /\ e \in Reliable /\ isrPc = "ack" => isrPayload = payload[e]
  BY DEF IsrInv
<1> HIDE DEF e
<1>6. /\ isrPc \in {"save", "ack"} => flag'[e] = "UP"
      /\ e \in Reliable /\ isrPc = "ack" => isrPayload = payload'[e]
  <2>1. CASE Quiet(s)
    BY <1>5, <2>1, QuietFrame DEF chart
  <2>2. CASE WritePayload(s)
    <3>1. sEv[s] \in Reliable => flag[sEv[s]] = "DOWN"
      BY <2>2 DEF WritePayload, SenderAt, SendInv
    <3>2. sEv[s] # e => payload'[e] = payload[e]
      BY <1>3, <1>4, <2>2 DEF WritePayload
    <3>3. flag' = flag
      BY <2>2 DEF WritePayload
    <3>4. QED
      BY <1>5, <3>1, <3>2, <3>3
  <2>3. CASE RaiseFlag(s)
    BY <1>3, <1>4, <1>5, <2>3 DEF RaiseFlag
  <2>4. QED
    BY <2>1, <2>2, <2>3, SenderSteps
<1>7. QED
  BY <1>1, <1>2, <1>6 DEF IsrInv, e

LEMMA IsrIsrInv ==
  ASSUME TypeOK, IsrInv, IsrEnter \/ IsrScan \/ IsrSave \/ IsrAck \/ IsrExec
  PROVE  IsrInv'
<1>1. regChart' = regChart /\ payload' = payload
  BY IsrFrame
<1>2. CASE IsrEnter \/ IsrExec \/ IsrAck
  BY <1>1, <1>2 DEF IsrInv, IsrEnter, IsrExec, IsrAck
<1>3. CASE IsrScan
  BY <1>1, <1>3 DEF IsrInv, IsrScan, TypeOK, chart
<1>4. CASE IsrSave
  BY <1>1, <1>4 DEF IsrInv, IsrSave, chart
<1>5. QED
  BY <1>2, <1>3, <1>4

LEMMA TaskIsrInv ==
  ASSUME Calm \/ Rechart \/ Clear \/ Take
  PROVE  IsrInv'
<1>1. isrPc' = "idle"
  BY CalmFrame, RechartFrame, ClearFrame, TakeFrame DEF isr
<1>2. QED
  BY <1>1 DEF IsrInv

-----------------------------------------------------------------------------
\* One sender at a time writes to the chart, and to a reliable event only while
\* it is down.
Holds(t) ==
  /\ sPc[t] = "mask" => sEv[t] \notin WaitEvents
  /\ sPc[t] = "raise" => payload[sEv[t]] = <<t, sNum[t]>>
  /\ sPc[t] \in {"write", "raise"} /\ sEv[t] \in Reliable => flag[sEv[t]] = "DOWN"
  /\ sPc[t] # "idle" => sNum[t] \in 1..sends

LEMMA SenderSendInv ==
  ASSUME TypeOK, SendInv, NEW s \in Sender, SenderMove(s)
  PROVE  SendInv'
<1>1. /\ sPc \in [Sender -> Pcs] /\ sEv \in [Sender -> Event] /\ sNum \in [Sender -> 0..MaxSends]
      /\ sends \in 0..MaxSends
      /\ flag \in [Event -> {"DOWN", "UP"}] /\ payload \in [Event -> Payload \cup {NoPayload}]
  BY DEF TypeOK, Pcs
<1>2. Masked \subseteq {s}
  BY DEF SenderMove, SenderStep, CheckInit, CheckEnabled, CheckRegistered, Check, Poll, Mask,
    WritePayload, RaiseFlag, IntSend, sendEvent, SenderAt
<1>3. \A t \in Sender \ {s} : sPc'[t] = sPc[t] /\ sEv'[t] = sEv[t] /\ sNum'[t] = sNum[t]
  BY <1>1 DEF SenderMove, SenderStep, CheckInit, CheckEnabled, CheckRegistered, Check, Poll, Mask,
    WritePayload, RaiseFlag, IntSend, sendEvent, Return
<1>4. sends' = sends \/ sends' = sends + 1
  BY DEF SenderMove, SenderStep, CheckInit, CheckEnabled, CheckRegistered, Check, Poll, Mask,
    WritePayload, RaiseFlag, IntSend, sendEvent, Return
<1>5. Masked' \subseteq {s}
  BY <1>2, <1>3 DEF Masked
<1>6. ASSUME NEW t \in Sender \ {s}
      PROVE  Holds(t)'
  <2>1. sPc[t] \notin {"write", "raise", "intSend"}
    BY <1>2 DEF Masked
  <2>2. sPc[t] = "mask" => sEv[t] \notin WaitEvents
    BY DEF SendInv
  <2>3. sPc[t] # "idle" => sNum[t] \in 1..sends
    BY DEF SendInv
  <2>4. QED
    BY <1>1, <1>3, <1>4, <2>1, <2>2, <2>3 DEF Holds
<1>7. Holds(s)
  BY DEF SendInv, Holds
<1>8. Holds(s)'
  <2>1. CASE CheckInit(s) \/ CheckEnabled(s)
    BY <1>1, <1>7, <2>1 DEF CheckInit, CheckEnabled, Check, Return, Holds, SenderAt
  <2>2. CASE CheckRegistered(s)
    BY <1>1, <1>7, <2>2 DEF CheckRegistered, Check, Return, Holds, SenderAt
  <2>3. CASE Poll(s)
    BY <1>1, <1>7, <2>3 DEF Poll, Return, Holds, SenderAt, chart
  <2>4. CASE Mask(s)
    BY <1>1, <1>7, <2>4 DEF Mask, Holds, SenderAt, Reliable
  <2>5. CASE IntSend(s)
    BY <1>1, <2>5 DEF IntSend, Return, Holds
  <2>6. CASE \E e \in Event : sendEvent(s, e)
    BY <1>1, <2>6 DEF sendEvent, Holds
  <2>7. CASE WritePayload(s)
    BY <1>1, <1>7, <2>7 DEF WritePayload, Holds, SenderAt
  <2>8. CASE RaiseFlag(s)
    BY <1>1, <1>7, <2>8 DEF RaiseFlag, Holds, SenderAt
  <2>9. QED
    BY <2>1, <2>2, <2>3, <2>4, <2>5, <2>6, <2>7, <2>8 DEF SenderMove, SenderStep
<1>9. \A t \in Sender : Holds(t)'
  BY <1>6, <1>8
<1>10. QED
  BY <1>5, <1>9 DEF SendInv, Holds

\* The receiver takes flags down and leaves the payloads alone.
LEMMA ReceiverChart ==
  ASSUME TypeOK, IsrInv, \/ IsrEnter \/ IsrScan \/ IsrSave \/ IsrAck \/ IsrExec
                         \/ Calm \/ Rechart \/ Clear \/ Take
  PROVE  UNCHANGED <<senders, payload>> /\ \A e \in Event : flag'[e] \in {flag[e], "DOWN"}
<1>1. flag \in [Event -> {"DOWN", "UP"}] /\ tEv \in Event /\ regChart \in Seq(Event)
  BY DEF TypeOK
<1>2. CASE IsrEnter \/ IsrScan \/ IsrSave \/ IsrAck \/ IsrExec
  <2>1. UNCHANGED <<senders, payload>>
    BY <1>2, IsrFrame
  <2>2. isrPc = "ack" => regChart[isrI] \in Event
    BY <1>1 DEF IsrInv
  <2>3. \A e \in Event : flag'[e] \in {flag[e], "DOWN"}
    BY <1>1, <1>2, <2>2 DEF IsrEnter, IsrScan, IsrSave, IsrAck, IsrExec, chart
  <2>4. QED
    BY <2>1, <2>3
<1>3. CASE Calm \/ Rechart
  BY <1>3, CalmFrame, RechartFrame DEF chart
<1>4. CASE Clear \/ Take
  BY <1>1, <1>4, ClearFrame, TakeFrame
<1>5. QED
  BY <1>2, <1>3, <1>4

LEMMA ReceiverSendInv ==
  ASSUME TypeOK, IsrInv, SendInv,
         \/ IsrEnter \/ IsrScan \/ IsrSave \/ IsrAck \/ IsrExec
         \/ Calm \/ Rechart \/ Clear \/ Take
  PROVE  SendInv'
<1>1. UNCHANGED <<sPc, sEv, sNum, sends, payload>> /\ \A e \in Event : flag'[e] \in {flag[e], "DOWN"}
  BY ReceiverChart DEF senders
<1>2. \A t \in Sender : sEv[t] \in Event
  BY DEF TypeOK
<1>3. QED
  BY <1>1, <1>2 DEF SendInv, Masked

-----------------------------------------------------------------------------
\* What a step means for one reliable event: a sender raises it, the isr
\* acknowledges it or runs its callback, or it stays as it is or goes down.
Same(e) ==
  /\ (InIsr(e)' <=> InIsr(e)) /\ (InIsr(e) => isrPayload' = isrPayload)
  /\ (Up(e)' <=> Up(e)) /\ (Up(e) => payload'[e] = payload[e])
Raised(e, s) ==
  /\ sEv[s] = e /\ sPc[s] = "raise" /\ sPc' = [sPc EXCEPT ![s] = "intSend"]
  /\ UNCHANGED <<sNum, sends>> /\ (InIsr(e)' <=> InIsr(e)) /\ isrPayload' = isrPayload
  /\ Up(e)' /\ payload'[e] = <<s, sNum[s]>>
Acknowledged(e) ==
  /\ Up(e) /\ ~Up(e)' /\ ~InIsr(e) /\ InIsr(e)' /\ isrPayload' = payload[e]
  /\ payload' = payload
Fallen(e) == ~InIsr(e) /\ ~InIsr(e)' /\ ~Up(e)' /\ payload' = payload

LEMMA SenderEvent ==
  ASSUME TypeOK, SendInv, NEW s \in Sender, SenderMove(s), NEW e \in Reliable
  PROVE  /\ UNCHANGED <<delivered, dropped>>
         /\ Same(e) \/ (RaiseFlag(s) /\ Raised(e, s))
<1>1. UNCHANGED <<regChart, isrPc, isrI, isrPayload, delivered, dropped>>
  BY SenderFrame DEF isr
<1>2. flag \in [Event -> {"DOWN", "UP"}] /\ payload \in [Event -> Payload \cup {NoPayload}]
      /\ sEv \in [Sender -> Event] /\ e \in Event
  BY DEF TypeOK, Reliable
<1>3. CASE Quiet(s)
  BY <1>1, <1>3, QuietFrame DEF chart, Same, InIsr, Up
<1>4. CASE WritePayload(s)
  <2>1. sEv[s] = e => flag[e] = "DOWN"
    BY <1>4 DEF WritePayload, SenderAt, SendInv
  <2>2. flag' = flag /\ (sEv[s] # e => payload'[e] = payload[e])
    BY <1>2, <1>4 DEF WritePayload
  <2>3. QED
    BY <1>1, <2>1, <2>2 DEF Same, InIsr, Up
<1>5. CASE RaiseFlag(s) /\ sEv[s] = e
  <2>1. payload[e] = <<s, sNum[s]>>
    BY <1>5 DEF RaiseFlag, SenderAt, SendInv
  <2>2. QED
    BY <1>1, <1>2, <1>5, <2>1 DEF Raised, RaiseFlag, SenderAt, InIsr, Up
<1>6. CASE RaiseFlag(s) /\ sEv[s] # e
  BY <1>1, <1>2, <1>6 DEF Same, RaiseFlag, InIsr, Up
<1>7. QED
  BY <1>1, <1>3, <1>4, <1>5, <1>6, SenderSteps

LEMMA IsrEvent ==
  ASSUME TypeOK, IsrInv, IsrEnter \/ IsrScan \/ IsrSave \/ IsrAck, NEW e \in Reliable
  PROVE  UNCHANGED <<delivered, dropped>> /\ (Same(e) \/ Acknowledged(e))
<1>1. UNCHANGED <<regChart, payload>>
  BY IsrFrame
<1>2. flag \in [Event -> {"DOWN", "UP"}] /\ e \in Event
  BY DEF TypeOK, Reliable
<1>3. CASE IsrEnter \/ IsrScan \/ IsrSave
  BY <1>1, <1>3 DEF IsrEnter, IsrScan, IsrSave, Same, InIsr, Up, chart, history
<1>4. CASE IsrAck
  <2>1. regChart[isrI] = e => flag[e] = "UP" /\ isrPayload = payload[e]
    BY <1>4 DEF IsrInv, IsrAck
  <2>2. CASE regChart[isrI] = e
    BY <1>1, <1>2, <1>4, <2>1, <2>2 DEF Acknowledged, IsrAck, InIsr, Up, history
  <2>3. CASE regChart[isrI] # e
    BY <1>1, <1>2, <1>4, <2>3 DEF Same, IsrAck, InIsr, Up, history
  <2>4. QED
    BY <2>2, <2>3
<1>5. QED
  BY <1>3, <1>4

LEMMA TaskEvent ==
  ASSUME TypeOK, LineInv, Calm \/ Rechart \/ Clear \/ Take, NEW e \in Reliable
  PROVE  /\ Same(e) \/ (Clear /\ Fallen(e))
         /\ \/ UNCHANGED delivered
            \/ \E x \in Event \ Reliable :
                 delivered' = Append(delivered, [ev |-> x, payload |-> payload[x]])
<1>1. flag \in [Event -> {"DOWN", "UP"}] /\ e \in Event /\ tEv \in Event
  BY DEF TypeOK, Reliable
<1>2. CASE Calm \/ Rechart
  BY <1>2, CalmFrame, RechartFrame DEF isr, chart, history, Same, InIsr, Up
<1>3. CASE Clear
  <2>1. isrPc = "idle" /\ isrPc' = "idle" /\ UNCHANGED <<payload, delivered>>
        /\ flag' = [flag EXCEPT ![tEv] = "DOWN"]
    BY <1>3, ClearFrame DEF isr
  <2>2. QED
    BY <1>1, <1>3, <2>1 DEF Same, Fallen, InIsr, Up
<1>4. CASE Take
  <2>1. isrPc = "idle" /\ isrPc' = "idle" /\ UNCHANGED <<payload>> /\ tPc \in {"disAck", "disExec"}
        /\ \/ flag' = [flag EXCEPT ![tEv] = "DOWN"] /\ UNCHANGED delivered
           \/ /\ delivered' = Append(delivered, [ev |-> tEv, payload |-> payload[tEv]])
              /\ UNCHANGED flag
    BY <1>4, TakeFrame DEF isr
  <2>2. tEv \notin Reliable
    BY <2>1 DEF LineInv, Reliable
  <2>3. QED
    BY <1>1, <2>1, <2>2 DEF Same, InIsr, Up
<1>5. QED
  BY <1>2, <1>3, <1>4

\* The entries of the sequence of callbacks after one more callback.
LEMMA OneMore ==
  ASSUME TypeOK, NEW x \in Event, NEW p \in Payload \cup {NoPayload},
         delivered' = Append(delivered, [ev |-> x, payload |-> p])
  PROVE  /\ DOMAIN delivered = 1..Len(delivered) /\ Len(delivered) \in Nat
         /\ DOMAIN delivered' = 1..(Len(delivered) + 1)
         /\ \A i \in DOMAIN delivered : delivered'[i] = delivered[i]
         /\ delivered'[Len(delivered) + 1] = [ev |-> x, payload |-> p]
<1> DEFINE Calls == [ev : Event, payload : Payload \cup {NoPayload}]
           r == [ev |-> x, payload |-> p]
<1>1. delivered \in Seq(Calls) /\ r \in Calls /\ delivered' = Append(delivered, r)
  BY DEF TypeOK
<1> HIDE DEF Calls, r
<1>2. /\ DOMAIN delivered = 1..Len(delivered) /\ Len(delivered) \in Nat
      /\ DOMAIN delivered' = 1..(Len(delivered) + 1)
      /\ \A i \in 1..Len(delivered) : delivered'[i] = delivered[i]
      /\ delivered'[Len(delivered) + 1] = r
  BY ONLY <1>1, AppendOK
<1>3. QED
  BY <1>2 DEF r

-----------------------------------------------------------------------------
\* What is delivered, in the isr and in the chart, in this order.
OrderOf(e) ==
  /\ InIsr(e) => isrPayload \in Payload
  /\ Up(e) => payload[e] \in Payload
  /\ InIsr(e) /\ Up(e) => Behind(isrPayload, payload[e])
  /\ \A i \in DOMAIN delivered : delivered[i].ev = e =>
       /\ delivered[i].payload \in Payload
       /\ InIsr(e) => Behind(delivered[i].payload, isrPayload)
       /\ Up(e) => Behind(delivered[i].payload, payload[e])

LEMMA OrderParts == (OrderInv <=> \A e \in Reliable : OrderOf(e))
                    /\ (OrderInv' <=> \A e \in Reliable : OrderOf(e)')
BY DEF OrderInv, OrderOf

LEMMA OrderSame ==
  ASSUME NEW e, OrderOf(e), Same(e) \/ Fallen(e) \/ Acknowledged(e), UNCHANGED delivered
  PROVE  OrderOf(e)'
BY DEF OrderOf, Same, Fallen, Acknowledged

LEMMA SenderOrder ==
  ASSUME TypeOK, SendInv, OrderInv, NumberInv, NEW s \in Sender, SenderMove(s)
  PROVE  OrderInv'
<1> SUFFICES ASSUME NEW e \in Reliable PROVE OrderOf(e)'
  BY OrderParts
<1>1. OrderOf(e)
  BY OrderParts
<1>2. CASE Same(e)
  BY <1>1, <1>2, SenderEvent, OrderSame
<1>3. CASE RaiseFlag(s) /\ Raised(e, s)
  <2>1. <<s, sNum[s]>> \in Payload /\ payload'[e] = <<s, sNum[s]>>
    BY <1>3, Numbered DEF Raised
  <2>2. \A p \in Payload : OnItsWay(e, p) /\ p[1] = s => p[2] < sNum[s]
    BY <1>3 DEF Raised, NumberInv
  <2>3. delivered' = delivered
    BY SenderEvent
  <2>4. InIsr(e) => Behind(isrPayload, payload'[e])
    BY <1>1, <2>1, <2>2 DEF OrderOf, OnItsWay, Behind
  <2>5. ASSUME NEW i \in DOMAIN delivered, delivered[i].ev = e
        PROVE  Behind(delivered[i].payload, payload'[e])
    BY <1>1, <2>1, <2>2, <2>5 DEF OrderOf, OnItsWay, Behind
  <2>6. (InIsr(e)' <=> InIsr(e)) /\ isrPayload' = isrPayload /\ Up(e)'
    BY <1>3 DEF Raised
  <2>7. QED
    BY <1>1, <2>1, <2>3, <2>4, <2>5, <2>6 DEF OrderOf
<1>4. QED
  BY <1>2, <1>3, SenderEvent

LEMMA IsrOrder ==
  ASSUME TypeOK, IsrInv, OrderInv, IsrEnter \/ IsrScan \/ IsrSave \/ IsrAck \/ IsrExec
  PROVE  OrderInv'
<1> SUFFICES ASSUME NEW e \in Reliable PROVE OrderOf(e)'
  BY OrderParts
<1>1. OrderOf(e)
  BY OrderParts
<1>2. CASE IsrEnter \/ IsrScan \/ IsrSave \/ IsrAck
  BY <1>1, <1>2, IsrEvent, OrderSame
<1>3. CASE IsrExec
  <2>1. regChart[isrI] \in Event /\ isrPayload \in Payload \cup {NoPayload}
    BY <1>3 DEF IsrInv, IsrExec, TypeOK
  <2>2. /\ DOMAIN delivered = 1..Len(delivered) /\ Len(delivered) \in Nat
        /\ DOMAIN delivered' = 1..(Len(delivered) + 1)
        /\ \A i \in DOMAIN delivered : delivered'[i] = delivered[i]
        /\ delivered'[Len(delivered) + 1] = [ev |-> regChart[isrI], payload |-> isrPayload]
    BY <1>3, <2>1, OneMore DEF IsrExec, Notify_exec
  <2>3. UNCHANGED <<flag, payload>> /\ isrPc = "exec" /\ isrPc' = "scan"
    BY <1>3 DEF IsrExec, chart
  <2>4. ~InIsr(e)' /\ (Up(e)' <=> Up(e)) /\ payload'[e] = payload[e]
    BY <2>3 DEF InIsr, Up
  <2>5. ASSUME NEW i \in DOMAIN delivered', delivered'[i].ev = e
        PROVE  delivered'[i].payload \in Payload
               /\ (Up(e) => Behind(delivered'[i].payload, payload[e]))
    <3>1. CASE i \in DOMAIN delivered
      BY <1>1, <2>2, <2>5, <3>1 DEF OrderOf
    <3>2. CASE i = Len(delivered) + 1
      <4>1. delivered'[i].payload = isrPayload /\ regChart[isrI] = e
        BY <2>2, <2>5, <3>2
      <4>2. QED
        BY <1>1, <2>3, <4>1 DEF OrderOf, InIsr
    <3>3. QED
      BY <2>2, <3>1, <3>2
  <2>6. QED
    BY <1>1, <2>4, <2>5 DEF OrderOf
<1>4. QED
  BY <1>2, <1>3

LEMMA TaskOrder ==
  ASSUME TypeOK, LineInv, OrderInv, Calm \/ Rechart \/ Clear \/ Take
  PROVE  OrderInv'
<1> SUFFICES ASSUME NEW e \in Reliable PROVE OrderOf(e)'
  BY OrderParts
<1>1. OrderOf(e)
  BY OrderParts
<1>2. Same(e) \/ Fallen(e)
  BY TaskEvent
<1>3. CASE UNCHANGED delivered
  BY <1>1, <1>2, <1>3, OrderSame
<1>4. ASSUME NEW x \in Event \ Reliable,
             delivered' = Append(delivered, [ev |-> x, payload |-> payload[x]])
      PROVE  OrderOf(e)'
  <2>1. payload[x] \in Payload \cup {NoPayload}
    BY DEF TypeOK
  <2>2. \A i \in DOMAIN delivered' : delivered'[i].ev = e =>
          i \in DOMAIN delivered /\ delivered'[i] = delivered[i]
    BY <1>4, <2>1, OneMore
  <2>3. QED
    BY <1>1, <1>2, <2>2 DEF OrderOf, Same, Fallen
<1>5. QED
  BY <1>3, <1>4, TaskEvent

-----------------------------------------------------------------------------
\* The numbers of the payloads on their way.
Before(p) == p[2] <= sends /\ (sPc[p[1]] \notin {"idle", "intSend"} => p[2] < sNum[p[1]])

LEMMA NumberParts ==
  /\ NumberInv <=> \A e \in Reliable, p \in Payload : OnItsWay(e, p) => Before(p)
  /\ NumberInv' <=> \A e \in Reliable, p \in Payload : OnItsWay(e, p)' => Before(p)'
BY DEF NumberInv, Before

LEMMA StaysOnItsWay ==
  ASSUME NEW e, NEW p, Same(e) \/ Fallen(e) \/ Acknowledged(e), UNCHANGED delivered,
         OnItsWay(e, p)'
  PROVE  OnItsWay(e, p)
BY DEF OnItsWay, Same, Fallen, Acknowledged

LEMMA SenderNumber ==
  ASSUME TypeOK, SendInv, NumberInv, NEW s \in Sender, SenderMove(s)
  PROVE  NumberInv'
<1>1. /\ sPc \in [Sender -> Pcs] /\ sNum \in [Sender -> 0..MaxSends] /\ sends \in 0..MaxSends
  BY DEF TypeOK, Pcs
<1>2. ASSUME NEW p \in Payload, Before(p)
      PROVE  Before(p)'
  <2>1. p[1] \in Sender /\ p[2] \in Nat
    OBVIOUS
  <2>2. CASE RaiseFlag(s) \/ WritePayload(s) \/ IntSend(s) \/ Mask(s)
    BY <1>1, <1>2, <2>1, <2>2 DEF Before, RaiseFlag, WritePayload, IntSend, Mask, Return, SenderAt
  <2>3. CASE CheckInit(s) \/ CheckEnabled(s) \/ CheckRegistered(s)
    BY <1>1, <1>2, <2>1, <2>3 DEF Before, CheckInit, CheckEnabled, CheckRegistered, Check, Return,
      SenderAt
  <2>4. CASE Poll(s)
    BY <1>1, <1>2, <2>1, <2>4 DEF Before, Poll, Return, SenderAt
  <2>5. CASE \E e \in Event : sendEvent(s, e)
    BY <1>1, <1>2, <2>1, <2>5 DEF Before, sendEvent
  <2>6. QED
    BY <2>2, <2>3, <2>4, <2>5 DEF SenderMove, SenderStep
<1> SUFFICES ASSUME NEW e \in Reliable, NEW p \in Payload, OnItsWay(e, p)'
             PROVE  Before(p)'
  BY NumberParts
<1>3. CASE OnItsWay(e, p)
  BY <1>2, <1>3, NumberParts
<1>4. CASE Same(e)
  BY <1>3, <1>4, SenderEvent, StaysOnItsWay
<1>5. CASE RaiseFlag(s) /\ Raised(e, s) /\ ~OnItsWay(e, p)
  <2>1. p = <<s, sNum[s]>>
    BY <1>5, SenderEvent DEF OnItsWay, Raised
  <2>2. sNum[s] \in 1..sends
    BY <1>5, Numbered DEF Raised
  <2>3. sends' = sends /\ sPc'[s] = "intSend"
    BY <1>1, <1>5 DEF Raised
  <2>4. QED
    BY <2>1, <2>2, <2>3 DEF Before
<1>6. QED
  BY <1>3, <1>4, <1>5, SenderEvent

LEMMA IsrNumber ==
  ASSUME TypeOK, IsrInv, NumberInv, IsrEnter \/ IsrScan \/ IsrSave \/ IsrAck \/ IsrExec
  PROVE  NumberInv'
<1>1. \A p : Before(p)' <=> Before(p)
  BY IsrFrame DEF senders, Before
<1> SUFFICES ASSUME NEW e \in Reliable, NEW p \in Payload, OnItsWay(e, p)'
             PROVE  OnItsWay(e, p)
  BY <1>1, NumberParts
<1>2. CASE IsrEnter \/ IsrScan \/ IsrSave \/ IsrAck
  BY <1>2, IsrEvent, StaysOnItsWay
<1>3. CASE IsrExec
  <2>1. regChart[isrI] \in Event /\ isrPayload \in Payload \cup {NoPayload}
    BY <1>3 DEF IsrInv, IsrExec, TypeOK
  <2>2. /\ DOMAIN delivered = 1..Len(delivered) /\ Len(delivered) \in Nat
        /\ DOMAIN delivered' = 1..(Len(delivered) + 1)
        /\ \A i \in DOMAIN delivered : delivered'[i] = delivered[i]
        /\ delivered'[Len(delivered) + 1] = [ev |-> regChart[isrI], payload |-> isrPayload]
    BY <1>3, <2>1, OneMore DEF IsrExec, Notify_exec
  <2>3. UNCHANGED <<flag, payload>> /\ isrPc = "exec" /\ isrPc' = "scan"
    BY <1>3 DEF IsrExec, chart
  <2>4. ~InIsr(e)' /\ (Up(e)' <=> Up(e)) /\ payload'[e] = payload[e]
    BY <2>3 DEF InIsr, Up
  <2>5. ASSUME NEW i \in DOMAIN delivered', delivered'[i].ev = e, delivered'[i].payload = p
        PROVE  OnItsWay(e, p)
    <3>1. CASE i \in DOMAIN delivered
      BY <2>2, <2>5, <3>1 DEF OnItsWay
    <3>2. CASE i = Len(delivered) + 1
      BY <2>2, <2>3, <2>5, <3>2 DEF OnItsWay, InIsr
    <3>3. QED
      BY <2>2, <3>1, <3>2
  <2>6. QED
    BY <2>4, <2>5 DEF OnItsWay
<1>4. QED
  BY <1>2, <1>3

LEMMA TaskNumber ==
  ASSUME TypeOK, LineInv, NumberInv, Calm \/ Rechart \/ Clear \/ Take
  PROVE  NumberInv'
<1>1. \A p : Before(p)' <=> Before(p)
  <2>1. UNCHANGED senders
    BY CalmFrame, RechartFrame, ClearFrame, TakeFrame
  <2>2. QED
    BY <2>1 DEF senders, Before
<1> SUFFICES ASSUME NEW e \in Reliable, NEW p \in Payload, OnItsWay(e, p)'
             PROVE  OnItsWay(e, p)
  BY <1>1, NumberParts
<1>2. Same(e) \/ Fallen(e)
  BY TaskEvent
<1>3. CASE UNCHANGED delivered
  BY <1>2, <1>3, StaysOnItsWay
<1>4. ASSUME NEW x \in Event \ Reliable,
             delivered' = Append(delivered, [ev |-> x, payload |-> payload[x]])
      PROVE  OnItsWay(e, p)
  <2>1. payload[x] \in Payload \cup {NoPayload}
    BY DEF TypeOK
  <2>2. \A i \in DOMAIN delivered' : delivered'[i].ev = e =>
          i \in DOMAIN delivered /\ delivered'[i] = delivered[i]
    BY <1>4, <2>1, OneMore
  <2>3. QED
    BY <1>2, <2>2 DEF OnItsWay, Same, Fallen
<1>5. QED
  BY <1>3, <1>4, TaskEvent

-----------------------------------------------------------------------------
\* One more callback keeps the order if what is delivered was sent before.
InOrder(i, j) ==
  /\ i < j
  /\ delivered[i].ev \in Reliable
  /\ delivered[j].ev = delivered[i].ev
  /\ delivered[j].payload[1] = delivered[i].payload[1]
  => delivered[i].payload[2] < delivered[j].payload[2]

LEMMA OrderKept ==
  ASSUME TypeOK, DeliveredInOrder, NEW x \in Event, NEW p \in Payload \cup {NoPayload},
         delivered' = Append(delivered, [ev |-> x, payload |-> p]),
         x \in Reliable => \A i \in DOMAIN delivered :
                             delivered[i].ev = x => Behind(delivered[i].payload, p)
  PROVE  DeliveredInOrder'
<1>1. /\ DOMAIN delivered = 1..Len(delivered) /\ Len(delivered) \in Nat
      /\ DOMAIN delivered' = 1..(Len(delivered) + 1)
      /\ \A i \in DOMAIN delivered : delivered'[i] = delivered[i]
      /\ delivered'[Len(delivered) + 1] = [ev |-> x, payload |-> p]
  BY OneMore
<1> SUFFICES ASSUME NEW i \in DOMAIN delivered', NEW j \in DOMAIN delivered'
             PROVE  InOrder(i, j)'
  BY DEF DeliveredInOrder, InOrder
<1>2. CASE i \in DOMAIN delivered /\ j \in DOMAIN delivered
  BY <1>1, <1>2 DEF DeliveredInOrder, InOrder
<1>3. CASE i \in DOMAIN delivered /\ j = Len(delivered) + 1
  BY <1>1, <1>3 DEF InOrder, Behind
<1>4. CASE i = Len(delivered) + 1
  <2>1. ~(i < j)
    BY <1>1, <1>4
  <2>2. QED
    BY <2>1 DEF InOrder
<1>5. QED
  BY <1>1, <1>2, <1>3, <1>4

LEMMA StepDeliveredInOrder ==
  ASSUME TypeOK, IsrInv, LineInv, OrderInv, DeliveredInOrder,
         \/ \E s \in Sender : SenderMove(s)
         \/ IsrEnter \/ IsrScan \/ IsrSave \/ IsrAck \/ IsrExec
         \/ Calm \/ Rechart \/ Clear \/ Take
  PROVE  DeliveredInOrder'
<1>1. CASE UNCHANGED delivered
  BY <1>1 DEF DeliveredInOrder
<1>2. CASE \E s \in Sender : SenderMove(s)
  BY <1>1, <1>2, SenderFrame
<1>3. CASE IsrEnter \/ IsrScan \/ IsrSave \/ IsrAck
  BY <1>1, <1>3 DEF IsrEnter, IsrScan, IsrSave, IsrAck, history
<1>4. CASE IsrExec
  <2>1. regChart[isrI] \in Event /\ isrPayload \in Payload \cup {NoPayload}
    BY <1>4 DEF IsrInv, IsrExec, TypeOK
  <2>2. delivered' = Append(delivered, [ev |-> regChart[isrI], payload |-> isrPayload])
        /\ InIsr(regChart[isrI])
    BY <1>4 DEF IsrExec, Notify_exec, InIsr
  <2>3. regChart[isrI] \in Reliable => \A i \in DOMAIN delivered :
          delivered[i].ev = regChart[isrI] => Behind(delivered[i].payload, isrPayload)
    BY <2>2, OrderParts DEF OrderOf
  <2>4. QED
    BY <2>1, <2>2, <2>3, OrderKept
<1>5. CASE Calm \/ Rechart \/ Clear
  BY <1>1, <1>5, CalmFrame, RechartFrame, ClearFrame DEF history
<1>6. CASE Take
  <2>1. tPc \in {"disAck", "disExec"} /\
        (UNCHANGED delivered \/ delivered' = Append(delivered, [ev |-> tEv, payload |-> payload[tEv]]))
    BY <1>6, TakeFrame
  <2>2. tEv \notin Reliable /\ tEv \in Event /\ payload[tEv] \in Payload \cup {NoPayload}
    BY <2>1 DEF LineInv, Reliable, TypeOK
  <2>3. QED
    BY <1>1, <2>1, <2>2, OrderKept
<1>7. QED
  BY <1>2, <1>3, <1>4, <1>5, <1>6

-----------------------------------------------------------------------------
\* Where an accepted event is.
Found(a) ==
  \/ flag[a.ev] = "UP" /\ payload[a.ev] = a.payload
  \/ isrPc = "exec" /\ regChart[isrI] = a.ev /\ isrPayload = a.payload
  \/ \E i \in DOMAIN delivered : delivered[i] = a
  \/ a.payload \in dropped

LEMMA StaysFound ==
  ASSUME NEW a, Found(a), Same(a.ev) \/ Acknowledged(a.ev), UNCHANGED <<delivered, dropped>>
  PROVE  Found(a)'
BY DEF Found, Same, Acknowledged, InIsr, Up

LEMMA SenderFound ==
  ASSUME TypeOK, SendInv, NothingLost, NEW s \in Sender, SenderMove(s)
  PROVE  NothingLost'
<1> SUFFICES ASSUME NEW a \in accepted', a.ev \in Reliable
             PROVE  Found(a)'
  BY DEF NothingLost, Found
<1>1. CASE RaiseFlag(s) /\ Raised(a.ev, s) /\ a \notin accepted
  BY <1>1 DEF RaiseFlag, Raised, Found, Up
<1>2. CASE a \in accepted
  <2>1. Found(a)
    BY <1>2 DEF NothingLost, Found
  <2>2. CASE Same(a.ev)
    BY <2>1, <2>2, SenderEvent, StaysFound
  <2>3. CASE RaiseFlag(s) /\ Raised(a.ev, s)
    <3>1. flag[a.ev] = "DOWN"
      BY <2>3 DEF Raised, SendInv
    <3>2. (InIsr(a.ev)' <=> InIsr(a.ev)) /\ isrPayload' = isrPayload
      BY <2>3 DEF Raised
    <3>3. UNCHANGED <<delivered, dropped>>
      BY SenderEvent
    <3>4. QED
      BY <2>1, <3>1, <3>2, <3>3 DEF Found, InIsr
  <2>4. QED
    BY <2>2, <2>3, SenderEvent
<1>3. CASE a \notin accepted /\ ~RaiseFlag(s)
  BY <1>3, QuietFrame, SenderSteps DEF WritePayload, history
<1>4. CASE a \notin accepted /\ RaiseFlag(s)
  <2>1. a.ev = sEv[s] /\ a.payload = <<s, sNum[s]>> /\ sPc[s] = "raise" /\ sEv[s] \in Event
        /\ flag' = [flag EXCEPT ![sEv[s]] = "UP"] /\ payload' = payload
    BY <1>4 DEF RaiseFlag, SenderAt, TypeOK
  <2>2. payload[sEv[s]] = <<s, sNum[s]>>
    BY <2>1 DEF SendInv
  <2>3. QED
    BY <2>1, <2>2 DEF Found, TypeOK
<1>5. QED
  BY <1>2, <1>3, <1>4

LEMMA IsrFound ==
  ASSUME TypeOK, IsrInv, NothingLost, IsrEnter \/ IsrScan \/ IsrSave \/ IsrAck \/ IsrExec
  PROVE  NothingLost'
<1>1. accepted' = accepted /\ dropped' = dropped
  BY IsrFrame
<1> SUFFICES ASSUME NEW a \in accepted, a.ev \in Reliable
             PROVE  Found(a)'
  BY <1>1 DEF NothingLost, Found
<1>2. Found(a)
  BY DEF NothingLost, Found
<1>3. CASE IsrEnter \/ IsrScan \/ IsrSave \/ IsrAck
  BY <1>2, <1>3, IsrEvent, StaysFound
<1>4. CASE IsrExec
  <2>1. regChart[isrI] \in Event /\ isrPayload \in Payload \cup {NoPayload}
    BY <1>4, SMTT(40) DEF IsrInv, IsrExec, TypeOK
  <2>2. /\ DOMAIN delivered = 1..Len(delivered) /\ Len(delivered) \in Nat
        /\ DOMAIN delivered' = 1..(Len(delivered) + 1)
        /\ \A i \in DOMAIN delivered : delivered'[i] = delivered[i]
        /\ delivered'[Len(delivered) + 1] = [ev |-> regChart[isrI], payload |-> isrPayload]
    BY <1>4, <2>1, OneMore DEF IsrExec, Notify_exec
  <2>3. UNCHANGED <<flag, payload>>
    BY <1>4 DEF IsrExec, chart
  <2>4. a = [ev |-> a.ev, payload |-> a.payload]
    BY DEF TypeOK
  <2>5. CASE isrPc = "exec" /\ regChart[isrI] = a.ev /\ isrPayload = a.payload
    <3>1. delivered'[Len(delivered) + 1] = a
      BY <2>2, <2>4, <2>5
    <3>2. Len(delivered) + 1 \in DOMAIN delivered'
      BY <2>2
    <3>3. QED
      BY <3>1, <3>2 DEF Found
  <2>6. CASE \E i \in DOMAIN delivered : delivered[i] = a
    <3>1. DOMAIN delivered \subseteq DOMAIN delivered'
      BY <2>2
    <3>2. QED
      BY <2>2, <2>6, <3>1 DEF Found
  <2>7. QED
    BY <1>1, <1>2, <2>3, <2>5, <2>6 DEF Found
<1>5. QED
  BY <1>3, <1>4

LEMMA TaskFound ==
  ASSUME TypeOK, LineInv, NothingLost, Calm \/ Rechart \/ Clear \/ Take
  PROVE  NothingLost'
<1>1. accepted' = accepted /\ isrPc = "idle"
  BY CalmFrame, RechartFrame, ClearFrame, TakeFrame DEF history
<1> SUFFICES ASSUME NEW a \in accepted, a.ev \in Reliable
             PROVE  Found(a)'
  BY <1>1 DEF NothingLost, Found
<1>2. Found(a)
  BY DEF NothingLost, Found
<1>3. CASE Calm \/ Rechart
  BY <1>1, <1>2, <1>3, CalmFrame, RechartFrame DEF Found, chart, history
<1>4. CASE Clear
  <2>1. UNCHANGED <<payload, delivered>>
        /\ flag' = [flag EXCEPT ![tEv] = "DOWN"]
        /\ dropped' = IF flag[tEv] = "UP" THEN dropped \cup {payload[tEv]} ELSE dropped
    BY <1>4, ClearFrame
  <2>2. flag \in [Event -> {"DOWN", "UP"}] /\ a.ev \in Event
    BY DEF TypeOK, Reliable
  <2>3. QED
    BY <1>1, <1>2, <2>1, <2>2 DEF Found
<1>5. CASE Take
  <2>1. /\ tPc \in {"disAck", "disExec"} /\ UNCHANGED <<payload, dropped>>
        /\ \/ flag' = [flag EXCEPT ![tEv] = "DOWN"] /\ UNCHANGED delivered
           \/ /\ delivered' = Append(delivered, [ev |-> tEv, payload |-> payload[tEv]])
              /\ UNCHANGED flag
    BY <1>5, TakeFrame
  <2>2. tEv \notin Reliable /\ tEv \in Event /\ payload[tEv] \in Payload \cup {NoPayload}
    BY <2>1 DEF LineInv, Reliable, TypeOK
  <2>3. flag \in [Event -> {"DOWN", "UP"}] /\ a.ev \in Event
    BY DEF TypeOK, Reliable
  <2>4. CASE flag' = [flag EXCEPT ![tEv] = "DOWN"] /\ UNCHANGED delivered
    BY <1>1, <1>2, <2>1, <2>2, <2>3, <2>4 DEF Found
  <2>5. CASE /\ delivered' = Append(delivered, [ev |-> tEv, payload |-> payload[tEv]])
             /\ UNCHANGED flag
    <3>1. \A i \in DOMAIN delivered : i \in DOMAIN delivered' /\ delivered'[i] = delivered[i]
      BY <2>2, <2>5, OneMore
    <3>2. QED
      BY <1>1, <1>2, <2>1, <2>5, <3>1 DEF Found
  <2>6. QED
    BY <2>1, <2>4, <2>5
<1>6. QED
  BY <1>3, <1>4, <1>5

-----------------------------------------------------------------------------
\* How often an event was raised, and how often it was or is being taken.
Once(e) == Cardinality(Runs(e)) + InHand(e) <= Cardinality(Raises(e))

LEMMA OnceParts ==
  /\ TakenOnce <=> \A e \in Event : Once(e)
  /\ TakenOnce' <=> \A e \in Event : Once(e)'
BY DEF TakenOnce, Once

LEMMA Counts ==
  ASSUME TypeOK, RaiseInv, NEW e
  PROVE  /\ IsFiniteSet(Raises(e)) /\ Cardinality(Raises(e)) \in Nat
         /\ IsFiniteSet(Runs(e)) /\ Cardinality(Runs(e)) \in Nat
<1>1. Raises(e) \in SUBSET accepted /\ IsFiniteSet(accepted)
  BY DEF Raises, RaiseInv
<1>2. IsFiniteSet(Raises(e))
  BY <1>1, FS_Subset
<1>3. DOMAIN delivered = 1..Len(delivered) /\ Len(delivered) \in Nat
  BY DEF TypeOK
<1>4. IsFiniteSet(1..Len(delivered))
  BY <1>3, FS_Interval
<1>5. Runs(e) \in SUBSET (1..Len(delivered))
  BY <1>3 DEF Runs
<1>6. IsFiniteSet(Runs(e))
  BY <1>4, <1>5, FS_Subset
<1>7. QED
  BY <1>2, <1>6, FS_CardinalityType

\* The three ways in which a step may touch the account of an event.
LEMMA NothingTaken ==
  ASSUME TypeOK, RaiseInv, NEW e, Once(e), UNCHANGED <<Runs(e), Raises(e)>>, InHand(e)' <= InHand(e)
  PROVE  Once(e)'
<1>1. Cardinality(Runs(e)) \in Nat /\ Cardinality(Raises(e)) \in Nat
  BY Counts
<1>2. InHand(e) \in Int /\ InHand(e)' \in Int
  BY DEF InHand, OneIf
<1>3. QED
  BY <1>1, <1>2 DEF Once

LEMMA RaisedOnce ==
  ASSUME TypeOK, RaiseInv, NEW e, Once(e), UNCHANGED Runs(e), InHand(e)' <= InHand(e) + 1,
         NEW a, a \notin Raises(e), Raises(e)' = Raises(e) \cup {a}
  PROVE  Once(e)'
<1>1. /\ Cardinality(Runs(e)) \in Nat /\ Cardinality(Raises(e)) \in Nat
      /\ IsFiniteSet(Raises(e))
  BY Counts
<1>2. InHand(e) \in Int /\ InHand(e)' \in Int
  BY DEF InHand, OneIf
<1>3. Cardinality(Raises(e)') = Cardinality(Raises(e)) + 1
  BY <1>1, FS_AddElement
<1>4. QED
  BY <1>1, <1>2, <1>3 DEF Once

LEMMA RunOnce ==
  ASSUME TypeOK, RaiseInv, NEW e, Once(e), UNCHANGED Raises(e), InHand(e)' + 1 <= InHand(e),
         NEW p \in Payload \cup {NoPayload}, e \in Event,
         delivered' = Append(delivered, [ev |-> e, payload |-> p])
  PROVE  Once(e)'
<1>1. /\ Cardinality(Runs(e)) \in Nat /\ Cardinality(Raises(e)) \in Nat
      /\ IsFiniteSet(Runs(e))
  BY Counts
<1>2. InHand(e) \in Int /\ InHand(e)' \in Int
  BY DEF InHand, OneIf
<1>3. Runs(e)' = Runs(e) \cup {Len(delivered) + 1}
  BY OneMore DEF Runs
<1>4. Len(delivered) + 1 \notin Runs(e)
  BY OneMore DEF Runs
<1>5. Cardinality(Runs(e)') = Cardinality(Runs(e)) + 1
  BY <1>1, <1>3, <1>4, FS_AddElement
<1>6. QED
  BY <1>1, <1>2, <1>5 DEF Once

\* A callback of another event is no run of this one.
LEMMA OtherRun ==
  ASSUME TypeOK, NEW e, NEW o \in Event, o # e, NEW p \in Payload \cup {NoPayload},
         delivered' = Append(delivered, [ev |-> o, payload |-> p])
  PROVE  Runs(e)' = Runs(e)
BY OneMore DEF Runs

LEMMA SenderOnce ==
  ASSUME TypeOK, RaiseInv, TakenOnce, NEW s \in Sender, SenderMove(s)
  PROVE  \A e \in Event : Once(e)'
<1> SUFFICES ASSUME NEW e \in Event
             PROVE  Once(e)'
  OBVIOUS
<1>1. Once(e)
  BY OnceParts
<1>2. UNCHANGED <<Runs(e), InIsr(e), InTask(e)>>
  BY SenderFrame DEF Runs, InIsr, InTask, isr, task
<1>3. CASE Quiet(s) \/ WritePayload(s)
  <2>1. flag' = flag /\ accepted' = accepted
    BY <1>3, QuietFrame DEF WritePayload, chart, history
  <2>2. Raises(e)' = Raises(e) /\ InHand(e)' = InHand(e)
    BY <1>2, <2>1 DEF Raises, InHand, Up
  <2>3. InHand(e)' <= InHand(e)
    BY <2>2 DEF InHand, OneIf
  <2>4. QED
    BY <1>1, <1>2, <2>2, <2>3, NothingTaken
<1>4. CASE RaiseFlag(s)
  <2> DEFINE a == [ev |-> sEv[s], payload |-> <<s, sNum[s]>>]
  <2>1. /\ flag' = [flag EXCEPT ![sEv[s]] = "UP"] /\ accepted' = accepted \cup {a}
        /\ sPc[s] = "raise" /\ sEv[s] \in Event /\ flag \in [Event -> {"DOWN", "UP"}]
    BY <1>4 DEF RaiseFlag, SenderAt, TypeOK
  <2>2. CASE sEv[s] = e
    <3>1. Raises(e)' = Raises(e) \cup {a}
      BY <2>1, <2>2 DEF Raises
    <3>2. a \notin Raises(e)
      <4>1. sNum[s] \in Int
        BY DEF TypeOK
      <4>2. a.payload[1] = s /\ a.payload[2] = sNum[s]
        OBVIOUS
      <4>3. a \in accepted => sNum[s] < sNum[s]
        BY <2>1, <4>2 DEF RaiseInv
      <4>4. QED
        BY <4>1, <4>3 DEF Raises
    <3>3. InHand(e)' <= InHand(e) + 1
      BY <1>2 DEF InHand, OneIf
    <3> HIDE DEF a
    <3>4. QED
      BY <1>1, <1>2, <3>1, <3>2, <3>3, RaisedOnce
  <2>3. CASE sEv[s] # e
    <3>1. Raises(e)' = Raises(e)
      BY <2>1, <2>3 DEF Raises
    <3>2. Up(e)' <=> Up(e)
      BY <2>1, <2>3 DEF Up
    <3>3. InHand(e)' <= InHand(e)
      BY <1>2, <3>2 DEF InHand, OneIf
    <3>4. QED
      BY <1>1, <1>2, <3>1, <3>3, NothingTaken
  <2>4. QED
    BY <2>2, <2>3
<1>5. QED
  BY <1>3, <1>4, SenderSteps

LEMMA IsrOnce ==
  ASSUME TypeOK, IsrInv, RaiseInv, TakenOnce,
         IsrEnter \/ IsrScan \/ IsrSave \/ IsrAck \/ IsrExec
  PROVE  \A e \in Event : Once(e)'
<1> SUFFICES ASSUME NEW e \in Event
             PROVE  Once(e)'
  OBVIOUS
<1>1. Once(e)
  BY OnceParts
<1>2. UNCHANGED <<regChart, Raises(e), InTask(e)>>
  BY IsrFrame DEF Raises, InTask, task
<1>3. flag \in [Event -> {"DOWN", "UP"}] /\ isrPayload \in Payload \cup {NoPayload}
  BY DEF TypeOK
<1>4. isrPc \in {"ack", "exec"} => regChart[isrI] \in Event
  BY DEF IsrInv, TypeOK
<1>5. CASE IsrEnter \/ IsrScan \/ IsrSave
  <2>1. UNCHANGED <<flag, delivered>> /\ isrPc' # "exec"
    BY <1>5 DEF IsrEnter, IsrScan, IsrSave, chart, history
  <2>2. Runs(e)' = Runs(e) /\ ~InIsr(e)' /\ Up(e)' = Up(e)
    BY <2>1 DEF Runs, InIsr, Up
  <2>3. InHand(e)' <= InHand(e)
    BY <1>2, <2>2 DEF InHand, OneIf
  <2>4. QED
    BY <1>1, <1>2, <2>2, <2>3, NothingTaken
<1>6. CASE IsrAck
  <2>1. /\ flag' = [flag EXCEPT ![regChart[isrI]] = "DOWN"] /\ delivered' = delivered
        /\ isrPc = "ack" /\ isrPc' = "exec" /\ isrI' = isrI /\ flag[regChart[isrI]] = "UP"
    BY <1>6 DEF IsrAck, IsrInv, history
  <2>2. Runs(e)' = Runs(e) /\ ~InIsr(e)
    BY <2>1 DEF Runs, InIsr
  <2>3. CASE regChart[isrI] = e
    <3>1. Up(e) /\ ~Up(e)'
      BY <1>3, <2>1, <2>3 DEF Up
    <3>2. InHand(e)' <= InHand(e)
      BY <1>2, <2>2, <3>1 DEF InHand, OneIf
    <3>3. QED
      BY <1>1, <1>2, <2>2, <3>2, NothingTaken
  <2>4. CASE regChart[isrI] # e
    <3>1. ~InIsr(e)' /\ (Up(e)' <=> Up(e))
      BY <1>2, <1>3, <2>1, <2>4 DEF Up, InIsr
    <3>2. InHand(e)' <= InHand(e)
      BY <1>2, <2>2, <3>1 DEF InHand, OneIf
    <3>3. QED
      BY <1>1, <1>2, <2>2, <3>2, NothingTaken
  <2>5. QED
    BY <2>3, <2>4
<1>7. CASE IsrExec
  <2>1. /\ delivered' = Append(delivered, [ev |-> regChart[isrI], payload |-> isrPayload])
        /\ isrPc = "exec" /\ isrPc' = "scan" /\ flag' = flag
    BY <1>7 DEF IsrExec, Notify_exec, chart
  <2>2. ~InIsr(e)' /\ (Up(e)' <=> Up(e))
    BY <2>1 DEF InIsr, Up
  <2>3. CASE regChart[isrI] = e
    <3>1. InIsr(e)
      BY <2>1, <2>3 DEF InIsr
    <3>2. InHand(e)' + 1 <= InHand(e)
      BY <1>2, <2>2, <3>1 DEF InHand, OneIf
    <3>3. QED
      BY <1>1, <1>2, <1>3, <2>1, <2>3, <3>2, RunOnce
  <2>4. CASE regChart[isrI] # e
    <3>1. Runs(e)' = Runs(e)
      BY <1>3, <1>4, <2>1, <2>4, OtherRun
    <3>2. InHand(e)' <= InHand(e)
      BY <1>2, <2>2 DEF InHand, OneIf
    <3>3. QED
      BY <1>1, <1>2, <3>1, <3>2, NothingTaken
  <2>5. QED
    BY <2>3, <2>4
<1>8. QED
  BY <1>5, <1>6, <1>7

LEMMA TaskOnce ==
  ASSUME TypeOK, RaiseInv, TakenOnce, Calm \/ Rechart \/ Clear \/ Take
  PROVE  \A e \in Event : Once(e)'
<1> SUFFICES ASSUME NEW e \in Event
             PROVE  Once(e)'
  OBVIOUS
<1>1. Once(e)
  BY OnceParts
<1>2. ~InIsr(e) /\ ~InIsr(e)' /\ Raises(e)' = Raises(e)
  BY CalmFrame, RechartFrame, ClearFrame, TakeFrame DEF InIsr, Raises, isr, history
<1>3. flag \in [Event -> {"DOWN", "UP"}] /\ tEv \in Event /\ payload[tEv] \in Payload \cup {NoPayload}
  BY DEF TypeOK
<1>4. CASE Calm \/ Rechart \/ Clear
  <2>1. delivered' = delivered /\ \A f \in Event : flag'[f] \in {flag[f], "DOWN"}
    BY <1>3, <1>4, CalmFrame, RechartFrame, ClearFrame DEF chart, history
  <2>2. tPc' # "disExec" \/ UNCHANGED <<tPc, tEv>>
    BY <1>4 DEF Calm, setNotifyHandle, RegMask, DisTest, LineOn, Returned, unregisterEvent,
      disableEvent, enableEvent, Instance_finalize, disable, enable, Goto, task, Rechart, Unplug,
      Instance_init, registerEvent, Clear, RegClear, UnregClear
  <2>3. Runs(e)' = Runs(e) /\ (InTask(e)' => InTask(e)) /\ (Up(e)' => Up(e))
    BY <2>1, <2>2 DEF Runs, InTask, Up
  <2>4. InHand(e)' <= InHand(e)
    BY <1>2, <2>3 DEF InHand, OneIf
  <2>5. QED
    BY <1>1, <1>2, <2>3, <2>4, NothingTaken
<1>5. CASE DisAck
  <2>1. /\ flag' = [flag EXCEPT ![tEv] = "DOWN"] /\ delivered' = delivered /\ tPc = "disAck"
        /\ tPc' = "disExec" /\ tEv' = tEv /\ Up(tEv)
    BY <1>5 DEF DisAck, TaskAt, RaiseInv, history
  <2>2. Runs(e)' = Runs(e) /\ ~InTask(e)
    BY <2>1 DEF Runs, InTask
  <2>3. e = tEv => ~Up(e)'
    BY <1>3, <2>1 DEF Up
  <2>4. e # tEv => ~InTask(e)' /\ (Up(e)' <=> Up(e))
    BY <1>3, <2>1 DEF Up, InTask
  <2>5. InHand(e)' <= InHand(e)
    BY <1>2, <2>1, <2>2, <2>3, <2>4 DEF InHand, OneIf
  <2>6. QED
    BY <1>1, <1>2, <2>2, <2>5, NothingTaken
<1>6. CASE DisExec
  <2>1. /\ delivered' = Append(delivered, [ev |-> tEv, payload |-> payload[tEv]])
        /\ flag' = flag /\ tPc = "disExec" /\ tPc' = "lineOn"
    BY <1>6 DEF DisExec, Notify_exec, TaskAt, chart
  <2>2. ~InTask(e)' /\ (Up(e)' <=> Up(e))
    BY <2>1 DEF InTask, Up
  <2>3. CASE tEv = e
    <3>1. InTask(e)
      BY <2>1, <2>3 DEF InTask
    <3>2. InHand(e)' + 1 <= InHand(e)
      BY <1>2, <2>2, <3>1 DEF InHand, OneIf
    <3>3. QED
      BY <1>1, <1>2, <1>3, <2>1, <2>3, <3>2, RunOnce
  <2>4. CASE tEv # e
    <3>1. Runs(e)' = Runs(e)
      BY <1>3, <2>1, <2>4, OtherRun
    <3>2. InHand(e)' <= InHand(e)
      BY <1>2, <2>2 DEF InHand, OneIf
    <3>3. QED
      BY <1>1, <1>2, <3>1, <3>2, NothingTaken
  <2>5. QED
    BY <2>3, <2>4
<1>7. QED
  BY <1>4, <1>5, <1>6 DEF Take

\* Raises are told apart by their numbers, and disableEvent's flag stays up.
LEMMA SenderRaise ==
  ASSUME TypeOK, SendInv, RaiseInv, NEW s \in Sender, SenderMove(s)
  PROVE  RaiseInv'
<1>1. /\ sPc \in [Sender -> Pcs] /\ sEv \in [Sender -> Event] /\ sNum \in [Sender -> 0..MaxSends]
      /\ sends \in 0..MaxSends /\ flag \in [Event -> {"DOWN", "UP"}] /\ tEv \in Event
  BY DEF TypeOK, Pcs
<1>2. UNCHANGED <<tPc, tEv>>
  BY SenderFrame DEF task
<1>3. tPc' = "disAck" => Up(tEv)'
  <2>1. CASE Quiet(s) \/ WritePayload(s)
    BY <1>2, <2>1, QuietFrame DEF WritePayload, chart, RaiseInv, Up
  <2>2. CASE RaiseFlag(s)
    BY <1>1, <1>2, <2>2 DEF RaiseFlag, RaiseInv, Up
  <2>3. QED
    BY <2>1, <2>2, SenderSteps
<1>4. \A a \in accepted : /\ a.payload[1] \in Sender /\ a.payload[2] \in Nat
                          /\ a.payload[2] <= sends
                          /\ sPc[a.payload[1]] \notin {"idle", "intSend"} =>
                               a.payload[2] < sNum[a.payload[1]]
  BY DEF TypeOK, RaiseInv
<1>5. \A t \in Sender \ {s} : sPc'[t] = sPc[t] /\ sNum'[t] = sNum[t]
  BY <1>1 DEF SenderMove, SenderStep, CheckInit, CheckEnabled, CheckRegistered, Check, Poll, Mask,
    WritePayload, RaiseFlag, IntSend, sendEvent, Return
<1>6. sends' = sends \/ sends' = sends + 1
  BY DEF SenderMove, SenderStep, CheckInit, CheckEnabled, CheckRegistered, Check, Poll, Mask,
    WritePayload, RaiseFlag, IntSend, sendEvent, Return
<1>7. \/ sPc'[s] \in {"idle", "intSend"}
      \/ sPc[s] \notin {"idle", "intSend"} /\ sNum'[s] = sNum[s]
      \/ sNum'[s] = sends + 1
  BY <1>1 DEF SenderMove, SenderStep, CheckInit, CheckEnabled, CheckRegistered, Check, Poll, Mask,
    WritePayload, RaiseFlag, IntSend, sendEvent, SenderAt, Return
<1>8. ASSUME NEW a \in accepted
      PROVE  /\ a.payload[2] <= sends'
             /\ sPc'[a.payload[1]] \notin {"idle", "intSend"} =>
                  a.payload[2] < sNum'[a.payload[1]]
  <2> DEFINE t == a.payload[1]
             n == a.payload[2]
  <2>1. /\ t \in Sender /\ n \in Nat /\ n <= sends /\ sends \in Nat
        /\ sPc[t] \notin {"idle", "intSend"} => n < sNum[t]
    BY <1>1, <1>4
  <2> HIDE DEF t, n
  <2>2. n <= sends' /\ n < sends + 1
    BY <1>6, <2>1
  <2>3. sPc'[t] \notin {"idle", "intSend"} => n < sNum'[t]
    BY <1>5, <1>7, <2>1, <2>2
  <2>4. QED
    BY <2>2, <2>3 DEF t, n
<1>9. CASE accepted' = accepted
  BY <1>3, <1>8, <1>9 DEF RaiseInv
<1>10. CASE RaiseFlag(s)
  <2> DEFINE r == [ev |-> sEv[s], payload |-> <<s, sNum[s]>>]
  <2>1. accepted' = accepted \cup {r} /\ sPc'[s] = "intSend" /\ sends' = sends
        /\ sPc[s] = "raise"
    BY <1>1, <1>10 DEF RaiseFlag, SenderAt
  <2>2. r.payload[1] = s /\ r.payload[2] = sNum[s]
    OBVIOUS
  <2>3. sNum[s] <= sends
    BY <1>1, <2>1 DEF SendInv
  <2> HIDE DEF r
  <2>4. IsFiniteSet(accepted')
    BY <2>1, FS_AddElement DEF RaiseInv
  <2>5. QED
    BY <1>3, <1>8, <2>1, <2>2, <2>3, <2>4 DEF RaiseInv
<1>11. QED
  BY <1>9, <1>10, SenderSteps, QuietFrame DEF WritePayload, history

LEMMA IsrRaise ==
  ASSUME LineInv, RaiseInv, IsrEnter \/ IsrScan \/ IsrSave \/ IsrAck \/ IsrExec
  PROVE  RaiseInv'
<1>1. UNCHANGED <<accepted, sends, sPc, sNum, tPc, tEv>>
  BY IsrFrame DEF senders, task
<1>2. tPc # "disAck"
  BY DEF LineInv, IsrEnter, IsrScan, IsrSave, IsrAck, IsrExec
<1>3. QED
  BY <1>1, <1>2 DEF RaiseInv

LEMMA TaskRaise ==
  ASSUME RaiseInv, Calm \/ Rechart \/ Clear \/ Take
  PROVE  RaiseInv'
<1>1. UNCHANGED <<accepted, sends, sPc, sNum>>
  BY CalmFrame, RechartFrame, ClearFrame, TakeFrame DEF senders, history
<1>2. tPc' = "disAck" => Up(tEv)'
  <2>1. CASE Calm
    BY <2>1 DEF Calm, setNotifyHandle, RegMask, DisTest, LineOn, Returned, unregisterEvent,
      disableEvent, enableEvent, Instance_finalize, disable, enable, Goto, task, chart, RaiseInv,
      Up
  <2>2. CASE Rechart \/ Clear \/ Take
    BY <2>2 DEF Rechart, Unplug, Instance_init, registerEvent, Clear, RegClear, UnregClear, Take,
      DisAck, DisExec, Goto
  <2>3. QED
    BY <2>1, <2>2
<1>3. QED
  BY <1>1, <1>2 DEF RaiseInv

-----------------------------------------------------------------------------
\* At the start the receiver's driver does not exist and nothing was sent.
LEMMA InitInv == Init => Inv
<1> SUFFICES ASSUME Init PROVE Inv
  OBVIOUS
<1>1. TypeOK
  BY EmptyOK DEF Init, TypeOK, NoPayload
<1>2. ChartInOrder /\ LineInv /\ IsrInv /\ SendInv
  BY DEF Init, ChartInOrder, LineInv, IsrInv, SendInv, Masked
<1>3. OrderInv /\ NumberInv
  BY DEF Init, OrderInv, NumberInv, OnItsWay, InIsr, Up, Reliable
<1>4. DeliveredInOrder /\ NothingLost
  BY DEF Init, DeliveredInOrder, NothingLost
<1>5. RaiseInv
  BY FS_EmptySet DEF Init, RaiseInv
<1>6. ASSUME NEW e \in Event
      PROVE  Once(e)
  <2>1. Runs(e) = {} /\ Raises(e) = {} /\ ~InIsr(e) /\ ~InTask(e) /\ ~Up(e)
    BY DEF Init, Runs, Raises, InIsr, InTask, Up
  <2>2. QED
    BY <2>1, FS_EmptySet DEF Once, InHand, OneIf
<1>7. QED
  BY <1>1, <1>2, <1>3, <1>4, <1>5, <1>6, OnceParts DEF Inv, IInv

\* Every step keeps the invariant.
LEMMA NextInv == Inv /\ [Next]_vars => Inv'
<1> SUFFICES ASSUME Inv, [Next]_vars PROVE Inv'
  OBVIOUS
<1>1. /\ TypeOK /\ Registrations /\ ChartInOrder /\ LineInv /\ IsrInv /\ SendInv /\ OrderInv
      /\ NumberInv /\ DeliveredInOrder /\ NothingLost /\ TakenOnce /\ RaiseInv
  BY DEF Inv, IInv, Registrations
<1>2. ASSUME NEW s \in Sender, SenderMove(s)
      PROVE  Inv'
  BY <1>1, <1>2, SenderTypeStep, SenderRegistrations, SenderIsrInv, SenderSendInv, SenderOrder,
    SenderNumber, StepDeliveredInOrder, SenderFound, SenderOnce, SenderRaise, OnceParts
    DEF Inv, IInv, Registrations
<1>3. CASE IsrEnter \/ IsrScan \/ IsrSave \/ IsrAck \/ IsrExec
  BY <1>1, <1>3, IsrTypeStep, IsrRegistrations, IsrIsrInv, ReceiverSendInv, IsrOrder,
    IsrNumber, StepDeliveredInOrder, IsrFound, IsrOnce, IsrRaise, OnceParts
    DEF Inv, IInv, Registrations
<1>4. CASE Calm \/ Rechart \/ Clear \/ Take
  BY <1>1, <1>4, TaskTypeStep, TaskRegistrations, TaskIsrInv, ReceiverSendInv, TaskOrder,
    TaskNumber, StepDeliveredInOrder, TaskFound, TaskOnce, TaskRaise, OnceParts
    DEF Inv, IInv, Registrations
<1>5. CASE UNCHANGED vars
  <2>1. UNCHANGED <<ctrl, chart, regChart, intr, isr, task, senders, history>>
    BY <1>5 DEF vars
  <2>2. UNCHANGED <<recvInitStatus, eventRegMask, eventEnableMask, flag, payload, regChart, line,
          interrupt, isrPc, isrI, isrPayload, tPc, tEv, tPayload, sPc, sEv, sNum, sPoll, sends,
          accepted, delivered, dropped>>
    BY <2>1 DEF ctrl, chart, intr, isr, task, senders, history
  <2>3. TypeOK' /\ ChartInOrder' /\ LineInv' /\ IsrInv' /\ SendInv' /\ OrderInv' /\ NumberInv'
        /\ DeliveredInOrder' /\ NothingLost'
    BY <1>1, <2>2 DEF TypeOK, ChartInOrder, LineInv, ChartEvents, IsrInv, SendInv, Masked,
      OrderInv, NumberInv, OnItsWay, InIsr, Up, DeliveredInOrder, NothingLost
  <2>4. ASSUME NEW e
        PROVE  UNCHANGED <<Runs(e), Raises(e), InHand(e)>>
    BY <2>2 DEF Runs, Raises, InHand, OneIf, InIsr, InTask, Up
  <2>5. TakenOnce'
    BY <1>1, <2>4 DEF TakenOnce
  <2>6. RaiseInv'
    BY <1>1, <2>2 DEF RaiseInv, Up
  <2>7. QED
    BY <2>3, <2>5, <2>6 DEF Inv, IInv
<1>6. QED
  BY <1>2, <1>3, <1>4, <1>5, Steps

\* NotifyDriverShm: what is in the chart, in the hands of the isr and delivered
\* stays consistent in every interleaving of sendEvent, NotifyDriverShm_isr and
\* the operations of the receiver's task, and no reliable event is lost.
THEOREM InvHolds == Spec => []Inv
BY InitInv, NextInv, PTL DEF Spec

\* NotifyDriverShm_isr and sendEvent: the payloads that a thread sends to a reliable event
\* reach the callback at most once and in the order of the calls.
THEOREM DeliveredInOrderHolds == Spec => []DeliveredInOrder
<1>1. Inv => DeliveredInOrder
  BY DEF Inv, IInv
<1>2. QED
  BY <1>1, InvHolds, PTL

\* disableEvent and NotifyDriverShm_isr, of every event: no raise of the flag makes both run
\* the callback, and none makes one of them run it twice.
THEOREM TakenOnceHolds == Spec => []TakenOnce
<1>1. Inv => TakenOnce
  BY DEF Inv, IInv
<1>2. QED
  BY <1>1, InvHolds, PTL

\* sendEvent with waitClear: an accepted event waits in the chart, is in the hands of the
\* isr, was delivered, or was cleared by registerEvent or unregisterEvent.
THEOREM NothingLostHolds == Spec => []NothingLost
<1>1. Inv => NothingLost
  BY DEF Inv
<1>2. QED
  BY <1>1, InvHolds, PTL

-----------------------------------------------------------------------------
USE ApiAssumption

\* Every step of Notify is one of its driver or leaves the driver alone.
LEMMA DriverSteps == [NotifyNext]_allVars => [Next]_vars
<1> SUFFICES ASSUME NotifyNext PROVE [Next]_vars
  BY DEF allVars
<1>1. CASE PassThrough
  BY <1>1 DEF PassThrough, Next, Call
<1>2. CASE AfterDriver
  BY <1>2 DEF AfterDriver, Next
<1>3. CASE Notify_disable \/ Notify_restore
  BY <1>3 DEF Notify_disable, Notify_restore, Next
<1>4. CASE Notify_detach
  BY <1>4 DEF Notify_detach, Next
<1>5. ASSUME NEW e \in SingleEvents, Notify_registerEventSingle(e) \/ Notify_unregisterEventSingle(e)
      PROVE  [Next]_vars
  <2>1. e \in Event
    OBVIOUS
  <2>2. QED
    BY <1>5, <2>1 DEF Notify_registerEventSingle, Notify_unregisterEventSingle, Next, Call
<1>6. ASSUME NEW e \in ManyEvents, UnregisterEventMiss(e)
      PROVE  [Next]_vars
  BY <1>6 DEF UnregisterEventMiss
<1>7. ASSUME NEW e \in ManyEvents, NEW l \in Listener,
             Notify_registerEvent(e, l) \/ Notify_unregisterEvent(e, l)
      PROVE  [Next]_vars
  <2>1. e \in Event
    OBVIOUS
  <2>2. QED
    BY <1>7, <2>1 DEF Notify_registerEvent, Notify_unregisterEvent, Next, Call
<1>8. QED
  BY <1>1, <1>2, <1>3, <1>4, <1>5, <1>6, <1>7 DEF NotifyNext

\* The driver below Notify keeps its own invariant.
LEMMA DriverHolds == NotifySpec => []Inv
<1>1. NotifyInit => Init
  BY DEF NotifyInit
<1>2. QED
  BY <1>1, InitInv, DriverSteps, NextInv, PTL DEF NotifySpec

-----------------------------------------------------------------------------
\* What a step of the driver means for the tables.
LEMMA Entries ==
  /\ \A x : x \in ChartEvents <=> \E i \in DOMAIN regChart : x = regChart[i]
  /\ \A x : x \in ChartEvents' <=> \E i \in DOMAIN regChart' : x = regChart'[i]
BY DEF ChartEvents

LEMMA Registered ==
  ASSUME TypeOK, NEW e \in Event, registerEvent(e)
  PROVE  ChartEvents' = ChartEvents \cup {e}
<1>1. PICK n \in 1..(Len(regChart) + 1) : regChart' = Inserted(e, n)
  BY DEF registerEvent
<1>2. regChart \in Seq(Event)
  BY DEF TypeOK
<1>3. /\ Inserted(e, n) \in Seq(Event) /\ Len(Inserted(e, n)) = Len(regChart) + 1
      /\ \A i \in 1..(Len(regChart) + 1) :
           Inserted(e, n)[i] = IF i < n THEN regChart[i] ELSE IF i = n THEN e ELSE regChart[i - 1]
  BY ONLY <1>2, e \in Event, n \in 1..(Len(regChart) + 1), InsertedOK
<1>4. DOMAIN regChart = 1..Len(regChart) /\ DOMAIN regChart' = 1..(Len(regChart) + 1)
      /\ Len(regChart) \in Nat
  BY <1>1, <1>2, <1>3
<1>5. ASSUME NEW i \in DOMAIN regChart'
      PROVE  regChart'[i] \in ChartEvents \cup {e}
  <2>1. regChart'[i] = IF i < n THEN regChart[i] ELSE IF i = n THEN e ELSE regChart[i - 1]
    BY <1>1, <1>3, <1>4
  <2>2. i < n => i \in DOMAIN regChart
    BY <1>4
  <2>3. i > n => i - 1 \in DOMAIN regChart
    BY <1>4
  <2>4. i < n \/ i = n \/ i > n
    BY <1>4
  <2>5. QED
    BY <2>1, <2>2, <2>3, <2>4, Entries
<1>6. e \in ChartEvents'
  <2>1. regChart'[n] = e /\ n \in DOMAIN regChart'
    BY <1>1, <1>3, <1>4
  <2>2. QED
    BY <2>1, Entries
<1>7. ASSUME NEW i \in DOMAIN regChart
      PROVE  regChart[i] \in ChartEvents'
  <2>1. CASE i < n
    BY <1>1, <1>3, <1>4, <2>1, SMTT(40) DEF ChartEvents
  <2>2. CASE i >= n
    <3>1. i + 1 \in 1..(Len(regChart) + 1) /\ ~(i + 1 < n) /\ i + 1 # n /\ (i + 1) - 1 = i
      BY <1>4, <2>2
    <3>2. regChart'[i + 1] = regChart[i]
      BY <1>1, <1>3, <3>1
    <3>3. QED
      BY <1>4, <3>1, <3>2 DEF ChartEvents
  <2>3. QED
    BY <1>4, <2>1, <2>2
<1>8. QED
  BY <1>5, <1>6, <1>7, Entries

LEMMA Unregistered ==
  ASSUME TypeOK, ChartInOrder, UnregClear
  PROVE  ChartEvents' = ChartEvents \ {tEv}
<1>1. PICK n \in DOMAIN regChart : regChart[n] = tEv /\ regChart' = Closed(n)
  BY DEF UnregClear
<1>2. regChart \in Seq(Event)
  BY DEF TypeOK
<1>3. /\ Closed(n) \in Seq(Event) /\ Len(Closed(n)) = Len(regChart) - 1
      /\ \A i \in 1..(Len(regChart) - 1) :
           Closed(n)[i] = IF i < n THEN regChart[i] ELSE regChart[i + 1]
  BY ONLY <1>2, n \in DOMAIN regChart, ClosedOK
<1>4. DOMAIN regChart = 1..Len(regChart) /\ DOMAIN regChart' = 1..(Len(regChart) - 1)
      /\ Len(regChart) \in Nat
  BY <1>1, <1>2, <1>3
<1>5. \A i \in DOMAIN regChart : regChart[i] \in Int
  BY <1>2
<1>6. \A i \in DOMAIN regChart : i # n => regChart[i] # tEv
  BY <1>1, <1>4, <1>5 DEF ChartInOrder
<1>7. ASSUME NEW i \in DOMAIN regChart'
      PROVE  regChart'[i] \in ChartEvents \ {tEv}
  <2>1. regChart'[i] = IF i < n THEN regChart[i] ELSE regChart[i + 1]
    BY <1>1, <1>3, <1>4
  <2>2. i \in DOMAIN regChart /\ i + 1 \in DOMAIN regChart /\ (~(i < n) => i + 1 # n)
        /\ (i < n => i # n)
    BY <1>4
  <2>3. \E j \in DOMAIN regChart : j # n /\ regChart'[i] = regChart[j]
    BY <2>1, <2>2
  <2>4. QED
    BY <1>6, <2>3, Entries
<1>8. ASSUME NEW i \in DOMAIN regChart, i # n
      PROVE  regChart[i] \in ChartEvents'
  <2>1. CASE i < n
    <3>1. i \in DOMAIN regChart'
      BY <1>4, <2>1
    <3>2. regChart'[i] = regChart[i]
      BY <1>1, <1>3, <1>4, <2>1, <3>1
    <3>3. QED
      BY <3>1, <3>2, Entries
  <2>2. CASE i > n
    <3>1. i - 1 \in 1..(Len(regChart) - 1) /\ ~(i - 1 < n) /\ (i - 1) + 1 = i
      BY <1>4, <2>2
    <3>2. regChart'[i - 1] = regChart[i]
      BY <1>1, <1>3, <3>1
    <3>3. QED
      BY <1>4, <3>1, <3>2 DEF ChartEvents
  <2>3. QED
    BY <1>4, <1>8, <2>1, <2>2
<1>9. QED
  BY <1>1, <1>7, <1>8, Entries

-----------------------------------------------------------------------------
\* Types, and that between calls the tables agree.
AfterType == [op : {"none", "callback"}, ev : Event, listener : SUBSET Listener]
NotifyTypes ==
  /\ callbacks \in [Event -> {"NULL", "single", "execMany"}]
  /\ eventList \in [Event -> SUBSET Listener]
  /\ nesting \in 0..MaxNesting
  /\ gate \in 0..MaxMisses
  /\ after \in AfterType
  /\ asserts \subseteq {"registerEventSingle should always succeed",
                        "unregisterEvent should always succeed"}

LEMMA NotifyTypeStep ==
  ASSUME NotifyTypes, NotifyNext
  PROVE  NotifyTypes'
<1> USE DEF NotifyTypes
<1>1. CASE PassThrough
  BY <1>1 DEF PassThrough, notify
<1>2. CASE AfterDriver
  <2>1. after.ev \in Event
    BY DEF AfterType
  <2>2. Nothing \in AfterType
    <3>1. 0 \in Event
      BY ONLY EventAssumption DEF Event
    <3>2. QED
      BY ONLY <3>1 DEF Nothing, AfterType
  <2>3. callbacks' \in [Event -> {"NULL", "single", "execMany"}]
    BY <1>2, <2>1 DEF AfterDriver
  <2>4. eventList' \in [Event -> SUBSET Listener]
    BY <1>2, <2>1 DEF AfterDriver
  <2>5. QED
    BY <1>2, <2>2, <2>3, <2>4 DEF AfterDriver
<1>3. CASE Notify_disable \/ Notify_restore
  <2>1. nesting' \in 0..MaxNesting
    <3>1. /\ nesting \in 0..MaxNesting
          /\ \/ nesting < MaxNesting /\ nesting' = nesting + 1
             \/ nesting > 0 /\ nesting' = nesting - 1
      BY <1>3 DEF Notify_disable, Notify_restore
    <3>2. QED
      BY ONLY <3>1, ApiAssumption
  <2>2. QED
    BY <1>3, <2>1 DEF Notify_disable, Notify_restore
<1>4. CASE Notify_detach
  BY <1>4 DEF Notify_detach, notify
<1>5. ASSUME NEW e \in SingleEvents, Notify_registerEventSingle(e) \/ Notify_unregisterEventSingle(e)
      PROVE  NotifyTypes'
  <2>1. e \in Event /\ [op |-> "callback", ev |-> e, listener |-> {}] \in AfterType
    BY DEF AfterType
  <2>2. callbacks' \in [Event -> {"NULL", "single", "execMany"}] /\ after' \in AfterType
    BY <1>5, <2>1 DEF Notify_registerEventSingle, Notify_unregisterEventSingle
  <2>3. QED
    BY <1>5, <2>2 DEF Notify_registerEventSingle, Notify_unregisterEventSingle
<1>6. ASSUME NEW e \in ManyEvents, UnregisterEventMiss(e)
      PROVE  NotifyTypes'
  <2>1. gate' \in 0..MaxMisses
    <3>1. gate \in 0..MaxMisses /\ gate < MaxMisses /\ gate' = gate + 1
      BY <1>6 DEF UnregisterEventMiss
    <3>2. QED
      BY ONLY <3>1, ApiAssumption
  <2>2. QED
    BY <1>6, <2>1 DEF UnregisterEventMiss
<1>7. ASSUME NEW e \in ManyEvents, NEW l \in Listener, Notify_registerEvent(e, l)
      PROVE  NotifyTypes'
  BY <1>7 DEF Notify_registerEvent
<1>8. ASSUME NEW e \in ManyEvents, NEW l \in Listener, Notify_unregisterEvent(e, l)
      PROVE  NotifyTypes'
  <2>1. e \in Event /\ [op |-> "callback", ev |-> e, listener |-> {l}] \in AfterType
    BY ONLY ApiAssumption, e \in ManyEvents, l \in Listener DEF AfterType
  <2>2. eventList' \in [Event -> SUBSET Listener] /\ after' \in AfterType
    BY <1>8, <2>1, ZenonT(40) DEF Notify_unregisterEvent
  <2>3. UNCHANGED <<callbacks, nesting, gate>>
        /\ asserts' \in {asserts, asserts \cup {"unregisterEvent should always succeed"}}
    BY <1>8 DEF Notify_unregisterEvent
  <2>4. QED
    BY <2>2, <2>3
<1>9. QED
  BY <1>1, <1>2, <1>3, <1>4, <1>5, <1>6, <1>7, <1>8 DEF NotifyNext

\* The part of NotifyInv that says where a call of Notify stands.
Tables == TablesInv /\ CallInv /\ ListenersInv

LEMMA Agree ==
  ASSUME NotifyTypes, Tables
  PROVE  RegistrationAgrees
<1>1. CASE tPc = "idle"
  <2>1. ~CallUnderWay
    BY <1>1 DEF Tables, CallInv
  <2>2. \A e \in Event : e \in ChartEvents <=> callbacks[e] # "NULL"
    BY <2>1 DEF Tables, TablesInv
  <2>3. \A e \in Event : e \in ChartEvents <=> e \in eventRegMask
    BY <1>1 DEF Tables, TablesInv
  <2>4. \A e \in Event : e \notin SingleEvents \cap ManyEvents =>
          (callbacks[e] = "execMany" <=> eventList[e] # {})
    BY DEF Tables, ListenersInv
  <2>5. QED
    BY <2>2, <2>3, <2>4 DEF RegistrationAgrees
<1>2. QED
  BY <1>1 DEF RegistrationAgrees

-----------------------------------------------------------------------------
\* The tables, by what a step does to them.  Most steps change neither the chart of
\* registrations nor what Notify knows.
seen == <<regChart, eventRegMask, tPc, tEv, callbacks, eventList, after>>

LEMMA Unseen ==
  ASSUME Tables, UNCHANGED seen
  PROVE  Tables'
BY DEF seen, Tables, TablesInv, CallInv, ListenersInv, CallUnderWay, ChartEvents

\* Task steps that only go on: where to, and what they know then.
LEMMA GoesOn ==
  ASSUME Tables, UNCHANGED <<regChart, eventRegMask, notify>>,
         \/ tPc = "created" /\ tPc' = "idle"
         \/ tPc = "detached" /\ tPc' = "created"
         \/ tPc = "regClear" /\ tPc' = "regMask" /\ tEv' = tEv
         \/ tPc = "idle" /\ tPc' = "disTest"
         \/ tPc \in {"disTest", "disAck", "disExec"} /\ tPc' \in {"disAck", "disExec", "lineOn"}
         \/ tPc = "lineOn" /\ tPc' = "returned"
  PROVE  Tables'
<1>1. ChartEvents' = ChartEvents
  BY DEF ChartEvents
<1>2. TablesInv'
  BY <1>1 DEF Tables, TablesInv, CallUnderWay, notify, CallInv
<1>3. CallInv'
  BY <1>1 DEF Tables, CallInv, CallUnderWay, notify
<1>4. ListenersInv'
  BY DEF Tables, ListenersInv, notify
<1>5. QED
  BY <1>2, <1>3, <1>4 DEF Tables

LEMMA PassThroughTables ==
  ASSUME TypeOK, ChartInOrder, LineInv, NotifyTypes, Tables, PassThrough
  PROVE  Tables'
<1>1. UNCHANGED notify
  BY DEF PassThrough
<1>2. ListenersInv'
  BY <1>1 DEF Tables, ListenersInv, notify
<1> USE DEF Goto, TaskAt, ctrl
<1>3. CASE \E s \in Sender : SenderMove(s)
  BY <1>1, <1>3, SenderFrame, Unseen DEF notify, ctrl, task, seen
<1>4. CASE IsrEnter \/ IsrStep
  BY <1>1, <1>4, IsrFrame, Unseen DEF notify, ctrl, task, seen, IsrStep
<1>5. CASE \E e \in Event : enableEvent(e)
  BY <1>1, <1>5, Unseen DEF enableEvent, notify, task, seen
<1>6. CASE setNotifyHandle \/ RegClear \/ DisTest \/ LineOn
  BY <1>1, <1>6, GoesOn DEF setNotifyHandle, RegClear, DisTest, LineOn
<1>7. CASE DisAck \/ DisExec \/ \E e \in Event : disableEvent(e)
  BY <1>1, <1>7, GoesOn DEF DisAck, DisExec, disableEvent
<1>8. CASE Unplug \/ Instance_init
  <2>1. /\ UNCHANGED <<eventRegMask>> /\ regChart' = <<>>
        /\ tPc \in {"unplug", "detached"} /\ tPc' \in {"created", "detached"}
    BY <1>8 DEF Unplug, Instance_init
  <2>2. ChartEvents' = {}
    BY <2>1 DEF ChartEvents
  <2>3. \A e \in Event : callbacks[e] = "NULL"
    BY <2>1 DEF Tables, TablesInv
  <2>4. ChartEvents \subseteq Event
    BY DEF TypeOK, ChartEvents
  <2>5. ChartEvents = {} /\ eventRegMask = {} /\ ~CallUnderWay
    BY <2>1, <2>3, <2>4 DEF Tables, TablesInv, CallInv
  <2>6. TablesInv' /\ CallInv'
    BY <1>1, <2>1, <2>2, <2>3, <2>5 DEF TablesInv, CallInv, CallUnderWay, notify
  <2>7. QED
    BY <1>2, <2>6 DEF Tables
<1>9. CASE RegMask
  <2>1. /\ eventRegMask' = eventRegMask \cup {tEv} /\ tEv' = tEv
        /\ tPc = "regMask" /\ tPc' = "lineOn"
    BY <1>9 DEF RegMask
  <2>2. ChartEvents' = ChartEvents
    BY <1>9 DEF RegMask, ChartEvents
  <2>3. tEv \in ChartEvents /\ ~CallUnderWay
    BY <2>1 DEF Tables, TablesInv, CallInv
  <2>4. TablesInv' /\ CallInv'
    BY <1>1, <2>1, <2>2, <2>3 DEF Tables, TablesInv, CallInv, CallUnderWay, notify
  <2>5. QED
    BY <1>2, <2>4 DEF Tables
<1>10. CASE UnregClear
  <2>1. UNCHANGED eventRegMask /\ tEv' = tEv /\ tPc = "unregClear" /\ tPc' = "lineOn"
    BY <1>10 DEF UnregClear
  <2>2. ChartEvents' = ChartEvents \ {tEv}
    BY <1>10, Unregistered
  <2>3. tEv \notin eventRegMask /\ CallUnderWay /\ after.ev = tEv
    BY <2>1 DEF Tables, TablesInv
  <2>4. TablesInv'
    BY <1>1, <2>1, <2>2, <2>3 DEF Tables, TablesInv, CallUnderWay, notify
  <2>5. CallInv'
    BY <1>1, <2>1, <2>2, <2>3 DEF Tables, CallInv, CallUnderWay, notify
  <2>6. QED
    BY <1>2, <2>4, <2>5 DEF Tables
<1>11. QED
  BY <1>3, <1>4, <1>5, <1>6, <1>7, <1>8, <1>9, <1>10 DEF PassThrough, SenderMove, TaskStep

\* The driver's registerEvent, for an event without a callback.
LEMMA RegisterTables ==
  ASSUME TypeOK, NotifyTypes, Tables, NEW e \in Event, registerEvent(e), callbacks[e] = "NULL",
         callbacks' \in [Event -> {"NULL", "single", "execMany"}], callbacks'[e] # "NULL",
         \A x \in Event \ {e} : callbacks'[x] = callbacks[x],
         UNCHANGED after
  PROVE  TablesInv' /\ CallInv'
<1>1. ChartEvents' = ChartEvents \cup {e}
  BY Registered
<1>2. tPc = "idle" /\ tPc' = "regClear" /\ tEv' = e /\ UNCHANGED eventRegMask
  BY DEF registerEvent, TaskAt, ctrl
<1>3. ~CallUnderWay /\ ~CallUnderWay'
  BY <1>2 DEF Tables, CallInv, CallUnderWay
<1>4. CallInv'
  BY <1>3 DEF CallInv
<1>5. ChartEvents \subseteq Event
  BY DEF TypeOK, ChartEvents
<1>6. TablesInv'
  BY <1>1, <1>2, <1>3, <1>5 DEF Tables, TablesInv
<1>7. QED
  BY <1>4, <1>6

\* The driver's unregisterEvent, for an event with a callback.
LEMMA UnregisterTables ==
  ASSUME TypeOK, NotifyTypes, Tables, NEW e \in Event, unregisterEvent(e), NEW ls,
         after' = [op |-> "callback", ev |-> e, listener |-> ls],
         e \notin SingleEvents => eventList[e] \subseteq ls,
         UNCHANGED <<callbacks, eventList>>
  PROVE  Tables'
<1>1. ChartEvents' = ChartEvents /\ e \in ChartEvents
  BY DEF unregisterEvent, ChartEvents
<1>2. tPc = "idle" /\ tPc' = "unregClear" /\ tEv' = e /\ eventRegMask' = eventRegMask \ {e}
  BY DEF unregisterEvent, TaskAt
<1>3. CallUnderWay' /\ after'.ev = e /\ after'.listener = ls /\ ~CallUnderWay
  BY <1>2 DEF Tables, CallInv, CallUnderWay
<1>4. CallInv'
  BY <1>2, <1>3 DEF CallInv
<1>5. ListenersInv'
  BY DEF Tables, ListenersInv
<1>6. TablesInv'
  BY <1>1, <1>2, <1>3 DEF Tables, TablesInv
<1>7. QED
  BY <1>4, <1>5, <1>6 DEF Tables

\* Calls that change a list of listeners and do not reach the driver.
LEMMA ListTables ==
  ASSUME NotifyTypes, Tables, TaskAt("idle"), UNCHANGED <<vars, callbacks, after>>, ListenersInv'
  PROVE  Tables'
<1>1. UNCHANGED <<regChart, eventRegMask, tPc, tEv>> /\ tPc = "idle"
  BY DEF vars, ctrl, task, TaskAt
<1>2. ChartEvents' = ChartEvents
  BY <1>1 DEF ChartEvents
<1>3. ~CallUnderWay
  BY <1>1 DEF Tables, CallInv
<1>4. CallInv'
  BY <1>3 DEF CallInv, CallUnderWay
<1>5. TablesInv'
  BY <1>1, <1>2 DEF Tables, TablesInv, CallUnderWay
<1>6. QED
  BY <1>4, <1>5 DEF Tables

LEMMA AfterDriverTables ==
  ASSUME TypeOK, NotifyTypes, Tables, AfterDriver
  PROVE  Tables'
<1>1. /\ UNCHANGED <<regChart, eventRegMask, tEv>> /\ tPc = "returned" /\ tPc' = "idle"
      /\ after' = Nothing
  BY DEF AfterDriver, Returned, TaskAt, Goto, ctrl
<1>2. ChartEvents' = ChartEvents
  BY <1>1 DEF ChartEvents
<1>3. ~CallUnderWay'
  BY <1>1 DEF CallUnderWay, Nothing
<1>4. CallInv'
  BY <1>3 DEF CallInv
<1>5. CASE ~CallUnderWay
  <2>1. UNCHANGED <<callbacks, eventList>>
    BY <1>5 DEF AfterDriver, CallUnderWay
  <2>2. TablesInv'
    BY <1>1, <1>2, <1>3, <1>5, <2>1 DEF Tables, TablesInv
  <2>3. ListenersInv'
    BY <2>1 DEF Tables, ListenersInv
  <2>4. QED
    BY <1>4, <2>2, <2>3 DEF Tables
<1>6. CASE CallUnderWay
  <2>1. after.ev \in Event
    BY DEF NotifyTypes, AfterType
  <2>2. /\ callbacks' = [callbacks EXCEPT ![after.ev] = "NULL"]
        /\ eventList' = [eventList EXCEPT ![after.ev] = @ \ after.listener]
    BY <1>6 DEF AfterDriver, CallUnderWay
  <2>3. /\ callbacks'[after.ev] = "NULL"
        /\ eventList'[after.ev] = eventList[after.ev] \ after.listener
        /\ \A e \in Event \ {after.ev} : callbacks'[e] = callbacks[e] /\ eventList'[e] = eventList[e]
    BY <2>1, <2>2 DEF NotifyTypes
  <2>4. /\ after.ev \notin ChartEvents
        /\ after.ev \notin SingleEvents => eventList[after.ev] \subseteq after.listener
    BY <1>1, <1>6 DEF Tables, CallInv
  <2>5. ChartEvents \subseteq Event
    BY DEF TypeOK, ChartEvents
  <2>6. TablesInv'
    BY <1>1, <1>2, <1>3, <2>3, <2>4, <2>5 DEF Tables, TablesInv
  <2>7. ListenersInv'
    <3>1. after.ev \notin ManyEvents => eventList[after.ev] = {}
      BY <2>1 DEF Tables, ListenersInv
    <3>2. ASSUME NEW e \in Event
          PROVE  /\ callbacks'[e] = "execMany" => eventList'[e] # {}
                 /\ e \notin SingleEvents =>
                      callbacks'[e] # "single" /\ (eventList'[e] # {} => callbacks'[e] = "execMany")
                 /\ e \notin ManyEvents => callbacks'[e] # "execMany" /\ eventList'[e] = {}
      <4>1. CASE e = after.ev
        BY <2>3, <2>4, <3>1, <4>1
      <4>2. CASE e # after.ev
        BY <2>3, <4>2 DEF Tables, ListenersInv
      <4>3. QED
        BY <4>1, <4>2
    <3>3. QED
      BY <3>2 DEF ListenersInv
  <2>8. QED
    BY <1>4, <2>6, <2>7 DEF Tables
<1>7. QED
  BY <1>5, <1>6

\* What ListenersInv says of one event.
ListenersOf(e) ==
  /\ callbacks[e] = "execMany" => eventList[e] # {}
  /\ e \notin SingleEvents =>
       callbacks[e] # "single" /\ (eventList[e] # {} => callbacks[e] = "execMany")
  /\ e \notin ManyEvents => callbacks[e] # "execMany" /\ eventList[e] = {}

LEMMA OneEvent ==
  ASSUME NotifyTypes, Tables, NEW e \in Event,
         \A x \in Event \ {e} : callbacks'[x] = callbacks[x] /\ eventList'[x] = eventList[x],
         ListenersOf(e)'
  PROVE  ListenersInv'
BY DEF Tables, ListenersInv, ListenersOf

LEMMA SingleTables ==
  ASSUME TypeOK, NotifyTypes, NotifyTypes', Tables, NEW e \in SingleEvents,
         Notify_registerEventSingle(e) \/ Notify_unregisterEventSingle(e)
  PROVE  Tables'
<1>1. e \in Event
  BY ONLY ApiAssumption, e \in SingleEvents
<1>2. CASE Notify_registerEventSingle(e)
  <2>1. /\ callbacks[e] = "NULL" /\ callbacks'[e] = "single" /\ registerEvent(e)
        /\ UNCHANGED <<eventList, after>>
        /\ \A x \in Event \ {e} : callbacks'[x] = callbacks[x]
    BY <1>1, <1>2 DEF Notify_registerEventSingle, NotifyTypes
  <2>2. callbacks' \in [Event -> {"NULL", "single", "execMany"}]
    BY DEF NotifyTypes
  <2>3. TablesInv' /\ CallInv'
    BY <1>1, <2>1, <2>2, RegisterTables
  <2>4. ListenersOf(e)'
    BY <1>1, <2>1 DEF ListenersOf, Tables, ListenersInv
  <2>5. ListenersInv'
    BY <1>1, <2>1, <2>4, OneEvent
  <2>6. QED
    BY <2>3, <2>5 DEF Tables
<1>3. CASE Notify_unregisterEventSingle(e)
  BY <1>1, <1>3, UnregisterTables DEF Notify_unregisterEventSingle
<1>4. QED
  BY <1>2, <1>3

LEMMA ManyRegisterTables ==
  ASSUME TypeOK, NotifyTypes, NotifyTypes', Tables, NEW e \in ManyEvents, NEW l \in Listener,
         Notify_registerEvent(e, l)
  PROVE  Tables'
<1>1. e \in Event
  BY ONLY ApiAssumption, e \in ManyEvents
<1>2. /\ eventList'[e] = eventList[e] \cup {l}
      /\ \A x \in Event \ {e} : eventList'[x] = eventList[x]
      /\ UNCHANGED after
  BY <1>1 DEF Notify_registerEvent, NotifyTypes
<1>3. CASE eventList[e] = {} /\ callbacks[e] = "NULL"
  <2>1. /\ callbacks'[e] = "execMany" /\ registerEvent(e)
        /\ \A x \in Event \ {e} : callbacks'[x] = callbacks[x]
    BY <1>1, <1>3 DEF Notify_registerEvent, NotifyTypes
  <2>2. callbacks' \in [Event -> {"NULL", "single", "execMany"}]
    BY DEF NotifyTypes
  <2>3. TablesInv' /\ CallInv'
    BY <1>1, <1>2, <1>3, <2>1, <2>2, RegisterTables
  <2>4. ListenersOf(e)'
    BY <1>2, <2>1 DEF ListenersOf
  <2>5. ListenersInv'
    BY <1>1, <1>2, <2>1, <2>4, OneEvent
  <2>6. QED
    BY <2>3, <2>5 DEF Tables
<1>4. CASE ~(eventList[e] = {} /\ callbacks[e] = "NULL")
  <2>1. TaskAt("idle") /\ UNCHANGED <<vars, callbacks>>
    BY <1>4 DEF Notify_registerEvent
  <2>2. ListenersOf(e)
    BY <1>1 DEF ListenersOf, Tables, ListenersInv
  <2>3. callbacks[e] \in {"NULL", "single", "execMany"}
    BY <1>1 DEF NotifyTypes
  <2>4. ListenersOf(e)'
    BY <1>2, <1>4, <2>1, <2>2, <2>3 DEF ListenersOf
  <2>5. ListenersInv'
    BY <1>1, <1>2, <2>1, <2>4, OneEvent
  <2>6. QED
    BY <1>2, <2>1, <2>5, ListTables
<1>5. QED
  BY <1>3, <1>4

LEMMA ManyUnregisterTables ==
  ASSUME TypeOK, NotifyTypes, NotifyTypes', Tables, NEW e \in ManyEvents, NEW l \in Listener,
         Notify_unregisterEvent(e, l)
  PROVE  Tables'
<1>1. e \in Event
  BY ONLY ApiAssumption, e \in ManyEvents
<1>2. CASE eventList[e] = {l} /\ callbacks[e] # "NULL"
  <2>1. /\ unregisterEvent(e) /\ UNCHANGED <<callbacks, eventList>>
        /\ after' = [op |-> "callback", ev |-> e, listener |-> {l}]
    BY <1>2 DEF Notify_unregisterEvent
  <2>2. eventList[e] \subseteq {l}
    BY <1>2
  <2>3. QED
    BY <1>1, <2>1, <2>2, UnregisterTables
<1>3. CASE ~(eventList[e] = {l} /\ callbacks[e] # "NULL")
  <2>1. /\ TaskAt("idle") /\ UNCHANGED <<vars, callbacks, after>> /\ l \in eventList[e]
        /\ eventList'[e] = eventList[e] \ {l}
        /\ \A x \in Event \ {e} : eventList'[x] = eventList[x]
    BY <1>1, <1>3 DEF Notify_unregisterEvent, NotifyTypes
  <2>2. ListenersOf(e)
    BY <1>1 DEF ListenersOf, Tables, ListenersInv
  <2>3. ListenersOf(e)'
    BY <1>3, <2>1, <2>2 DEF ListenersOf
  <2>4. ListenersInv'
    BY <1>1, <2>1, <2>3, OneEvent
  <2>5. QED
    BY <2>1, <2>4, ListTables
<1>4. QED
  BY <1>2, <1>3

LEMMA NextTables ==
  ASSUME TypeOK, ChartInOrder, LineInv, NotifyTypes, NotifyTypes', Tables, NotifyNext
  PROVE  Tables'
<1>1. CASE Notify_disable \/ Notify_restore
  <2>1. UNCHANGED <<regChart, eventRegMask, tPc, tEv, callbacks, eventList, after>>
    BY <1>1 DEF Notify_disable, Notify_restore, disable, enable, ctrl, task, vars
  <2>2. QED
    BY <2>1, Unseen DEF seen
<1>2. CASE Notify_detach
  <2>1. /\ UNCHANGED <<regChart, eventRegMask, tEv, notify>> /\ tPc = "idle" /\ tPc' = "unplug"
        /\ \A e \in Event : callbacks[e] = "NULL"
    BY <1>2 DEF Notify_detach, Instance_finalize, TaskAt, Goto
  <2>2. ChartEvents' = ChartEvents
    BY <2>1 DEF ChartEvents
  <2>3. ~CallUnderWay
    BY <2>1 DEF Tables, CallInv
  <2>4. TablesInv'
    BY <2>1, <2>2, <2>3 DEF Tables, TablesInv, CallUnderWay, notify
  <2>5. CallInv' /\ ListenersInv'
    BY <2>1, <2>3 DEF Tables, CallInv, ListenersInv, CallUnderWay, notify
  <2>6. QED
    BY <2>4, <2>5 DEF Tables
<1>3. ASSUME NEW e \in ManyEvents, UnregisterEventMiss(e)
      PROVE  Tables'
  <2>1. UNCHANGED <<regChart, eventRegMask, tPc, tEv, callbacks, eventList, after>>
    BY <1>3 DEF UnregisterEventMiss, ctrl, task, vars
  <2>2. QED
    BY <2>1, Unseen DEF seen
<1>4. QED
  BY <1>1, <1>2, <1>3, PassThroughTables, AfterDriverTables, SingleTables, ManyRegisterTables,
    ManyUnregisterTables DEF NotifyNext

-----------------------------------------------------------------------------
\* Notify's inductive invariant, on top of the driver's.
LEMMA NotifyHolds == NotifySpec => [](Inv /\ NotifyTypes /\ Tables)
<1>1. NotifyInit => Inv /\ NotifyTypes /\ Tables
  <2> SUFFICES ASSUME NotifyInit PROVE Inv /\ NotifyTypes /\ Tables
    OBVIOUS
  <2>1. Init
    BY DEF NotifyInit
  <2>2. 0 \in Event
    BY ONLY EventAssumption DEF Event
  <2>3. Nothing \in AfterType
    BY ONLY <2>2 DEF Nothing, AfterType
  <2>4. 0 \in 0..MaxNesting /\ 0 \in 0..MaxMisses
    BY ONLY ApiAssumption
  <2>5. NotifyTypes
    BY <2>3, <2>4 DEF NotifyInit, NotifyTypes
  <2>6. ChartEvents = {} /\ eventRegMask = {} /\ tPc = "detached"
    BY <2>1 DEF Init, ChartEvents
  <2>7. ~CallUnderWay
    BY DEF NotifyInit, CallUnderWay, Nothing
  <2>8. Tables
    BY <2>6, <2>7 DEF NotifyInit, Tables, TablesInv, CallInv, ListenersInv
  <2>9. QED
    BY <2>1, <2>5, <2>8, InitInv
<1>2. Inv /\ NotifyTypes /\ Tables /\ [NotifyNext]_allVars => (Inv /\ NotifyTypes /\ Tables)'
  <2> SUFFICES ASSUME Inv, NotifyTypes, Tables, [NotifyNext]_allVars
               PROVE  (Inv /\ NotifyTypes /\ Tables)'
    OBVIOUS
  <2>1. Inv'
    BY DriverSteps, NextInv
  <2>2. TypeOK /\ ChartInOrder /\ LineInv
    BY DEF Inv, IInv
  <2>3. CASE NotifyNext
    BY <2>1, <2>2, <2>3, NotifyTypeStep, NextTables
  <2>4. CASE UNCHANGED allVars
    <3>1. UNCHANGED <<regChart, eventRegMask, tPc, tEv, notify>>
      BY <2>4 DEF allVars, vars, ctrl, task
    <3>2. Tables'
      BY <3>1, Unseen DEF seen, notify
    <3>3. QED
      BY <2>1, <3>1, <3>2 DEF NotifyTypes, notify
  <2>5. QED
    BY <2>3, <2>4
<1>3. QED
  BY <1>1, <1>2, PTL DEF NotifySpec

\* Notify_registerEvent and Notify_unregisterEvent, with both pairs of functions on one
\* event: callbacks, listeners and the driver's registrations agree between the calls.
THEOREM NotifyInvHolds == NotifySpec => []NotifyInv
<1>1. Inv /\ NotifyTypes /\ Tables => NotifyInv
  <2> SUFFICES ASSUME Inv, NotifyTypes, Tables PROVE NotifyInv
    OBVIOUS
  <2>1. TypeOK /\ ChartInOrder
    BY DEF Inv, IInv
  <2>2. NotifyTypeOK
    BY <2>1 DEF NotifyTypes, NotifyTypeOK, AfterType
  <2>3. QED
    BY <2>1, <2>2, Agree DEF NotifyInv, Tables
<1>2. QED
  BY <1>1, NotifyHolds, PTL

\* Notify_exec in NotifyDriverShm_isr: the event has a callback, and
\* Notify_execMany has a listener to call.
THEOREM IsrFindsCallbackHolds == NotifySpec => []IsrFindsCallback
<1>1. Inv /\ NotifyTypes /\ Tables => IsrFindsCallback
  <2> SUFFICES ASSUME Inv, NotifyTypes, Tables, isrPc = "exec"
               PROVE  LET e == regChart[isrI] IN
                      callbacks[e] # "NULL" /\ (callbacks[e] = "execMany" => eventList[e] # {})
    BY DEF IsrFindsCallback
  <2>1. isrI \in DOMAIN regChart /\ regChart \in Seq(Event)
    BY DEF Inv, IInv, TypeOK, IsrInv
  <2>2. regChart[isrI] \in ChartEvents /\ regChart[isrI] \in Event
    BY <2>1, Entries
  <2>3. QED
    BY <2>2 DEF Tables, TablesInv, ListenersInv
<1>2. QED
  BY <1>1, NotifyHolds, PTL

\* sendEvent of Notify's driver: under Notify, too, no reliable event is lost or out of order.
THEOREM DriverInvHolds == NotifySpec => []Inv
BY DriverHolds
=============================================================================
