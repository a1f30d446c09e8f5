------------------------------- MODULE Notify -------------------------------
(***************************************************************************)
(* packages/ti/sdo/ipc/Notify.c on top of NotifyDriverShm: the callbacks   *)
(* of each event, the list of listeners behind Notify_execMany, and the    *)
(* nesting of Notify_disable, for one remote processor and one line.       *)
(*                                                                         *)
(* The receiver's task calls Notify instead of the driver; what Notify     *)
(* does after a driver operation has returned happens at tPc = "returned". *)
(* The module gate (a GateSwi) keeps the calls of other threads out, so    *)
(* one task stands for all; gate counts the enters that no leave matched.  *)
(***************************************************************************)
EXTENDS NotifyDriverShm, FiniteSets

CONSTANTS
  Listener,     \* pairs of a callback function and its argument
  SingleEvents, \* events registered with Notify_registerEventSingle
  ManyEvents,   \* events registered with Notify_registerEvent
  MaxNesting,   \* bound: nested calls of Notify_disable
  MaxMisses     \* bound: calls of Notify_unregisterEvent without a listener

ASSUME ApiAssumption ==
  /\ SingleEvents \subseteq Event /\ ManyEvents \subseteq Event
  /\ MaxNesting \in Nat /\ MaxMisses \in Nat

VARIABLES
  callbacks,    \* obj->callbacks[e]: "NULL", the user's "single" or "execMany"
  eventList,    \* obj->eventList[e]: the listeners of execMany
  nesting,      \* obj->nesting
  gate,         \* external: enters of the module gate without a leave
  after,        \* what is left to do once the driver returns
  asserts       \* the assertions of Notify.c that have failed

notify == <<callbacks, eventList, nesting, gate, after, asserts>>
allVars == <<vars, notify>>

Nothing == [op |-> "none", ev |-> 0, listener |-> {}]

NotifyInit ==
  /\ Init
  /\ callbacks = [e \in Event |-> "NULL"]
  /\ eventList = [e \in Event |-> {}]
  /\ nesting = 0
  /\ gate = 0
  /\ after = Nothing
  /\ asserts = {}

-----------------------------------------------------------------------------
\* Notify_registerEventSingle; with a callback already there it returns
\* E_ALREADYEXISTS and changes nothing.
Notify_registerEventSingle(e) ==
  /\ callbacks[e] = "NULL"
  /\ callbacks' = [callbacks EXCEPT ![e] = "single"]
  /\ registerEvent(e)
  /\ UNCHANGED <<eventList, nesting, gate, after, asserts>>

\* Mutant of Notify_registerEvent: execMany is not stored as the callback.
Notify_registerEventAlone(e, l) ==
  /\ l \notin eventList[e]
  /\ eventList' = [eventList EXCEPT ![e] = @ \cup {l}]
  /\ \/ /\ eventList[e] = {} /\ callbacks[e] = "NULL"
        /\ registerEvent(e)
        /\ UNCHANGED <<callbacks, asserts>>
     \/ /\ eventList[e] # {}
        /\ TaskAt("idle")
        /\ UNCHANGED <<callbacks, asserts, vars>>
  /\ UNCHANGED <<nesting, gate, after>>

\* Notify_registerEvent: the listener is appended to the list; the first one
\* also registers Notify_execMany, which "should always succeed".
Notify_registerEvent(e, l) ==
  /\ l \notin eventList[e]
  /\ eventList' = [eventList EXCEPT ![e] = @ \cup {l}]
  /\ \/ /\ eventList[e] = {} /\ callbacks[e] = "NULL"
        /\ callbacks' = [callbacks EXCEPT ![e] = "execMany"]
        /\ registerEvent(e)
        /\ UNCHANGED asserts
     \/ /\ eventList[e] = {} /\ callbacks[e] # "NULL"
        /\ TaskAt("idle")
        /\ asserts' = asserts \cup {"registerEventSingle should always succeed"}
        /\ UNCHANGED <<callbacks, vars>>
     \/ /\ eventList[e] # {}
        /\ TaskAt("idle")
        /\ UNCHANGED <<callbacks, asserts, vars>>
  /\ UNCHANGED <<nesting, gate, after>>

\* Mutant of Notify_unregisterEventSingle: the driver is not told.
Notify_unregisterEventSingleAlone(e) ==
  /\ callbacks[e] # "NULL"
  /\ TaskAt("idle")
  /\ callbacks' = [callbacks EXCEPT ![e] = "NULL"]
  /\ UNCHANGED <<vars, eventList, nesting, gate, after, asserts>>

\* Notify_unregisterEventSingle: the driver first, the callback when it has
\* returned; without a callback E_FAIL and no change.
Notify_unregisterEventSingle(e) ==
  /\ callbacks[e] # "NULL"
  /\ unregisterEvent(e)
  /\ after' = [op |-> "callback", ev |-> e, listener |-> {}]
  /\ UNCHANGED <<callbacks, eventList, nesting, gate, asserts>>

\* Notify_unregisterEvent of a listener that is on the list: the last one
\* unregisters execMany through Notify_unregisterEventSingle and leaves the
\* list afterwards, another one leaves it at once.
Notify_unregisterEvent(e, l) ==
  /\ l \in eventList[e]
  /\ \/ /\ eventList[e] = {l} /\ callbacks[e] # "NULL"
        /\ unregisterEvent(e)
        /\ after' = [op |-> "callback", ev |-> e, listener |-> {l}]
        /\ UNCHANGED <<eventList, asserts>>
     \/ /\ eventList[e] = {l} /\ callbacks[e] = "NULL"
        /\ TaskAt("idle")
        /\ eventList' = [eventList EXCEPT ![e] = {}]
        /\ asserts' = asserts \cup {"unregisterEvent should always succeed"}
        /\ UNCHANGED <<after, vars>>
     \/ /\ eventList[e] # {l}
        /\ TaskAt("idle")
        /\ eventList' = [eventList EXCEPT ![e] = @ \ {l}]
        /\ UNCHANGED <<after, asserts, vars>>
  /\ UNCHANGED <<callbacks, nesting, gate>>

\* Notify_unregisterEvent on an empty list returns E_NOTFOUND before it gets
\* to Gate_leaveModule.
UnregisterEventMiss(e) ==
  /\ TaskAt("idle")
  /\ eventList[e] = {}
  /\ gate < MaxMisses
  /\ gate' = gate + 1
  /\ UNCHANGED <<vars, callbacks, eventList, nesting, after, asserts>>

\* Back from the driver: the rest of the call.
AfterDriver ==
  /\ Returned
  /\ callbacks' = IF after.op = "callback"
                  THEN [callbacks EXCEPT ![after.ev] = "NULL"] ELSE callbacks
  /\ eventList' = IF after.op = "callback"
                  THEN [eventList EXCEPT ![after.ev] = @ \ after.listener]
                  ELSE eventList
  /\ after' = Nothing
  /\ UNCHANGED <<nesting, gate, asserts>>

\* Notify_disable and Notify_restore: only the outermost pair reaches the
\* driver.
Notify_disable ==
  /\ nesting < MaxNesting
  /\ nesting' = nesting + 1
  /\ IF nesting = 0 THEN disable ELSE TaskAt("idle") /\ UNCHANGED vars
  /\ UNCHANGED <<callbacks, eventList, gate, after, asserts>>

Notify_restore ==
  /\ nesting > 0
  /\ nesting' = nesting - 1
  /\ IF nesting = 1 THEN enable ELSE TaskAt("idle") /\ UNCHANGED vars
  /\ UNCHANGED <<callbacks, eventList, gate, after, asserts>>

\* Notify_detach, once the application has unregistered its events and
\* restored the line: the Notify object goes, then the driver.
Notify_detach ==
  /\ nesting = 0
  /\ \A e \in Event : callbacks[e] = "NULL" /\ eventList[e] = {}
  /\ Instance_finalize
  /\ UNCHANGED notify

\* What passes through Notify without a change to its own state.
PassThrough ==
  /\ \/ \E s \in Sender : SenderStep(s) \/ \E e \in Event : sendEvent(s, e)
     \/ IsrEnter \/ IsrStep \/ TaskStep
     \/ Instance_init
     \/ \E e \in Event : disableEvent(e) \/ enableEvent(e)
  /\ UNCHANGED notify

NotifyNext ==
  \/ PassThrough \/ AfterDriver
  \/ Notify_disable \/ Notify_restore \/ Notify_detach
  \/ \E e \in SingleEvents :
       Notify_registerEventSingle(e) \/ Notify_unregisterEventSingle(e)
  \/ \E e \in ManyEvents :
       \/ UnregisterEventMiss(e)
       \/ \E l \in Listener : Notify_registerEvent(e, l) \/ Notify_unregisterEvent(e, l)

NotifySpec == NotifyInit /\ [][NotifyNext]_allVars

-----------------------------------------------------------------------------
NotifyTypeOK ==
  /\ TypeOK
  /\ callbacks \in [Event -> {"NULL", "single", "execMany"}]
  /\ eventList \in [Event -> SUBSET Listener]
  /\ nesting \in 0..MaxNesting
  /\ gate \in 0..MaxMisses
  /\ after \in [op : {"none", "callback"}, ev : Event, listener : SUBSET Listener]
  /\ asserts \subseteq {"registerEventSingle should always succeed",
                        "unregisterEvent should always succeed"}

\* The order in which Notify changes its state and the driver's ("Performing
\* step 3) last during a register is crucial"): whenever the isr calls
\* Notify_exec, the event has a callback, and execMany has listeners.
IsrFindsCallback ==
  isrPc = "exec" =>
    LET e == regChart[isrI] IN
    callbacks[e] # "NULL" /\ (callbacks[e] = "execMany" => eventList[e] # {})

\* Outside a call an event is registered with the driver exactly if it has a
\* callback, and execMany is the callback exactly of the events that have
\* listeners; calls of one of the two pairs of functions cannot pull the
\* three apart.
RegistrationAgrees ==
  tPc = "idle" => \A e \in Event :
    /\ callbacks[e] # "NULL" <=> e \in ChartEvents
    /\ e \in ChartEvents <=> e \in eventRegMask
    /\ e \notin SingleEvents \cap ManyEvents =>
         (callbacks[e] = "execMany" <=> eventList[e] # {})

\* Back from the driver, a call has the callback of its event to clear.
CallUnderWay == after.op = "callback"

\* In the middle of a call, too, an event of the chart has a callback; only the event
\* that the task is about may have a callback but no entry, or an entry that
\* the senders do not see.
TablesInv ==
  /\ \A e \in ChartEvents :
       /\ callbacks[e] # "NULL"
       /\ e \in eventRegMask \/ (tPc \in {"regClear", "regMask", "unregClear"} /\ tEv = e)
  /\ \A e \in Event :
       callbacks[e] # "NULL" => e \in ChartEvents \/ (CallUnderWay /\ after.ev = e)
  /\ eventRegMask \subseteq ChartEvents
  /\ tPc \in {"regClear", "regMask"} => tEv \in ChartEvents
  /\ tPc = "unregClear" => tEv \notin eventRegMask /\ CallUnderWay /\ after.ev = tEv
  /\ tPc \in {"unplug", "detached", "created"} => \A e \in Event : callbacks[e] = "NULL"

\* A call that will clear the callback is at its driver operation, and one of
\* Notify_unregisterEvent takes the last listener along.
CallInv ==
  CallUnderWay =>
    /\ tPc \in {"unregClear", "lineOn", "returned"}
    /\ tPc # "unregClear" => after.ev \notin ChartEvents
    /\ after.ev \notin SingleEvents => eventList[after.ev] \subseteq after.listener

\* Which pair of functions an event is used with decides what its callback may be.
ListenersInv ==
  \A e \in Event :
    /\ callbacks[e] = "execMany" => eventList[e] # {}
    /\ e \notin SingleEvents =>
         callbacks[e] # "single" /\ (eventList[e] # {} => callbacks[e] = "execMany")
    /\ e \notin ManyEvents => callbacks[e] # "execMany" /\ eventList[e] = {}

\* Types, the driver's chart in order, and Notify's tables in agreement with
\* it in the middle and at the end of every Notify_registerEvent and
\* Notify_unregisterEvent.
NotifyInv ==
  /\ NotifyTypeOK /\ ChartInOrder /\ RegistrationAgrees
  /\ TablesInv /\ CallInv /\ ListenersInv

\* Notify_exec: "Make sure the callback function is not null", also when
\* disableEvent calls it.
ExecFindsCallback == tPc = "disExec" => callbacks[tEv] # "NULL"

\* Notify_disable and Notify_restore: "Nesting value and enable state have to
\* be in sync".
NestingInSync ==
  tPc = "idle" => (nesting > 0 <=> line = "disabled")

\* A call that fails gives the module gate back ("Leave module gate & return").
GateGivenBack == tPc = "idle" => gate = 0

\* "Notify_registerEventSingle should always succeed" when Notify_registerEvent
\* calls it.
NoAssertFails == asserts = {}
=============================================================================
