----------------------- MODULE NameServerRemoteNotify -----------------------
(***************************************************************************)
(* packages/ti/sdo/ipc/nsremote/NameServerRemoteNotify.c: NameServer_get   *)
(* of a name that is not in the local table asks the other processor.  For *)
(* each direction there is one message in shared memory, which holds the   *)
(* request and then the answer, and the Notify events that announce them.  *)
(* A semaphore keeps the threads of a processor apart, another one waits   *)
(* for the answer, with a timeout.                                         *)
(*                                                                         *)
(* Events are sent with waitClear and for ever polling: the model of       *)
(* NotifyDriverShm shows what this makes of an event, a place for one      *)
(* payload whose sender waits until it is free.  Two software interrupts   *)
(* of a processor do the rest; they keep its threads from running.         *)
(***************************************************************************)
EXTENDS NameServer

CONSTANTS
  Getter,        \* threads that look names up
  MaxTimeouts    \* bound: timeouts of each processor; 0 for BIOS_WAIT_FOREVER

ASSUME TimeoutAssumption ==
  /\ MaxTimeouts \in [Proc -> Nat]
  /\ \E p, q \in Proc : p # q /\ Proc = {p, q}

VARIABLES
  attached,      \* processors that have created their object
  msg,           \* shared: msg[p] is the message with the requests of p
  event,         \* external: event[p] is the payload of p's pending event
  postedRequest, \* external: is swiRequest of a processor posted?
  postedResponse,\* external: ... and swiResponse?
  swiPc,         \* where the swi of a processor is
  swiValue,      \* what swiFxnRequest has found
  semMultiBlock, \* external: counts of the two semaphores
  semRemoteWait,
  timedOut,      \* history: how many gets of a processor have timed out
  window         \* history: the answers that a waiting get may truthfully have

remote == <<attached, msg, event>>
swi == <<postedRequest, postedResponse, swiPc, swiValue>>
sems == <<semMultiBlock, semRemoteWait>>
vars == <<table, call, remote, swi, sems, timedOut, window>>

Other(p) == CHOOSE q \in Proc : q # p

NoMessage == [requestStatus |-> "FALSE", name |-> NULL, value |-> NULL]

Init ==
  /\ TableInit
  /\ attached = {}
  /\ msg = [p \in Proc |-> NoMessage]
  /\ event = [p \in Proc |-> "none"]
  /\ postedRequest = [p \in Proc |-> "no"]
  /\ postedResponse = [p \in Proc |-> "no"]
  /\ swiPc = [p \in Proc |-> "idle"]
  /\ swiValue = [p \in Proc |-> NULL]
  /\ semMultiBlock = [p \in Proc |-> 1]
  /\ semRemoteWait = [p \in Proc |-> 0]
  /\ timedOut = [p \in Proc |-> 0]
  /\ window = [t \in Thread |-> {}]

\* Threads run while no swi of their processor does.
SwiIdle(p) ==
  swiPc[p] = "idle" /\ postedRequest[p] = "no" /\ postedResponse[p] = "no"
At(t, label) == pc[t] = label /\ SwiIdle(procOf[t])

-----------------------------------------------------------------------------
\* Instance_init, when Ipc attaches the processor: its own message is reset,
\* the event registered and the driver made known to NameServer.
Instance_init(p) ==
  /\ p \notin attached
  /\ attached' = attached \cup {p}
  /\ msg' = [msg EXCEPT ![p] = NoMessage]
  /\ UNCHANGED <<table, call, event, swi, sems, timedOut>>

\* NameServer_get: the local table first, then the remote driver if there is
\* one.
get(t, n) ==
  LET p == procOf[t] IN
  /\ t \in Getter
  /\ At(t, "idle")
  /\ getLocal(p, n) = NULL /\ p \in attached
  /\ pc' = [pc EXCEPT ![t] = "pendMulti"]
  /\ name' = [name EXCEPT ![t] = n]
  /\ UNCHANGED <<table, value, hand, remote, swi, sems, timedOut>>

\* "prevent multiple threads from entering"
PendMulti(t) ==
  LET p == procOf[t] IN
  /\ At(t, "pendMulti")
  /\ semMultiBlock[p] > 0
  /\ semMultiBlock' = [semMultiBlock EXCEPT ![p] = @ - 1]
  /\ Goto(t, "write")
  /\ UNCHANGED <<table, remote, swi, semRemoteWait, timedOut>>

\* The request is written.  The value of an earlier answer stays.
WriteRequest(t) ==
  LET p == procOf[t] IN
  /\ At(t, "write")
  /\ msg' = [msg EXCEPT ![p].requestStatus = "FALSE", ![p].name = name[t]]
  /\ Goto(t, "send")
  /\ UNCHANGED <<table, attached, event, swi, sems, timedOut>>

\* Notify_sendEvent: it fails if the other processor is not attached, and
\* waits until the last event has been taken.
SendRequest(t) ==
  LET p == procOf[t] IN
  /\ At(t, "send")
  /\ \/ /\ Other(p) \notin attached
        /\ semMultiBlock' = [semMultiBlock EXCEPT ![p] = @ + 1]
        /\ Return(t)
        /\ UNCHANGED event
     \/ /\ Other(p) \in attached
        /\ event[p] = "none"
        /\ event' = [event EXCEPT ![p] = "Request"]
        /\ Goto(t, "wait")
        /\ UNCHANGED semMultiBlock
  /\ UNCHANGED <<table, attached, msg, swi, semRemoteWait, timedOut>>

\* Semaphore_pend of semRemoteWait: the response has come ...
PendRemote(t) ==
  LET p == procOf[t] IN
  /\ At(t, "wait")
  /\ semRemoteWait[p] > 0
  /\ semRemoteWait' = [semRemoteWait EXCEPT ![p] = @ - 1]
  /\ Goto(t, "read")
  /\ UNCHANGED <<table, remote, swi, semMultiBlock, timedOut>>

\* ... or it has not: E_TIMEOUT.
Timeout(t) ==
  LET p == procOf[t] IN
  /\ timedOut[p] < MaxTimeouts[p]
  /\ At(t, "wait")
  /\ semRemoteWait[p] = 0
  /\ semMultiBlock' = [semMultiBlock EXCEPT ![p] = @ + 1]
  /\ timedOut' = [timedOut EXCEPT ![p] = @ + 1]
  /\ Return(t)
  /\ UNCHANGED <<table, remote, swi, semRemoteWait>>

\* What a thread that was woken up reads: a value, or NULL for E_NOTFOUND.
Answer(p) == IF msg[p].requestStatus = "TRUE" THEN msg[p].value ELSE NULL

ReadAnswer(t) ==
  LET p == procOf[t] IN
  /\ At(t, "read")
  /\ semMultiBlock' = [semMultiBlock EXCEPT ![p] = @ + 1]
  /\ Return(t)
  /\ UNCHANGED <<table, remote, swi, semRemoteWait, timedOut>>

-----------------------------------------------------------------------------
\* The Notify isr of p takes the event of the other processor: cbFxn.  A swi
\* that is already posted is not posted twice.
cbFxn(p) ==
  LET q == Other(p) IN
  /\ event[q] # "none"
  /\ event' = [event EXCEPT ![q] = "none"]
  /\ \/ /\ event[q] = "Request"
        /\ postedRequest' = [postedRequest EXCEPT ![p] = "yes"]
        /\ UNCHANGED postedResponse
     \/ /\ event[q] = "Response"
        /\ postedResponse' = [postedResponse EXCEPT ![p] = "yes"]
        /\ UNCHANGED postedRequest
  /\ UNCHANGED <<table, call, attached, msg, swiPc, swiValue, sems, timedOut>>

\* swiFxnRequest: the name in the message is looked up in the local table.
swiFxnRequest(p) ==
  /\ swiPc[p] = "idle" /\ postedRequest[p] = "yes"
  /\ postedRequest' = [postedRequest EXCEPT ![p] = "no"]
  /\ swiValue' = [swiValue EXCEPT ![p] = getLocal(p, msg[Other(p)].name)]
  /\ swiPc' = [swiPc EXCEPT ![p] = "answer"]
  /\ UNCHANGED <<table, call, remote, postedResponse, sems, timedOut>>

\* Mutant of SwiAnswer: requestStatus is set also if the name is not found.
SwiAnswerAlways(p) ==
  LET q == Other(p) IN
  /\ swiPc[p] = "answer"
  /\ msg' = [msg EXCEPT ![q].requestStatus = "TRUE",
               ![q].value = IF swiValue[p] = NULL THEN @ ELSE swiValue[p]]
  /\ swiPc' = [swiPc EXCEPT ![p] = "send"]
  /\ UNCHANGED <<table, call, attached, event, postedRequest, postedResponse,
                 swiValue, sems, timedOut>>

\* "If an entry was found, set requestStatus to TRUE"
SwiAnswer(p) ==
  LET q == Other(p) IN
  /\ swiPc[p] = "answer"
  /\ msg' = IF swiValue[p] = NULL THEN msg
            ELSE [msg EXCEPT ![q].requestStatus = "TRUE", ![q].value = swiValue[p]]
  /\ swiPc' = [swiPc EXCEPT ![p] = "send"]
  /\ UNCHANGED <<table, call, attached, event, postedRequest, postedResponse,
                 swiValue, sems, timedOut>>

\* Mutant of SwiSend: the event is sent without waitClear and gets lost if one
\* is pending.
SwiSendNoWait(p) ==
  /\ swiPc[p] = "send"
  /\ event' = IF event[p] = "none" THEN [event EXCEPT ![p] = "Response"] ELSE event
  /\ swiPc' = [swiPc EXCEPT ![p] = "idle"]
  /\ swiValue' = [swiValue EXCEPT ![p] = NULL]
  /\ UNCHANGED <<table, call, attached, msg, postedRequest, postedResponse, sems,
                 timedOut>>

\* "must wait to prevent dropped events, even though this is a swi"
SwiSend(p) ==
  /\ swiPc[p] = "send"
  /\ event[p] = "none"
  /\ event' = [event EXCEPT ![p] = "Response"]
  /\ swiPc' = [swiPc EXCEPT ![p] = "idle"]
  /\ swiValue' = [swiValue EXCEPT ![p] = NULL]
  /\ UNCHANGED <<table, call, attached, msg, postedRequest, postedResponse, sems,
                 timedOut>>

\* swiFxnResponse: "post the semaphore to unblock waiting task".
swiFxnResponse(p) ==
  /\ swiPc[p] = "idle" /\ postedResponse[p] = "yes"
  /\ postedResponse' = [postedResponse EXCEPT ![p] = "no"]
  /\ semRemoteWait' = [semRemoteWait EXCEPT ![p] = @ + 1]
  /\ UNCHANGED <<table, call, remote, postedRequest, swiPc, swiValue,
                 semMultiBlock, timedOut>>

-----------------------------------------------------------------------------
\* The history variable: from the request on, a get collects what the remote
\* table has for its name.
Asking == {"send", "wait", "read"}
Observe ==
  window' = [t \in Thread |->
    IF pc'[t] \notin Asking THEN {}
    ELSE (IF pc[t] \in Asking THEN window[t] ELSE {})
           \cup {getLocal(Other(procOf[t]), name[t])'}]

\* The operations of the local table.
Local(t) ==
  /\ SwiIdle(procOf[t])
  /\ TableStep(t) \/ TableCall(t)
  /\ UNCHANGED <<remote, swi, sems, timedOut>>

GetStep(t) ==
  WriteRequest(t) \/ SendRequest(t) \/ PendRemote(t) \/ ReadAnswer(t)

SwiStep(p) ==
  swiFxnRequest(p) \/ SwiAnswer(p) \/ SwiSend(p) \/ swiFxnResponse(p)

Next ==
  /\ \/ \E t \in Thread :
          Local(t) \/ PendMulti(t) \/ GetStep(t) \/ Timeout(t) \/ \E n \in Name : get(t, n)
     \/ \E p \in Proc : Instance_init(p) \/ cbFxn(p) \/ SwiStep(p)
  /\ Observe

Spec == Init /\ [][Next]_vars

-----------------------------------------------------------------------------
TypeOK ==
  /\ TableTypeOK
  /\ pc \in [Thread -> {"idle", "addGet", "addPut", "removePut", "pendMulti", "write",
                        "send", "wait", "read"}]
  /\ attached \subseteq Proc
  /\ msg \in [Proc -> [requestStatus : {"FALSE", "TRUE"}, name : Name \cup {NULL},
                       value : Value \cup {NULL}]]
  /\ event \in [Proc -> {"none", "Request", "Response"}]
  /\ postedRequest \in [Proc -> {"no", "yes"}]
  /\ postedResponse \in [Proc -> {"no", "yes"}]
  /\ swiPc \in [Proc -> {"idle", "answer", "send"}]
  /\ swiValue \in [Proc -> Value \cup {NULL}]
  /\ semMultiBlock \in [Proc -> 0..1]
  /\ semRemoteWait \in [Proc -> Nat]
  /\ timedOut \in [Proc -> Nat] /\ \A p \in Proc : timedOut[p] <= MaxTimeouts[p]

\* A get that is answered tells the truth: at some moment between its request
\* and its answer the table of the other processor had that value for the
\* name, or did not have the name.  It holds until a get of the processor
\* times out; from then on an answer may belong to an earlier request.
AnswerInWindow ==
  \A t \in Thread :
    pc[t] = "read" /\ timedOut[procOf[t]] = 0 => Answer(procOf[t]) \in window[t]

\* The same without the exception: what NameServer_get promises.
AnswerAlwaysInWindow ==
  \A t \in Thread : pc[t] = "read" => Answer(procOf[t]) \in window[t]

\* The ways of an answer to the threads of p, and those on which one is.
Reply(p, x) ==
  LET q == Other(p) IN
  \/ x = "request" /\ event[p] = "Request"
  \/ x = "swiRequest" /\ postedRequest[q] = "yes"
  \/ x = "swi" /\ swiPc[q] # "idle"
  \/ x = "response" /\ event[q] = "Response"
  \/ x = "swiResponse" /\ postedResponse[p] = "yes"
  \/ x = "sem" /\ semRemoteWait[p] > 0

UnderWay(p) ==
  {x \in {"request", "swiRequest", "swi", "response", "swiResponse", "sem"} : Reply(p, x)}

\* A thread that waits for an answer has one coming: the request, its swi, the
\* response or the count of the semaphore; also after timeouts, when a request
\* may meet the swi of an earlier one.  At most one answer is under way as
\* long as no get has timed out, so nobody is woken for another one's request.
ReplyUnderWay ==
  \A p \in Proc :
    /\ (\E t \in Thread : procOf[t] = p /\ pc[t] = "wait") => UnderWay(p) # {}
    /\ timedOut[p] = 0 => Cardinality(UnderWay(p)) <= 1 /\ semRemoteWait[p] <= 1

\* The inductive invariant.  One thread of a processor at most is between the
\* two operations on semMultiBlock, and none before the processor is attached.
Busy == {"write", "send", "wait", "read"}
BusyOn(p) == {t \in Thread : procOf[t] = p /\ pc[t] \in Busy}

BlockInv ==
  \A p \in Proc :
    /\ semMultiBlock[p] = 0 <=> BusyOn(p) # {}
    /\ \A t, u \in BusyOn(p) : t = u
AttachedInv ==
  \A t \in Thread : pc[t] \in Busy \cup {"pendMulti"} => procOf[t] \in attached

\* Until a get has timed out, an answer is under way only to a thread that waits.
OneReply ==
  \A p \in Proc : timedOut[p] = 0 =>
    /\ \A x, y \in UnderWay(p) : x = y
    /\ semRemoteWait[p] <= 1
    /\ UnderWay(p) # {} => \E t \in Thread : procOf[t] = p /\ pc[t] = "wait"
SomeReply ==
  \A t \in Thread : pc[t] = "wait" => UnderWay(procOf[t]) # {}

\* What the asker may be told, and what its message and the other swi hold on
\* the way there.
WindowInv ==
  \A t \in Thread :
    pc[t] \in Asking => getLocal(Other(procOf[t]), name[t]) \in window[t]
Asked(p) ==
  Reply(p, "request") \/ Reply(p, "swiRequest") \/ swiPc[Other(p)] = "answer"
Answered(p) ==
  \/ swiPc[Other(p)] = "send" \/ Reply(p, "response")
  \/ Reply(p, "swiResponse") \/ Reply(p, "sem")

MessageInv ==
  \A t \in Thread :
    LET p == procOf[t] IN
    pc[t] \in Asking /\ timedOut[p] = 0 =>
      /\ pc[t] \in {"send", "wait"} => msg[p].name = name[t]
      /\ pc[t] = "send" \/ Asked(p) => msg[p].requestStatus = "FALSE"
      /\ swiPc[Other(p)] = "answer" => swiValue[Other(p)] \in window[t]
      /\ pc[t] = "read" \/ Answered(p) => Answer(p) \in window[t]

IInv ==
  /\ TypeOK /\ TableInv /\ BlockInv /\ AttachedInv
  /\ OneReply /\ SomeReply /\ WindowInv /\ MessageInv

\* Types, the table's entries accounted for after every add and remove, and
\* the inductive invariant behind the other two properties.
Inv == EntriesAccounted /\ IInv
=============================================================================
