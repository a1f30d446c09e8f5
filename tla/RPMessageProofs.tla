--------------------------- MODULE RPMessageProofs ---------------------------
(***************************************************************************)
(* Proofs about RPMessage over VirtQueue, for any number of threads,       *)
(* endpoints, buffers and messages: whoever gives the other side a buffer  *)
(* while the interrupts are switched off and on, that side will look.      *)
(***************************************************************************)
EXTENDS RPMessage, FiniteSetTheorems, TLAPS

USE DEF At, Goto, HostAt, HostGoto

\* The calls of a thread that touch no vring.
Quiet(t) == ThreadStep(t) \/ Lookup(t) \/ Put(t) \/ Post(t)

\* The steps of the swi that touch no vring.
Deliver == Lookup(Swi) \/ Put(Swi) \/ Post(Swi)

LEMMA Steps ==
  ASSUME Next
  PROVE  \/ \E t \in Thread : Quiet(t)
         \/ Deliver
         \/ \E a \in Agent : GetAvailBuf(a) \/ Look(a) \/ AddUsedBuf(a) \/ Kick(a)
         \/ VirtQueue_isr \/ RPMessage_swiFxn
         \/ /\ \/ \E e \in Endpoint : HostSend(e)
               \/ \E v \in Vring : HostKick(v)
               \/ HostStarved \/ HostRecheck \/ HostIsr \/ HostReceive
            /\ UNCHANGED <<endpointVars, agentVars, transportVars>>
BY Zenon DEF Next, SwiStep, AgentStep, HostStep, Quiet, Deliver, Agent

-----------------------------------------------------------------------------
\* What the calls of a thread leave alone.
LEMMA QuietFrame ==
  ASSUME AgentsOK, NEW t \in Thread, Quiet(t)
  PROVE  /\ UNCHANGED <<vqVars, token, usedBufAdded>>
         /\ posted' \in {posted, "yes"}
         /\ pc' \in [Agent -> Label]
         /\ pc[t] \notin {"kick", "addUsedBuf"} /\ pc'[t] # "addUsedBuf"
         /\ \A a \in Agent : a # t => pc'[a] = pc[a]
<1> USE RPMessageAssumption DEF AgentsOK, Agent, Label, endpointVars, agentVars,
      transportVars
<1>1. CASE \E e \in sends[t] : RPMessage_send(t, e)
  BY <1>1 DEF RPMessage_send
<1>2. CASE \E e \in Endpoint : RPMessage_create(t, e)
  BY <1>2 DEF RPMessage_create
<1>3. CASE \E e \in Endpoint : RPMessage_recv(t, e)
  BY <1>3 DEF RPMessage_recv
<1>4. CASE \E e \in Endpoint : RPMessage_unblock(t, e)
  BY <1>4 DEF RPMessage_unblock
<1>5. CASE \E e \in Endpoint : RPMessage_delete(t, e)
  BY <1>5 DEF RPMessage_delete
<1>6. CASE Starved(t)
  BY <1>6 DEF Starved
<1>7. CASE Pend(t)
  BY <1>7 DEF Pend
<1>8. CASE Timeout(t)
  BY <1>8 DEF Timeout, Finish
<1>9. CASE Woken(t)
  BY <1>9 DEF Woken, Finish
<1>10. CASE NullSlot(t)
  BY <1>10 DEF NullSlot, Finish
<1>11. CASE Lookup(t)
  BY <1>11 DEF Lookup, Finish, Sent
<1>12. CASE Put(t)
  BY <1>12 DEF Put
<1>13. CASE Post(t)
  BY <1>13 DEF Post, Finish, Sent
<1>14. QED
  BY <1>1, <1>2, <1>3, <1>4, <1>5, <1>6, <1>7, <1>8, <1>9, <1>10, <1>11, <1>12, <1>13
  DEF Quiet, ThreadStep

\* What the swi leaves alone while it delivers a message.
LEMMA DeliverFrame ==
  ASSUME AgentsOK, Deliver
  PROVE  /\ UNCHANGED <<vqVars, token, transportVars>>
         /\ pc' \in [Agent -> Label]
         /\ pc[Swi] \in {"lookup", "put", "post"} /\ pc'[Swi] \in {"put", "post", "addUsedBuf"}
         /\ \A a \in Agent : a # Swi => pc'[a] = pc[a]
<1> USE RPMessageAssumption DEF AgentsOK, Agent, Label
<1>1. CASE Lookup(Swi)
  BY <1>1 DEF Lookup, Finish, Sent
<1>2. CASE Put(Swi)
  BY <1>2 DEF Put
<1>3. CASE Post(Swi)
  BY <1>3 DEF Post, Finish, Sent
<1>4. QED
  BY <1>1, <1>2, <1>3 DEF Deliver

\* The two halves of VirtQueue_getAvailBuf, by what they find.
LEMMA LookFrame ==
  ASSUME AgentsOK, NEW a \in Agent, Look(a)
  PROVE  /\ UNCHANGED <<used, mailbox, hostKicked, hostVars, data, transportVars>>
         /\ \A b \in Agent : b # a => pc'[b] = pc[b] /\ token'[b] = token[b]
         /\ pc[a] = "look"
         /\ \/ /\ avail[VringOf(a)] # <<>>
               /\ avail' = [avail EXCEPT ![VringOf(a)] = Tail(@)]
               /\ noNotify' = noNotify \cup {VringOf(a)}
               /\ token' = [token EXCEPT ![a] = Head(avail[VringOf(a)])]
               /\ pc' = [pc EXCEPT ![a] = IF a = Swi THEN "lookup" ELSE "addUsedBuf"]
            \/ /\ avail[VringOf(a)] = <<>>
               /\ UNCHANGED <<avail, noNotify, token>>
               /\ pc' = [pc EXCEPT ![a] = IF a = Swi THEN SwiEnd ELSE "starved"]
<1>1. CASE Available(VringOf(a))
  BY <1>1 DEF Look, Available, TakeAvail, AgentsOK
<1>2. CASE ~Available(VringOf(a))
  BY <1>2 DEF Look, Available, AgentsOK
<1>3. QED
  BY <1>1, <1>2

LEMMA HeadTail ==
  ASSUME NEW S, NEW s \in Seq(S), s # <<>>
  PROVE  Head(s) \in S /\ Tail(s) \in Seq(S)
OBVIOUS

LEMMA Rings == VringOf(Swi) = "fromHost" /\ \A t \in Thread : VringOf(t) = "toHost"
BY RPMessageAssumption DEF VringOf

-----------------------------------------------------------------------------
\* The rings stay sequences of buffers, and who gives a buffer back has one.
LEMMA TypeStep ==
  ASSUME VringsOK, AgentsOK, Next
  PROVE  VringsOK' /\ AgentsOK'
<1> USE RPMessageAssumption DEF slaveVars, hostVars, vqVars, endpointVars, agentVars,
      transportVars
<1> /\ "fromHost" \in Vring /\ "toHost" \in Vring /\ Swi \in Agent
    /\ \A a \in Agent : VringOf(a) \in Vring
  BY DEF Vring, Agent, VringOf
<1>1. ASSUME NEW t \in Thread, Quiet(t)
      PROVE  VringsOK' /\ AgentsOK'
  BY <1>1, QuietFrame DEF VringsOK, AgentsOK, Agent
<1>2. ASSUME Deliver
      PROVE  VringsOK' /\ AgentsOK'
  BY <1>2, DeliverFrame DEF VringsOK, AgentsOK, Agent
<1>3. ASSUME NEW a \in Agent, GetAvailBuf(a)
      PROVE  VringsOK' /\ AgentsOK'
  BY <1>3 DEF GetAvailBuf, EnableNotify, VringsOK, AgentsOK, Label
<1>4. ASSUME NEW a \in Agent, Look(a)
      PROVE  VringsOK' /\ AgentsOK'
  <2> DEFINE v == VringOf(a)
  <2>1. CASE avail[v] # <<>>
    <3>1. Head(avail[v]) \in Buffer /\ Tail(avail[v]) \in Seq(Buffer)
      BY <2>1, HeadTail DEF VringsOK
    <3>2. VringsOK'
      <4>1. /\ UNCHANGED <<used, mailbox, hostKicked, hostVars>>
            /\ avail' = [avail EXCEPT ![v] = Tail(avail[v])] /\ noNotify' = noNotify \cup {v}
        BY <1>4, <2>1, LookFrame
      <4>2. QED
        BY ONLY VringsOK, <3>1, <4>1, v \in Vring DEF VringsOK, hostVars
    <3>3. AgentsOK'
      <4>1. /\ token' = [token EXCEPT ![a] = Head(avail[v])]
            /\ pc' = [pc EXCEPT ![a] = IF a = Swi THEN "lookup" ELSE "addUsedBuf"]
        BY <1>4, <2>1, LookFrame
      <4>2. QED
        BY <3>1, <4>1 DEF AgentsOK, Label
    <3>4. QED
      BY <3>2, <3>3
  <2>2. CASE avail[v] = <<>>
    <3>1. SwiEnd \in {"kick", "idle"}
      BY DEF SwiEnd
    <3>2. VringsOK'
      BY <1>4, <2>2, LookFrame DEF VringsOK
    <3>3. AgentsOK'
      BY <1>4, <2>2, <3>1, LookFrame DEF AgentsOK, Label
    <3>4. QED
      BY <3>2, <3>3
  <2>3. QED
    BY <2>1, <2>2
<1>5. ASSUME NEW a \in Agent, AddUsedBuf(a)
      PROVE  VringsOK' /\ AgentsOK'
  <2>1. token[a] \in Buffer
    BY <1>5 DEF AddUsedBuf, AgentsOK
  <2>2. VringsOK'
    BY <1>5, <2>1 DEF AddUsedBuf, VirtQueue_addUsedBuf, VringsOK
  <2>3. AgentsOK'
    BY <1>5 DEF AddUsedBuf, AgentsOK, Label
  <2>4. QED
    BY <2>2, <2>3
<1>6. ASSUME NEW a \in Agent, Kick(a)
      PROVE  VringsOK' /\ AgentsOK'
  BY <1>6 DEF Kick, VirtQueue_kick, VringsOK, AgentsOK, Label
<1>7. ASSUME VirtQueue_isr
      PROVE  VringsOK' /\ AgentsOK'
  BY <1>7 DEF VirtQueue_isr, VringsOK, AgentsOK
<1>8. ASSUME RPMessage_swiFxn
      PROVE  VringsOK' /\ AgentsOK'
  BY <1>8 DEF RPMessage_swiFxn, VringsOK, AgentsOK, Label
<1>9. ASSUME NEW e \in Endpoint, HostSend(e), UNCHANGED agentVars
      PROVE  VringsOK' /\ AgentsOK'
  <2>1. used["fromHost"] \in Seq(Buffer) /\ avail["fromHost"] \in Seq(Buffer)
    BY DEF VringsOK
  <2>2. PICK b \in Buffer :
          /\ \/ /\ hostHas' = [hostHas EXCEPT !["fromHost"] = @ \ {b}]
                /\ UNCHANGED used
             \/ /\ used["fromHost"] # <<>>
                /\ used' = [used EXCEPT !["fromHost"] = Tail(@)]
                /\ UNCHANGED hostHas
          /\ avail' = [avail EXCEPT !["fromHost"] = Append(@, b)]
    BY <1>9 DEF HostSend
  <2>3. used["fromHost"] # <<>> => Tail(used["fromHost"]) \in Seq(Buffer)
    BY <2>1, HeadTail
  <2>4. /\ host' = [host EXCEPT !["fromHost"] = "kick"]
        /\ UNCHANGED <<noNotify, noInterrupt, mailbox, hostKicked>>
    BY <1>9 DEF HostSend
  <2>5. VringsOK'
    <3>1. avail' \in [Vring -> Seq(Buffer)]
      BY <2>1, <2>2 DEF VringsOK
    <3>2. used' \in [Vring -> Seq(Buffer)] /\ hostHas' \in [Vring -> SUBSET Buffer]
      <4>1. CASE UNCHANGED hostHas /\ used["fromHost"] # <<>>
                   /\ used' = [used EXCEPT !["fromHost"] = Tail(@)]
        BY <2>3, <4>1 DEF VringsOK
      <4>2. CASE UNCHANGED used /\ hostHas' = [hostHas EXCEPT !["fromHost"] = @ \ {b}]
        BY <4>2 DEF VringsOK
      <4>3. QED
        BY <2>2, <4>1, <4>2
    <3>3. QED
      BY <2>4, <3>1, <3>2 DEF VringsOK
  <2>6. AgentsOK'
    BY <1>9 DEF AgentsOK
  <2>7. QED
    BY <2>5, <2>6
<1>10. ASSUME NEW v \in Vring, HostKick(v), UNCHANGED agentVars
       PROVE  VringsOK' /\ AgentsOK'
  <2>1. mailbox' \in Seq(Vring)
    <3>1. CASE v \in noNotify
      BY <1>10, <3>1 DEF HostKick, VringsOK
    <3>2. CASE v \notin noNotify
      <4>1. mailbox' = Append(mailbox, v)
        BY <1>10, <3>2 DEF HostKick
      <4>2. mailbox \in Seq(Vring)
        BY DEF VringsOK
      <4>3. QED
        BY <4>1, <4>2
    <3>3. QED
      BY <3>1, <3>2
  <2>2. host' = [host EXCEPT ![v] = "idle"] /\ UNCHANGED <<slaveVars, hostKicked, noInterrupt, hostHas>>
    BY <1>10 DEF HostKick
  <2>3. QED
    BY <1>10, <2>1, <2>2 DEF VringsOK, AgentsOK
<1>11. ASSUME HostStarved \/ HostRecheck \/ HostIsr, UNCHANGED agentVars
       PROVE  VringsOK' /\ AgentsOK'
  BY <1>11 DEF HostStarved, HostRecheck, HostIsr, VringsOK, AgentsOK
<1>12. ASSUME HostReceive, UNCHANGED agentVars
       PROVE  VringsOK' /\ AgentsOK'
  BY <1>12 DEF HostReceive, VringsOK, AgentsOK
<1>13. QED
  BY ONLY Steps, Next, <1>1, <1>2, <1>3, <1>4, <1>5, <1>6, <1>7, <1>8, <1>9, <1>10,
     <1>11, <1>12 DEF agentVars

-----------------------------------------------------------------------------
\* Where an interrupt about the messages of the host may be.
InMailbox == \E i \in DOMAIN mailbox : mailbox[i] = "fromHost"

LEMMA AppendIn ==
  ASSUME NEW S, NEW s \in Seq(S), NEW x \in S
  PROVE  /\ \E i \in DOMAIN Append(s, x) : Append(s, x)[i] = x
         /\ \A i \in DOMAIN s : i \in DOMAIN Append(s, x) /\ Append(s, x)[i] = s[i]
<1>1. Len(s) + 1 \in DOMAIN Append(s, x) /\ Append(s, x)[Len(s) + 1] = x
  OBVIOUS
<1>2. QED
  BY <1>1

LEMMA TailKeeps ==
  ASSUME NEW S, NEW s \in Seq(S), NEW i \in DOMAIN s, s[i] # Head(s)
  PROVE  \E j \in DOMAIN Tail(s) : Tail(s)[j] = s[i]
<1>1. i - 1 \in DOMAIN Tail(s) /\ Tail(s)[i - 1] = s[i]
  OBVIOUS
<1>2. QED
  BY <1>1

\* A message of the host will be looked at.
LEMMA SeenStep ==
  ASSUME VringsOK, AgentsOK, SilenceInv, MessagesSeen, Next
  PROVE  SilenceInv' /\ MessagesSeen'
<1> USE RPMessageAssumption, Rings DEF slaveVars, hostVars, vqVars, endpointVars, agentVars,
      transportVars, SilenceInv, MessagesSeen
<1> /\ "fromHost" \in Vring /\ "toHost" \in Vring /\ Swi \in Agent
    /\ \A t \in Thread : t \in Agent /\ t # Swi
  BY DEF Vring, Agent
<1>1. ASSUME NEW t \in Thread, Quiet(t)
      PROVE  SilenceInv' /\ MessagesSeen'
  BY <1>1, QuietFrame
<1>2. ASSUME Deliver
      PROVE  SilenceInv' /\ MessagesSeen'
  BY <1>2, DeliverFrame
<1>3. ASSUME NEW a \in Agent, GetAvailBuf(a)
      PROVE  SilenceInv' /\ MessagesSeen'
  <2>1. /\ noNotify' = noNotify \ {VringOf(a)} /\ pc' = [pc EXCEPT ![a] = "look"]
        /\ pc[a] = "getAvailBuf"
        /\ UNCHANGED <<avail, mailbox, host, posted>>
    BY <1>3 DEF GetAvailBuf, EnableNotify
  <2>2. CASE a = Swi
    BY <2>1, <2>2 DEF AgentsOK
  <2>3. CASE a # Swi
    BY <2>1, <2>3 DEF AgentsOK, Agent
  <2>4. QED
    BY <2>2, <2>3
<1>4. ASSUME NEW a \in Agent, Look(a)
      PROVE  SilenceInv' /\ MessagesSeen'
  <2>1. /\ UNCHANGED <<mailbox, host, posted>> /\ pc[a] = "look"
        /\ \A b \in Agent : b # a => pc'[b] = pc[b]
    BY <1>4, LookFrame
  <2>2. CASE a = Swi
    <3>1. "fromHost" \notin noNotify
      BY <2>1, <2>2
    <3>2. \/ pc'[Swi] = "lookup"
          \/ avail'["fromHost"] = <<>> /\ noNotify' = noNotify
      BY <1>4, <2>2, LookFrame DEF AgentsOK
    <3>3. QED
      BY <3>1, <3>2
  <2>3. CASE a # Swi
    <3>1. a \in Thread
      BY <2>3 DEF Agent
    <3>2. /\ \/ avail' = [avail EXCEPT !["toHost"] = Tail(avail["toHost"])]
             \/ avail' = avail
          /\ noNotify' \in {noNotify, noNotify \cup {"toHost"}}
      BY <1>4, <3>1, LookFrame
    <3>3. avail'["fromHost"] = avail["fromHost"]
      BY <3>2 DEF VringsOK
    <3>4. "fromHost" \in noNotify' <=> "fromHost" \in noNotify
      BY <3>2
    <3>5. pc'[Swi] = pc[Swi]
      BY <2>1, <2>3
    <3>6. QED
      BY <2>1, <3>3, <3>4, <3>5
  <2>4. QED
    BY <2>2, <2>3
<1>5. ASSUME NEW a \in Agent, AddUsedBuf(a)
      PROVE  SilenceInv' /\ MessagesSeen'
  <2>1. /\ pc' = [pc EXCEPT ![a] = IF a = Swi THEN "getAvailBuf" ELSE "kick"]
        /\ UNCHANGED <<avail, noNotify, mailbox, host, posted>>
    BY <1>5 DEF AddUsedBuf
  <2>2. a = Swi => pc'[Swi] = "getAvailBuf"
    BY <2>1 DEF AgentsOK
  <2>3. a # Swi => pc'[Swi] = pc[Swi]
    BY <2>1 DEF AgentsOK
  <2>4. QED
    BY <2>1, <2>2, <2>3
<1>6. ASSUME NEW a \in Agent, Kick(a)
      PROVE  SilenceInv' /\ MessagesSeen'
  <2>1. /\ pc[a] = "kick" /\ pc' = [pc EXCEPT ![a] = "idle"]
        /\ UNCHANGED <<avail, noNotify, mailbox, host, posted>>
    BY <1>6 DEF Kick
  <2>2. a # Swi => pc'[Swi] = pc[Swi]
    BY <2>1 DEF AgentsOK
  <2>3. a = Swi => pc[Swi] = "kick"
    BY <2>1
  <2>4. QED
    BY <2>1, <2>2, <2>3
<1>7. ASSUME VirtQueue_isr
      PROVE  SilenceInv' /\ MessagesSeen'
  <2>1. /\ mailbox # <<>> /\ mailbox' = Tail(mailbox)
        /\ Head(mailbox) = "fromHost" => posted' = "yes"
        /\ Head(mailbox) # "fromHost" => posted' = posted
        /\ UNCHANGED <<avail, noNotify, host, pc>>
    BY <1>7 DEF VirtQueue_isr
  <2>2. InMailbox /\ Head(mailbox) # "fromHost" =>
          \E i \in DOMAIN Tail(mailbox) : Tail(mailbox)[i] = "fromHost"
    <3>1. mailbox \in Seq(Vring)
      BY DEF VringsOK
    <3>2. SUFFICES ASSUME NEW i \in DOMAIN mailbox, mailbox[i] = "fromHost",
                          Head(mailbox) # "fromHost"
                   PROVE  \E j \in DOMAIN Tail(mailbox) : Tail(mailbox)[j] = mailbox[i]
      BY DEF InMailbox
    <3>3. mailbox[i] # Head(mailbox)
      BY <3>2
    <3>4. QED
      BY ONLY <3>1, <3>3, i \in DOMAIN mailbox, TailKeeps
  <2>3. Head(mailbox) # "fromHost" => (InMailbox => InMailbox')
    BY <2>1, <2>2 DEF InMailbox
  <2>4. QED
    BY <2>1, <2>3 DEF InMailbox
<1>8. ASSUME RPMessage_swiFxn
      PROVE  SilenceInv' /\ MessagesSeen'
  BY <1>8 DEF RPMessage_swiFxn, AgentsOK
<1>9. ASSUME NEW e \in Endpoint, HostSend(e), UNCHANGED agentVars, UNCHANGED posted
      PROVE  SilenceInv' /\ MessagesSeen'
  <2>1. /\ host' = [host EXCEPT !["fromHost"] = "kick"]
        /\ UNCHANGED <<noNotify, pc>>
    BY <1>9 DEF HostSend
  <2>2. host'["fromHost"] = "kick"
    BY <2>1 DEF VringsOK
  <2>3. QED
    BY <2>1, <2>2
<1>10. ASSUME NEW v \in Vring, HostKick(v), UNCHANGED agentVars, UNCHANGED posted
       PROVE  SilenceInv' /\ MessagesSeen'
  <2>1. host' = [host EXCEPT ![v] = "idle"] /\ UNCHANGED <<avail, noNotify, pc, posted>>
    BY <1>10 DEF HostKick
  <2>2. v # "fromHost" => host'["fromHost"] = host["fromHost"]
    BY <2>1 DEF VringsOK
  <2>3. /\ v = "fromHost" /\ v \notin noNotify => InMailbox'
        /\ InMailbox => InMailbox'
    <3>1. CASE v \in noNotify
      BY <1>10, <3>1 DEF HostKick, InMailbox
    <3>2. CASE v \notin noNotify
      <4>1. mailbox' = Append(mailbox, v)
        BY <1>10, <3>2 DEF HostKick
      <4>2. /\ \E i \in DOMAIN Append(mailbox, v) : Append(mailbox, v)[i] = v
            /\ \A i \in DOMAIN mailbox : /\ i \in DOMAIN Append(mailbox, v)
                                         /\ Append(mailbox, v)[i] = mailbox[i]
        <5>1. mailbox \in Seq(Vring) /\ v \in Vring
          BY <1>10 DEF VringsOK
        <5>2. QED
          BY ONLY <5>1, AppendIn
      <4>3. QED
        BY <4>1, <4>2 DEF InMailbox
    <3>3. QED
      BY <3>1, <3>2
  <2>4. QED
    BY <2>1, <2>2, <2>3 DEF InMailbox
<1>11. ASSUME HostStarved \/ HostRecheck \/ HostIsr, UNCHANGED agentVars, UNCHANGED posted
       PROVE  SilenceInv' /\ MessagesSeen'
  <2>1. /\ UNCHANGED <<avail, noNotify, mailbox, pc, posted>>
        /\ host["fromHost"] = "kick" => host' = host
    BY <1>11 DEF HostStarved, HostRecheck, HostIsr
  <2>2. QED
    BY <2>1
<1>12. ASSUME HostReceive, UNCHANGED agentVars, UNCHANGED posted
       PROVE  SilenceInv' /\ MessagesSeen'
  <2>1. /\ avail' = [avail EXCEPT !["toHost"] = @ \o used["toHost"]]
        /\ host' = [host EXCEPT !["toHost"] = "kick"]
        /\ UNCHANGED <<noNotify, mailbox, pc, posted>>
    BY <1>12 DEF HostReceive
  <2>2. avail'["fromHost"] = avail["fromHost"] /\ host'["fromHost"] = host["fromHost"]
    BY <2>1 DEF VringsOK
  <2>3. QED
    BY <2>1, <2>2
<1>13. QED
  BY ONLY Steps, Next, <1>1, <1>2, <1>3, <1>4, <1>5, <1>6, <1>7, <1>8, <1>9, <1>10,
     <1>11, <1>12 DEF agentVars, transportVars

-----------------------------------------------------------------------------
\* The host hears of the buffers that the slave gives back.
LEMMA ToldStep ==
  ASSUME VringsOK, AgentsOK, RemindInv, HostTold, Next
  PROVE  RemindInv' /\ HostTold'
<1> USE RPMessageAssumption, Rings DEF slaveVars, hostVars, vqVars, endpointVars, agentVars,
      transportVars, RemindInv, HostTold
<1> /\ "fromHost" \in Vring /\ "toHost" \in Vring /\ Swi \in Agent
    /\ \A t \in Thread : t \in Agent /\ t # Swi
  BY DEF Vring, Agent
<1>1. ASSUME NEW t \in Thread, Quiet(t)
      PROVE  RemindInv' /\ HostTold'
  <2>1. /\ UNCHANGED <<vqVars, usedBufAdded>> /\ pc'[Swi] = pc[Swi]
        /\ \A u \in Thread : pc[u] = "kick" => pc'[u] = "kick"
    BY <1>1, QuietFrame
  <2>2. QED
    BY <2>1
<1>2. ASSUME Deliver
      PROVE  RemindInv' /\ HostTold'
  <2>1. /\ UNCHANGED <<vqVars, usedBufAdded>> /\ pc[Swi] # "idle" /\ pc'[Swi] # "idle"
        /\ \A u \in Thread : pc'[u] = pc[u]
    BY <1>2, DeliverFrame
  <2>2. QED
    BY <2>1
<1>3. ASSUME NEW a \in Agent, GetAvailBuf(a)
      PROVE  RemindInv' /\ HostTold'
  <2>1. /\ pc[a] = "getAvailBuf" /\ pc' = [pc EXCEPT ![a] = "look"]
        /\ UNCHANGED <<used, noInterrupt, hostKicked, host, usedBufAdded>>
    BY <1>3 DEF GetAvailBuf
  <2>2. /\ pc[Swi] # "idle" => pc'[Swi] # "idle"
        /\ \A u \in Thread : pc[u] = "kick" => pc'[u] = "kick"
    BY <2>1 DEF AgentsOK
  <2>3. QED
    BY <2>1, <2>2
<1>4. ASSUME NEW a \in Agent, Look(a)
      PROVE  RemindInv' /\ HostTold'
  <2>1. /\ pc[a] = "look"
        /\ UNCHANGED <<used, noInterrupt, hostKicked, host, usedBufAdded>>
        /\ \A b \in Agent : b # a => pc'[b] = pc[b]
    BY <1>4, LookFrame
  <2>2. \A u \in Thread : pc[u] = "kick" => pc'[u] = "kick"
    BY <2>1
  <2>3. usedBufAdded = "yes" /\ pc[Swi] # "idle" => pc'[Swi] # "idle"
    BY <1>4, <2>1, LookFrame DEF AgentsOK, SwiEnd
  <2>4. QED
    BY <2>1, <2>2, <2>3
<1>5. ASSUME NEW a \in Agent, AddUsedBuf(a)
      PROVE  RemindInv' /\ HostTold'
  <2>1. /\ pc[a] = "addUsedBuf"
        /\ pc' = [pc EXCEPT ![a] = IF a = Swi THEN "getAvailBuf" ELSE "kick"]
        /\ used' = [used EXCEPT ![VringOf(a)] = Append(@, token[a])]
        /\ usedBufAdded' = IF a = Swi THEN "yes" ELSE usedBufAdded
        /\ UNCHANGED <<noInterrupt, hostKicked, host>>
    BY <1>5 DEF AddUsedBuf, VirtQueue_addUsedBuf
  <2>2. CASE a = Swi
    <3>1. /\ used'["toHost"] = used["toHost"]
          /\ pc'[Swi] = "getAvailBuf" /\ usedBufAdded' = "yes"
          /\ \A u \in Thread : pc'[u] = pc[u]
      BY <2>1, <2>2 DEF VringsOK, AgentsOK
    <3>2. QED
      BY <2>1, <3>1
  <2>3. CASE a # Swi
    <3>1. a \in Thread
      BY <2>3 DEF Agent
    <3>2. /\ used'["fromHost"] = used["fromHost"] /\ pc'[Swi] = pc[Swi]
          /\ pc'[a] = "kick" /\ usedBufAdded' = usedBufAdded
      BY <2>1, <2>3, <3>1 DEF VringsOK, AgentsOK
    <3>3. QED
      BY <2>1, <3>1, <3>2
  <2>4. QED
    BY <2>2, <2>3
<1>6. ASSUME NEW a \in Agent, Kick(a)
      PROVE  RemindInv' /\ HostTold'
  <2>1. /\ pc[a] = "kick" /\ pc' = [pc EXCEPT ![a] = "idle"]
        /\ hostKicked' = IF VringOf(a) \in noInterrupt THEN hostKicked
                         ELSE hostKicked \cup {VringOf(a)}
        /\ usedBufAdded' = IF a = Swi THEN "no" ELSE usedBufAdded
        /\ UNCHANGED <<used, noInterrupt, host>>
    BY <1>6 DEF Kick, VirtQueue_kick
  <2>2. CASE a = Swi
    <3>1. /\ hostKicked \subseteq hostKicked' /\ \A u \in Thread : pc'[u] = pc[u]
          /\ "fromHost" \notin noInterrupt => "fromHost" \in hostKicked'
      BY <2>1, <2>2 DEF AgentsOK
    <3>2. QED
      BY <2>1, <3>1
  <2>3. CASE a # Swi
    <3>1. a \in Thread
      BY <2>3 DEF Agent
    <3>2. "toHost" \in hostKicked' /\ hostKicked \subseteq hostKicked' /\ pc'[Swi] = pc[Swi]
      BY <2>1, <2>3, <3>1 DEF AgentsOK
    <3>3. QED
      BY <2>1, <3>2
  <2>4. QED
    BY <2>2, <2>3
<1>7. ASSUME VirtQueue_isr
      PROVE  RemindInv' /\ HostTold'
  <2>1. UNCHANGED <<used, noInterrupt, hostKicked, host, pc, usedBufAdded>>
    BY <1>7 DEF VirtQueue_isr
  <2>2. QED
    BY <2>1
<1>8. ASSUME RPMessage_swiFxn
      PROVE  RemindInv' /\ HostTold'
  <2>1. /\ pc[Swi] = "idle" /\ pc' = [pc EXCEPT ![Swi] = "getAvailBuf"]
        /\ UNCHANGED <<used, noInterrupt, hostKicked, host>>
    BY <1>8 DEF RPMessage_swiFxn
  <2>2. \A u \in Thread : pc'[u] = pc[u]
    BY <2>1 DEF AgentsOK
  <2>3. QED
    BY <2>1, <2>2
<1>9. ASSUME NEW e \in Endpoint, HostSend(e), UNCHANGED agentVars, UNCHANGED usedBufAdded
      PROVE  RemindInv' /\ HostTold'
  <2>1. /\ host' = [host EXCEPT !["fromHost"] = "kick"]
        /\ used' = used \/ used' = [used EXCEPT !["fromHost"] = Tail(@)]
        /\ UNCHANGED <<noInterrupt, hostKicked, pc>>
    BY <1>9 DEF HostSend
  <2>2. host'["fromHost"] = "kick" /\ used'["toHost"] = used["toHost"]
    BY <2>1 DEF VringsOK
  <2>3. QED
    BY <2>1, <2>2
<1>10. ASSUME NEW v \in Vring, HostKick(v), UNCHANGED agentVars, UNCHANGED usedBufAdded
       PROVE  RemindInv' /\ HostTold'
  <2>1. /\ host' = [host EXCEPT ![v] = "idle"]
        /\ UNCHANGED <<used, noInterrupt, hostKicked, pc, usedBufAdded>>
    BY <1>10 DEF HostKick
  <2>2. host'["fromHost"] \in {host["fromHost"], "idle"}
    BY <2>1 DEF VringsOK
  <2>3. QED
    BY <2>1, <2>2
<1>11. ASSUME HostStarved \/ HostRecheck \/ HostIsr, UNCHANGED agentVars,
              UNCHANGED usedBufAdded
       PROVE  RemindInv' /\ HostTold'
  <2>1. UNCHANGED <<used, pc, usedBufAdded>>
    BY <1>11 DEF HostStarved, HostRecheck, HostIsr
  <2>2. CASE HostStarved
    <3>1. /\ noInterrupt' = noInterrupt \ {"fromHost"} /\ hostKicked' = hostKicked
          /\ host' = [host EXCEPT !["fromHost"] = "recheck"]
      BY <2>2 DEF HostStarved
    <3>2. host'["fromHost"] = "recheck"
      BY <3>1 DEF VringsOK
    <3>3. QED
      BY <2>1, <3>1, <3>2
  <2>3. CASE HostRecheck
    <3>1. CASE used["fromHost"] = <<>>
      BY <2>1, <2>3, <3>1 DEF HostRecheck
    <3>2. CASE used["fromHost"] # <<>>
      <4>1. /\ noInterrupt' = noInterrupt \cup {"fromHost"} /\ hostKicked' = hostKicked
            /\ host' = [host EXCEPT !["fromHost"] = "idle"]
        BY <2>3, <3>2 DEF HostRecheck
      <4>2. host'["fromHost"] = "idle"
        BY <4>1 DEF VringsOK
      <4>3. QED
        BY <2>1, <4>1, <4>2
    <3>3. QED
      BY <3>1, <3>2
  <2>4. CASE HostIsr
    <3>1. /\ hostKicked' = hostKicked \ {"fromHost"} /\ noInterrupt' = noInterrupt
          /\ host' = IF host["fromHost"] = "wait" THEN [host EXCEPT !["fromHost"] = "recheck"]
                     ELSE host
      BY <2>4 DEF HostIsr
    <3>2. /\ host'["fromHost"] # "wait"
          /\ host'["fromHost"] \in {"recheck", "wait"} => host["fromHost"] \in {"recheck", "wait"}
      BY <3>1 DEF VringsOK
    <3>3. QED
      BY <2>1, <3>1, <3>2
  <2>5. QED
    BY <1>11, <2>2, <2>3, <2>4
<1>12. ASSUME HostReceive, UNCHANGED agentVars, UNCHANGED usedBufAdded
       PROVE  RemindInv' /\ HostTold'
  <2>1. /\ used' = [used EXCEPT !["toHost"] = <<>>]
        /\ host' = [host EXCEPT !["toHost"] = "kick"]
        /\ hostKicked' = hostKicked \ {"toHost"}
        /\ UNCHANGED <<noInterrupt, pc, usedBufAdded>>
    BY <1>12 DEF HostReceive
  <2>2. /\ used'["toHost"] = <<>> /\ used'["fromHost"] = used["fromHost"]
        /\ host'["fromHost"] = host["fromHost"]
    BY <2>1 DEF VringsOK
  <2>3. QED
    BY <2>1, <2>2
<1>13. QED
  BY ONLY Steps, Next, <1>1, <1>2, <1>3, <1>4, <1>5, <1>6, <1>7, <1>8, <1>9, <1>10,
     <1>11, <1>12 DEF agentVars, transportVars

-----------------------------------------------------------------------------
LEMMA InitIInv ==
  ASSUME Init
  PROVE  IInv
<1> USE RPMessageAssumption, VirtQueueAssumption DEF Init, VirtQueueInit, Agent, Vring
<1>1. VringsOK
  <2>1. [b \in Buffer |-> b] \in Seq(Buffer)
    BY DEF Buffer
  <2>2. avail \in [Vring -> Seq(Buffer)]
    BY <2>1
  <2>3. QED
    BY <2>2 DEF VringsOK
<1>2. AgentsOK
  BY DEF AgentsOK, Label
<1>3. SilenceInv /\ MessagesSeen
  BY DEF SilenceInv, MessagesSeen
<1>4. RemindInv /\ HostTold
  BY DEF RemindInv, HostTold
<1>5. QED
  BY <1>1, <1>2, <1>3, <1>4 DEF IInv

LEMMA NextIInv ==
  ASSUME IInv, [Next]_vars
  PROVE  IInv'
<1>1. CASE Next
  BY <1>1, TypeStep, SeenStep, ToldStep DEF IInv
<1>2. CASE UNCHANGED vars
  <2> USE <1>2 DEF IInv, vars, vqVars, slaveVars, hostVars, agentVars, transportVars
  <2>1. VringsOK' /\ AgentsOK'
    BY DEF VringsOK, AgentsOK
  <2>2. SilenceInv' /\ MessagesSeen'
    BY DEF SilenceInv, MessagesSeen
  <2>3. RemindInv' /\ HostTold'
    BY DEF RemindInv, HostTold
  <2>4. QED
    BY <2>1, <2>2, <2>3
<1>3. QED
  BY <1>1, <1>2

\* The inductive invariant holds in every reachable state: the rings hold buffers,
\* the slave silences the host only while it will look again, and both sides hear
\* of each other (VirtQueue_getAvailBuf, VirtQueue_kick, RPMessage_swiFxn).
THEOREM IInvHolds == Spec => []IInv
<1>1. Init => IInv
  BY InitIInv
<1>2. IInv /\ [Next]_vars => IInv'
  BY NextIInv
<1>3. QED
  BY <1>1, <1>2, PTL DEF Spec

\* A message that the host made available will be looked at, although the swi
\* switches the interrupts off while it works (VirtQueue_getAvailBuf, VirtQueue_isr,
\* RPMessage_swiFxn).
THEOREM MessagesSeenHolds == Spec => []MessagesSeen
<1>1. IInv => MessagesSeen
  BY DEF IInv
<1>2. QED
  BY <1>1, IInvHolds, PTL

\* The host hears of every message for it, and of emptied buffers when it waits
\* for some (VirtQueue_addUsedBuf, VirtQueue_kick, the end of RPMessage_swiFxn).
THEOREM HostToldHolds == Spec => []HostTold
<1>1. IInv => HostTold
  BY DEF IInv
<1>2. QED
  BY <1>1, IInvHolds, PTL

-----------------------------------------------------------------------------
\* Who has buffer b of vring v: the host, the ring of available or of used
\* buffers, or an agent of the slave.
InSeq(b, s) == \E i \in DOMAIN s : s[i] = b

Holds(kind, x, v, b) ==
  \/ kind = "host" /\ x = None /\ b \in hostHas[v]
  \/ kind = "avail" /\ x = None /\ InSeq(b, avail[v])
  \/ kind = "used" /\ x = None /\ InSeq(b, used[v])
  \/ kind = "agent" /\ x \in Agent /\ VringOf(x) = v /\ token[x] = b

HeldBy(v, b, kind, x) ==
  Holds(kind, x, v, b) /\ \A l, y : Holds(l, y, v, b) => l = kind /\ y = x

HeldOnce == \A v \in Vring : \A b \in Buffer : \E kind, x : HeldBy(v, b, kind, x)

NoRepeat(s) == \A i, j \in DOMAIN s : s[i] = s[j] => i = j

RingsInv == \A v \in Vring : NoRepeat(avail[v]) /\ NoRepeat(used[v])

BufferInv == HeldOnce /\ RingsInv /\ HandsInv

\* What the operations on a ring do to what it holds.
LEMMA ConcatHolds ==
  ASSUME NEW S, NEW s \in Seq(S), NEW r \in Seq(S)
  PROVE  /\ \A m : InSeq(m, s \o r) <=> InSeq(m, s) \/ InSeq(m, r)
         /\ (NoRepeat(s) /\ NoRepeat(r) /\ \A m : ~(InSeq(m, s) /\ InSeq(m, r))) => NoRepeat(s \o r)
<1> DEFINE c == s \o r
<1>1. /\ Len(s) \in Nat /\ Len(r) \in Nat
      /\ DOMAIN s = 1 .. Len(s) /\ DOMAIN r = 1 .. Len(r) /\ DOMAIN c = 1 .. Len(s) + Len(r)
      /\ \A i \in 1 .. Len(s) : c[i] = s[i]
      /\ \A i \in 1 .. Len(s) + Len(r) : i > Len(s) => c[i] = r[i - Len(s)]
  OBVIOUS
<1> HIDE DEF c
<1>2. \A i \in DOMAIN c : (i \in DOMAIN s /\ c[i] = s[i])
                            \/ (i - Len(s) \in DOMAIN r /\ c[i] = r[i - Len(s)])
  BY <1>1
<1>3. \A m : InSeq(m, c) <=> InSeq(m, s) \/ InSeq(m, r)
  <2> TAKE m
  <2>1. ASSUME InSeq(m, c) PROVE InSeq(m, s) \/ InSeq(m, r)
    BY <1>2, <2>1 DEF InSeq
  <2>2. ASSUME InSeq(m, s) PROVE InSeq(m, c)
    <3>1. PICK i \in 1 .. Len(s) : s[i] = m
      BY <1>1, <2>2 DEF InSeq
    <3>2. i \in DOMAIN c /\ c[i] = m
      BY <1>1, <3>1
    <3>3. QED
      BY <3>2 DEF InSeq
  <2>3. ASSUME InSeq(m, r) PROVE InSeq(m, c)
    <3>1. PICK i \in 1 .. Len(r) : r[i] = m
      BY <1>1, <2>3 DEF InSeq
    <3>2. i + Len(s) \in 1 .. Len(s) + Len(r) /\ i + Len(s) > Len(s) /\ i + Len(s) - Len(s) = i
      BY <1>1, <3>1
    <3>3. c[i + Len(s)] = m
      BY <1>1, <3>1, <3>2
    <3>4. QED
      BY <1>1, <3>2, <3>3 DEF InSeq
  <2>4. QED
    BY <2>1, <2>2, <2>3
<1>4. ASSUME NoRepeat(s), NoRepeat(r), \A m : ~(InSeq(m, s) /\ InSeq(m, r))
      PROVE  NoRepeat(c)
  <2> SUFFICES ASSUME NEW i \in DOMAIN c, NEW j \in DOMAIN c, c[i] = c[j]
               PROVE  i = j
    BY DEF NoRepeat
  <2>1. CASE /\ i \in DOMAIN s /\ c[i] = s[i]
             /\ j \in DOMAIN s /\ c[j] = s[j]
    BY <1>4, <2>1 DEF NoRepeat
  <2>2. CASE /\ i - Len(s) \in DOMAIN r /\ c[i] = r[i - Len(s)]
             /\ j - Len(s) \in DOMAIN r /\ c[j] = r[j - Len(s)]
    <3>1. i - Len(s) = j - Len(s)
      BY <1>4, <2>2 DEF NoRepeat
    <3>2. QED
      BY <1>1, <3>1
  <2>3. CASE \/ /\ i \in DOMAIN s /\ c[i] = s[i]
                /\ j - Len(s) \in DOMAIN r /\ c[j] = r[j - Len(s)]
             \/ /\ j \in DOMAIN s /\ c[j] = s[j]
                /\ i - Len(s) \in DOMAIN r /\ c[i] = r[i - Len(s)]
    BY <1>4, <2>3 DEF InSeq
  <2>4. QED
    BY <1>2, <2>1, <2>2, <2>3
<1>5. QED
  BY <1>3, <1>4 DEF c

LEMMA AppendHolds ==
  ASSUME NEW S, NEW s \in Seq(S), NEW x \in S
  PROVE  /\ \A m : InSeq(m, Append(s, x)) <=> InSeq(m, s) \/ m = x
         /\ NoRepeat(s) /\ ~InSeq(x, s) => NoRepeat(Append(s, x))
<1>1. Append(s, x) = s \o <<x>> /\ <<x>> \in Seq(S)
  OBVIOUS
<1>2. (\A m : InSeq(m, <<x>>) <=> m = x) /\ NoRepeat(<<x>>)
  BY DEF InSeq, NoRepeat
<1>3. QED
  BY <1>1, <1>2, ConcatHolds

LEMMA TailHolds ==
  ASSUME NEW S, NEW s \in Seq(S), s # <<>>, NoRepeat(s)
  PROVE  /\ \A m : InSeq(m, Tail(s)) <=> InSeq(m, s) /\ m # Head(s)
         /\ InSeq(Head(s), s)
         /\ NoRepeat(Tail(s))
<1>1. s = <<Head(s)>> \o Tail(s) /\ Tail(s) \in Seq(S) /\ <<Head(s)>> \in Seq(S)
  OBVIOUS
<1>2. \A m : InSeq(m, <<Head(s)>>) <=> m = Head(s)
  BY DEF InSeq
<1>3. \A m : InSeq(m, s) <=> m = Head(s) \/ InSeq(m, Tail(s))
  <2>1. \A m : InSeq(m, <<Head(s)>> \o Tail(s)) <=>
                InSeq(m, <<Head(s)>>) \/ InSeq(m, Tail(s))
    BY ONLY <1>1, ConcatHolds
  <2>2. QED
    BY ONLY <1>1, <1>2, <2>1
<1>4. /\ DOMAIN Tail(s) = 1 .. Len(s) - 1 /\ DOMAIN s = 1 .. Len(s) /\ Len(s) \in Nat \ {0}
      /\ \A i \in 1 .. Len(s) - 1 : Tail(s)[i] = s[i + 1]
      /\ Head(s) = s[1]
  OBVIOUS
<1>5. ~InSeq(Head(s), Tail(s))
  <2>1. SUFFICES ASSUME NEW i \in 1 .. Len(s) - 1, s[i + 1] = s[1]
                 PROVE  FALSE
    BY <1>4 DEF InSeq
  <2>2. i + 1 \in DOMAIN s /\ 1 \in DOMAIN s /\ i + 1 # 1
    BY <1>4
  <2>3. QED
    BY <2>1, <2>2 DEF NoRepeat
<1>6. NoRepeat(Tail(s))
  <2> SUFFICES ASSUME NEW i \in 1 .. Len(s) - 1, NEW j \in 1 .. Len(s) - 1, s[i + 1] = s[j + 1]
               PROVE  i = j
    BY <1>4 DEF NoRepeat
  <2>1. i + 1 \in DOMAIN s /\ j + 1 \in DOMAIN s
    BY <1>4
  <2>2. i + 1 = j + 1
    BY <2>1 DEF NoRepeat
  <2>3. QED
    BY <2>2
<1>7. QED
  BY <1>3, <1>5, <1>6

\* A step that moves buffer n of vring v, and no other, from one holder to another.
Move(v, n, a, x, c, y) ==
  /\ Holds(a, x, v, n)
  /\ \A kind, z : \A w \in Vring : \A b \in Buffer :
       Holds(kind, z, w, b)' <=>
         \/ kind = c /\ z = y /\ w = v /\ b = n
         \/ Holds(kind, z, w, b) /\ ~(kind = a /\ z = x /\ w = v /\ b = n)

LEMMA OneHolder ==
  ASSUME HeldOnce, NEW v \in Vring, NEW b \in Buffer, NEW k, NEW x, NEW l, NEW y,
         Holds(k, x, v, b), Holds(l, y, v, b)
  PROVE  k = l /\ x = y
BY DEF HeldOnce, HeldBy

LEMMA Moved ==
  ASSUME HeldOnce, NEW v \in Vring, NEW n \in Buffer, NEW a, NEW x, NEW c, NEW y,
         Move(v, n, a, x, c, y)
  PROVE  HeldOnce'
<1> SUFFICES ASSUME NEW w \in Vring, NEW b \in Buffer
             PROVE  \E kind, z : /\ Holds(kind, z, w, b)'
                                 /\ \A l, u : Holds(l, u, w, b)' => l = kind /\ u = z
  BY DEF HeldOnce, HeldBy
<1>1. PICK kind, z : HeldBy(w, b, kind, z)
  BY DEF HeldOnce
<1>2. CASE w = v /\ b = n
  <2>1. kind = a /\ z = x
    BY <1>1, <1>2 DEF HeldBy, Move
  <2>2. /\ Holds(c, y, w, b)'
        /\ \A l, u : Holds(l, u, w, b)' => l = c /\ u = y
    BY <1>1, <1>2, <2>1 DEF HeldBy, Move
  <2>3. QED
    BY <2>2
<1>3. CASE ~(w = v /\ b = n)
  BY <1>1, <1>3 DEF HeldBy, Move
<1>4. QED
  BY <1>2, <1>3

\* Steps that leave the buffers where they are.
LEMMA BufferStay ==
  ASSUME BufferInv, UNCHANGED <<avail, used, hostHas, token, data>>,
         \A a \in Agent : token[a] # None =>
           \/ pc'[a] \in {pc[a], "addUsedBuf"}
           \/ a = Swi /\ pc'[a] \in {"lookup", "put", "post"}
  PROVE  BufferInv'
<1>1. \A kind, x, v, b : Holds(kind, x, v, b)' <=> Holds(kind, x, v, b)
  BY DEF Holds
<1>2. HeldOnce'
  BY <1>1 DEF BufferInv, HeldOnce, HeldBy
<1>3. RingsInv' /\ HandsInv'
  BY DEF BufferInv, RingsInv, HandsInv
<1>4. QED
  BY <1>2, <1>3 DEF BufferInv

\* VirtQueue_getAvailBuf: from the ring of available buffers to the agent.
LEMMA LookBuffer ==
  ASSUME VringsOK, AgentsOK, BufferInv, NEW a \in Agent, Look(a)
  PROVE  BufferInv'
<1> USE RPMessageAssumption
<1>1. PICK v \in Vring : v = VringOf(a)
  BY DEF VringOf, Vring
<1>2. /\ UNCHANGED <<used, hostHas, data>>
      /\ pc[a] = "look" /\ token[a] = None
      /\ \A b \in Agent : b # a => pc'[b] = pc[b]
  BY LookFrame DEF BufferInv, HandsInv, hostVars
<1>3. CASE avail[v] # <<>>
  <2>1. avail[v] \in Seq(Buffer) /\ NoRepeat(avail[v])
    BY DEF VringsOK, BufferInv, RingsInv
  <2>2. PICK n \in Buffer : n = Head(avail[v])
    BY <1>3, <2>1, HeadTail
  <2>3. /\ avail' = [avail EXCEPT ![v] = Tail(avail[v])]
        /\ token' = [token EXCEPT ![a] = n]
        /\ pc' = [pc EXCEPT ![a] = IF a = Swi THEN "lookup" ELSE "addUsedBuf"]
    BY <1>1, <1>3, <2>2, LookFrame
  <2>4. /\ \A b : InSeq(b, Tail(avail[v])) <=> InSeq(b, avail[v]) /\ b # n
        /\ InSeq(n, avail[v]) /\ NoRepeat(Tail(avail[v]))
    BY <1>3, <2>1, <2>2, TailHolds
  <2>5. /\ avail'[v] = Tail(avail[v])
        /\ \A w \in Vring : w # v => avail'[w] = avail[w]
    BY <2>3 DEF VringsOK
  <2>6. \A w \in Vring : \A b \in Buffer :
          InSeq(b, avail'[w]) <=> InSeq(b, avail[w]) /\ ~(w = v /\ b = n)
    BY <2>4, <2>5
  <2>7. \A z \in Agent : \A b \in Buffer :
          token'[z] = b <=> token[z] = b \/ (z = a /\ b = n)
    BY <1>2, <2>3 DEF AgentsOK
  <2>8. Holds("avail", None, v, n)
    BY <2>4 DEF Holds
  <2>9. Move(v, n, "avail", None, "agent", a)
    BY <1>1, <1>2, <2>6, <2>7, <2>8 DEF Move, Holds
  <2>10. HeldOnce'
    BY <2>9, Moved DEF BufferInv
  <2>11. RingsInv'
    BY <1>2, <2>4, <2>5 DEF BufferInv, RingsInv
  <2>12. HandsInv'
    <3>1. \A b : InSeq(b, avail["fromHost"]) => data[b] \in Message
      BY DEF BufferInv, HandsInv, InSeq
    <3>2. \A b : InSeq(b, avail'["fromHost"]) => InSeq(b, avail["fromHost"])
      BY <2>4, <2>5 DEF Vring
    <3>3. \A b \in Agent : token'[b] # None =>
            pc'[b] = "addUsedBuf" \/ (b = Swi /\ pc'[b] \in {"lookup", "put", "post"})
      BY <1>2, <2>3 DEF BufferInv, HandsInv, AgentsOK
    <3>4. \A i \in DOMAIN avail'["fromHost"] : data'[avail'["fromHost"][i]] \in Message
      BY <1>2, <3>1, <3>2 DEF InSeq
    <3>5. QED
      BY <3>3, <3>4 DEF HandsInv, Message
  <2>13. QED
    BY <2>10, <2>11, <2>12 DEF BufferInv
<1>4. CASE avail[v] = <<>>
  <2>1. UNCHANGED <<avail, token>>
    BY <1>1, <1>4, LookFrame
  <2>2. QED
    BY <1>2, <2>1, BufferStay
<1>5. QED
  BY <1>3, <1>4

\* VirtQueue_addUsedBuf: from the agent to the ring of used buffers.
LEMMA AddUsedBuffer ==
  ASSUME VringsOK, AgentsOK, BufferInv, NEW a \in Agent, AddUsedBuf(a)
  PROVE  BufferInv'
<1> USE RPMessageAssumption
<1>1. PICK v \in Vring : v = VringOf(a)
  BY DEF VringOf, Vring
<1>2. PICK n \in Buffer : n = token[a]
  BY DEF AddUsedBuf, AgentsOK
<1>3. /\ UNCHANGED <<avail, hostHas>> /\ pc[a] = "addUsedBuf"
      /\ used' = [used EXCEPT ![v] = Append(used[v], n)]
      /\ token' = [token EXCEPT ![a] = None]
      /\ data' = IF a = Swi THEN [data EXCEPT ![n] = None] ELSE data
      /\ \A b \in Agent : b # a => pc'[b] = pc[b]
  BY <1>1, <1>2 DEF AddUsedBuf, VirtQueue_addUsedBuf, hostVars, AgentsOK
<1>4. Holds("agent", a, v, n)
  BY <1>1, <1>2 DEF Holds
<1>5. ~InSeq(n, used[v]) /\ ~InSeq(n, avail[v])
  BY <1>4, OneHolder DEF BufferInv, Holds
<1>6. /\ \A b : InSeq(b, Append(used[v], n)) <=> InSeq(b, used[v]) \/ b = n
      /\ NoRepeat(Append(used[v], n))
  BY <1>5, AppendHolds DEF VringsOK, BufferInv, RingsInv
<1>7. /\ used'[v] = Append(used[v], n)
      /\ \A w \in Vring : w # v => used'[w] = used[w]
  BY <1>3 DEF VringsOK
<1>8. \A w \in Vring : \A b \in Buffer :
        InSeq(b, used'[w]) <=> InSeq(b, used[w]) \/ (w = v /\ b = n)
  BY <1>6, <1>7
<1>9. \A z \in Agent : \A b \in Buffer :
        token'[z] = b <=> token[z] = b /\ ~(z = a /\ b = n)
  BY <1>2, <1>3 DEF AgentsOK
<1>10. Move(v, n, "agent", a, "used", None)
  BY <1>1, <1>3, <1>4, <1>8, <1>9 DEF Move, Holds
<1>11. HeldOnce'
  BY <1>10, Moved DEF BufferInv
<1>12. RingsInv'
  BY <1>3, <1>6, <1>7 DEF BufferInv, RingsInv
<1>13. HandsInv'
  <2>1. \A b : InSeq(b, avail["fromHost"]) => data'[b] \in Message
    <3>1. \A b : InSeq(b, avail["fromHost"]) => data[b] \in Message
      BY DEF BufferInv, HandsInv, InSeq
    <3>2. CASE a = Swi
      <4>1. ~InSeq(n, avail["fromHost"])
        BY <1>1, <1>5, <3>2 DEF VringOf
      <4>2. \A b : b # n => data'[b] = data[b]
        BY <1>3, <3>2
      <4>3. QED
        BY <3>1, <4>1, <4>2
    <3>3. CASE a # Swi
      BY <1>3, <3>1, <3>3
    <3>4. QED
      BY <3>2, <3>3
  <2>2. \A b \in Agent : token'[b] # None =>
          pc'[b] = "addUsedBuf" \/ (b = Swi /\ pc'[b] \in {"lookup", "put", "post"})
    BY <1>3 DEF BufferInv, HandsInv, AgentsOK
  <2>3. QED
    BY <1>3, <2>1, <2>2 DEF HandsInv, InSeq
<1>14. QED
  BY <1>11, <1>12, <1>13 DEF BufferInv

\* The host sends: one of its own buffers, or a used one, becomes available.
LEMMA HostSendBuffer ==
  ASSUME VringsOK, EndpointsOK, BufferInv, NEW e \in Endpoint, HostSend(e), UNCHANGED agentVars
  PROVE  BufferInv'
<1> DEFINE v == "fromHost"
<1> USE DEF agentVars
<1>0. v \in Vring
  BY DEF Vring
<1>1. PICK n \in Buffer :
        /\ \/ /\ n \in hostHas[v]
              /\ hostHas' = [hostHas EXCEPT ![v] = @ \ {n}]
              /\ UNCHANGED used
           \/ /\ used[v] # <<>> /\ n = Head(used[v])
              /\ used' = [used EXCEPT ![v] = Tail(used[v])]
              /\ UNCHANGED hostHas
        /\ data' = [data EXCEPT ![n] = [dst |-> e, id |-> count + 1]]
        /\ avail' = [avail EXCEPT ![v] = Append(avail[v], n)]
  BY DEF HostSend
<1>2. count + 1 \in 1 .. MaxSend
  BY VirtQueueAssumption DEF HostSend, EndpointsOK
<1>3. /\ avail[v] \in Seq(Buffer) /\ NoRepeat(avail[v])
      /\ used[v] \in Seq(Buffer) /\ NoRepeat(used[v])
  BY <1>0 DEF VringsOK, BufferInv, RingsInv
<1>4. /\ avail'[v] = Append(avail[v], n)
      /\ \A w \in Vring : w # v => avail'[w] = avail[w]
  BY <1>1 DEF VringsOK, Vring
<1> HIDE DEF v
\* Wherever the buffer was, it was not on the ring of available ones.
<1>5. ASSUME NEW a \in {"host", "used"}, Holds(a, None, v, n)
      PROVE  /\ \A w \in Vring : \A b \in Buffer :
                  InSeq(b, avail'[w]) <=> InSeq(b, avail[w]) \/ (w = v /\ b = n)
             /\ \A w \in Vring : NoRepeat(avail'[w])
  <2>1. ~InSeq(n, avail[v])
    BY <1>0, <1>5, OneHolder DEF BufferInv, Holds
  <2>2. /\ \A b : InSeq(b, Append(avail[v], n)) <=> InSeq(b, avail[v]) \/ b = n
        /\ NoRepeat(Append(avail[v], n))
    BY <1>3, <2>1, AppendHolds
  <2>3. QED
    BY <1>4, <2>2 DEF BufferInv, RingsInv
<1>6. HandsInv'
  <2>1. \A b : InSeq(b, avail[v]) => data[b] \in Message
    BY DEF BufferInv, HandsInv, InSeq, v
  <2>2. \A b : InSeq(b, avail'[v]) => InSeq(b, avail[v]) \/ b = n
    BY <1>3, <1>4, AppendHolds
  <2>3. [dst |-> e, id |-> count + 1] \in Message
    BY <1>2 DEF Message
  <2>4. data'[n] \in Message /\ \A b \in Buffer : b # n => data'[b] = data[b]
    BY <1>1, <2>3 DEF EndpointsOK
  <2>5. \A b : InSeq(b, avail[v]) => b \in Buffer
    BY <1>3 DEF InSeq
  <2>6. \A b : InSeq(b, avail'[v]) => data'[b] \in Message
    BY <2>1, <2>2, <2>4, <2>5
  <2>7. QED
    BY <2>6 DEF BufferInv, HandsInv, InSeq, Message, v
<1>7. CASE /\ n \in hostHas[v] /\ hostHas' = [hostHas EXCEPT ![v] = @ \ {n}]
           /\ UNCHANGED used
  <2>1. Holds("host", None, v, n)
    BY <1>7 DEF Holds
  <2>2. \A w \in Vring : \A b \in Buffer :
          b \in hostHas'[w] <=> b \in hostHas[w] /\ ~(w = v /\ b = n)
    BY <1>7 DEF VringsOK
  <2>3. Move(v, n, "host", None, "avail", None)
    BY <1>5, <1>7, <2>1, <2>2 DEF Move, Holds
  <2>4. HeldOnce'
    BY <1>0, <2>3, Moved DEF BufferInv
  <2>5. RingsInv'
    BY <1>5, <1>7, <2>1 DEF BufferInv, RingsInv
  <2>6. QED
    BY <1>6, <2>4, <2>5 DEF BufferInv
<1>8. CASE /\ used[v] # <<>> /\ n = Head(used[v])
           /\ used' = [used EXCEPT ![v] = Tail(used[v])]
           /\ UNCHANGED hostHas
  <2>1. /\ \A b : InSeq(b, Tail(used[v])) <=> InSeq(b, used[v]) /\ b # n
        /\ InSeq(n, used[v]) /\ NoRepeat(Tail(used[v]))
    BY <1>3, <1>8, TailHolds
  <2>2. Holds("used", None, v, n)
    BY <2>1 DEF Holds
  <2>3. /\ used'[v] = Tail(used[v])
        /\ \A w \in Vring : w # v => used'[w] = used[w]
    BY <1>0, <1>8 DEF VringsOK
  <2>4. \A w \in Vring : \A b \in Buffer :
          InSeq(b, used'[w]) <=> InSeq(b, used[w]) /\ ~(w = v /\ b = n)
    BY <2>1, <2>3
  <2>5. Move(v, n, "used", None, "avail", None)
    BY <1>5, <1>8, <2>2, <2>4 DEF Move, Holds
  <2>6. HeldOnce'
    BY <1>0, <2>5, Moved DEF BufferInv
  <2>7. RingsInv'
    BY <1>5, <2>1, <2>2, <2>3 DEF BufferInv, RingsInv
  <2>8. QED
    BY <1>6, <2>6, <2>7 DEF BufferInv
<1>9. QED
  BY <1>1, <1>7, <1>8

\* The host receives: all used buffers become available.
LEMMA HostReceiveBuffer ==
  ASSUME VringsOK, BufferInv, HostReceive, UNCHANGED agentVars
  PROVE  BufferInv'
<1> DEFINE v == "toHost"
<1> USE DEF agentVars
<1>0. v \in Vring /\ v # "fromHost"
  BY DEF Vring
<1>1. /\ used' = [used EXCEPT ![v] = <<>>]
      /\ avail' = [avail EXCEPT ![v] = avail[v] \o used[v]]
      /\ UNCHANGED <<hostHas, data, token, pc>>
  BY DEF HostReceive
<1> HIDE DEF v
<1>2. /\ avail[v] \in Seq(Buffer) /\ NoRepeat(avail[v])
      /\ used[v] \in Seq(Buffer) /\ NoRepeat(used[v])
  BY <1>0 DEF VringsOK, BufferInv, RingsInv
<1>3. /\ avail'[v] = avail[v] \o used[v] /\ used'[v] = <<>>
      /\ \A w \in Vring : w # v => avail'[w] = avail[w] /\ used'[w] = used[w]
  BY <1>0, <1>1 DEF VringsOK
<1>4. \A b : ~(InSeq(b, avail[v]) /\ InSeq(b, used[v]))
  <2>1. SUFFICES ASSUME NEW b, InSeq(b, avail[v]), InSeq(b, used[v])
                 PROVE  FALSE
    OBVIOUS
  <2>2. b \in Buffer
    BY <1>2, <2>1 DEF InSeq
  <2>3. Holds("avail", None, v, b) /\ Holds("used", None, v, b)
    BY <2>1 DEF Holds
  <2>4. QED
    BY <1>0, <2>2, <2>3, OneHolder DEF BufferInv
<1>5. /\ \A b : InSeq(b, avail'[v]) <=> InSeq(b, avail[v]) \/ InSeq(b, used[v])
      /\ NoRepeat(avail'[v])
  BY <1>2, <1>3, <1>4, ConcatHolds
<1>6. (\A b : ~InSeq(b, used'[v])) /\ NoRepeat(used'[v])
  BY <1>3 DEF InSeq, NoRepeat
<1>7. HeldOnce'
  <2> SUFFICES ASSUME NEW w \in Vring, NEW b \in Buffer
               PROVE  \E kind, z : /\ Holds(kind, z, w, b)'
                                   /\ \A l, u : Holds(l, u, w, b)' => l = kind /\ u = z
    BY DEF HeldOnce, HeldBy
  <2>1. PICK kind, z : HeldBy(w, b, kind, z)
    BY DEF BufferInv, HeldOnce
  <2>2. Holds(kind, z, w, b) /\ \A l, u : Holds(l, u, w, b) => l = kind /\ u = z
    BY <2>1 DEF HeldBy
  <2>3. CASE w # v
    <3>1. \A l, u : Holds(l, u, w, b)' <=> Holds(l, u, w, b)
      BY <1>1, <1>3, <2>3 DEF Holds
    <3>2. QED
      BY <2>2, <3>1
  <2>4. CASE w = v /\ kind = "used"
    <3>1. InSeq(b, used[w])
      BY <2>2, <2>4 DEF Holds
    <3>2. Holds("avail", None, w, b)'
      BY <1>5, <2>4, <3>1 DEF Holds
    <3>3. \A l, u : Holds(l, u, w, b)' => l = "avail" /\ u = None
      BY <1>1, <1>5, <1>6, <2>2, <2>4 DEF Holds
    <3>4. QED
      BY <3>2, <3>3
  <2>5. CASE w = v /\ kind # "used"
    <3>1. ~InSeq(b, used[w])
      BY <2>2, <2>5 DEF Holds
    <3>2. \A l, u : Holds(l, u, w, b)' <=> Holds(l, u, w, b)
      BY <1>1, <1>5, <1>6, <2>5, <3>1 DEF Holds
    <3>3. QED
      BY <2>2, <3>2
  <2>6. QED
    BY <2>3, <2>4, <2>5
<1>8. RingsInv'
  BY <1>3, <1>5, <1>6 DEF BufferInv, RingsInv
<1>9. HandsInv'
  BY <1>0, <1>1, <1>3 DEF BufferInv, HandsInv, Vring
<1>10. QED
  BY <1>7, <1>8, <1>9 DEF BufferInv

LEMMA BufferStep ==
  ASSUME VringsOK, AgentsOK, EndpointsOK, BufferInv, Next
  PROVE  BufferInv'
<1> USE RPMessageAssumption DEF slaveVars, hostVars, vqVars, agentVars
<1>1. ASSUME NEW t \in Thread, Quiet(t)
      PROVE  BufferInv'
  BY <1>1, QuietFrame, BufferStay DEF BufferInv, HandsInv
<1>2. ASSUME Deliver
      PROVE  BufferInv'
  BY <1>2, DeliverFrame, BufferStay
<1>3. ASSUME NEW a \in Agent, GetAvailBuf(a)
      PROVE  BufferInv'
  <2>1. /\ UNCHANGED <<avail, used, hostHas, token, data>>
        /\ pc[a] = "getAvailBuf" /\ \A b \in Agent : b # a => pc'[b] = pc[b]
    BY <1>3 DEF GetAvailBuf, AgentsOK
  <2>2. QED
    BY <2>1, BufferStay DEF BufferInv, HandsInv
<1>4. ASSUME NEW a \in Agent, Kick(a)
      PROVE  BufferInv'
  <2>1. /\ UNCHANGED <<avail, used, hostHas, token, data>>
        /\ pc[a] = "kick" /\ \A b \in Agent : b # a => pc'[b] = pc[b]
    BY <1>4 DEF Kick, AgentsOK
  <2>2. QED
    BY <2>1, BufferStay DEF BufferInv, HandsInv
<1>5. ASSUME VirtQueue_isr
      PROVE  BufferInv'
  BY <1>5, BufferStay DEF VirtQueue_isr
<1>6. ASSUME RPMessage_swiFxn
      PROVE  BufferInv'
  <2>1. /\ UNCHANGED <<avail, used, hostHas, token, data>>
        /\ pc[Swi] = "idle" /\ \A b \in Agent : b # Swi => pc'[b] = pc[b]
    BY <1>6 DEF RPMessage_swiFxn, AgentsOK
  <2>2. QED
    BY <2>1, BufferStay DEF BufferInv, HandsInv
<1>7. ASSUME (\E v \in Vring : HostKick(v)) \/ HostStarved \/ HostRecheck \/ HostIsr,
             UNCHANGED agentVars
      PROVE  BufferInv'
  <2>1. UNCHANGED <<avail, used, hostHas, token, data, pc>>
    BY <1>7 DEF HostKick, HostStarved, HostRecheck, HostIsr
  <2>2. QED
    BY <2>1, BufferStay
<1>8. QED
  BY ONLY Steps, Next, VringsOK, AgentsOK, EndpointsOK, BufferInv, <1>1, <1>2, <1>3, <1>4,
     <1>5, <1>6, <1>7, LookBuffer, AddUsedBuffer, HostSendBuffer, HostReceiveBuffer

-----------------------------------------------------------------------------
\* The accounts of the endpoints: messages and blocks of the heap.
Queued == UNION {{<<e, i>> : i \in DOMAIN messages[e]} : e \in Endpoint}
Putters == {a \in Agent : pc[a] = "put"}

HeapInv ==
  /\ IsFiniteSet(Queued) /\ IsFiniteSet(Putters)
  /\ heap + Cardinality(Queued) + Cardinality(Putters) = HeapSize

ObjectTypes ==
  /\ object \in [Endpoint -> {"none", "queue", "callback", "gone"}]
  /\ semaphore \in [Endpoint -> Nat] /\ unblocked \in [Endpoint -> {"no", "yes"}]
  /\ messages \in [Endpoint -> Seq(0 .. MaxSend)]
  /\ heap \in Nat

TransportTypes ==
  /\ Len(mailbox) <= MailboxSize
  /\ data \in [Buffer -> Message \cup {None}] /\ count \in 0 .. MaxSend
  /\ toHost \in {0, 1} /\ posted \in {"no", "yes"} /\ usedBufAdded \in {"no", "yes"}
  /\ item \in [Agent -> 0 .. MaxSend] /\ dst \in [Agent -> Endpoint \cup {None}]

ObjectInv == ObjectTypes /\ UseInv /\ SemaphoreInv /\ HeapInv

\* Only agent a moves.
Alone(a) == \A b \in Agent : b # a => pc'[b] = pc[b] /\ dst'[b] = dst[b]

\* An agent begins or ends to put, or to stand for a message of a queue.
LEMMA CountPutters ==
  ASSUME NEW a \in Agent, Alone(a), IsFiniteSet(Putters)
  PROVE  /\ IsFiniteSet(Putters') /\ Cardinality(Putters) \in Nat
         /\ Cardinality(Putters') =
              IF pc[a] = "put"
              THEN IF pc'[a] = "put" THEN Cardinality(Putters) ELSE Cardinality(Putters) - 1
              ELSE IF pc'[a] = "put" THEN Cardinality(Putters) + 1 ELSE Cardinality(Putters)
<1> USE DEF Alone
<1>1. Cardinality(Putters) \in Nat
  BY FS_CardinalityType
<1>2. CASE pc[a] = "put" /\ pc'[a] # "put"
  <2>1. Putters' = Putters \ {a} /\ a \in Putters
    BY <1>2 DEF Putters
  <2>2. QED
    BY <1>1, <1>2, <2>1, FS_RemoveElement
<1>3. CASE pc[a] # "put" /\ pc'[a] = "put"
  <2>1. Putters' = Putters \cup {a} /\ a \notin Putters
    BY <1>3 DEF Putters
  <2>2. QED
    BY <1>1, <1>3, <2>1, FS_AddElement
<1>4. CASE pc[a] = "put" <=> pc'[a] = "put"
  <2>1. Putters' = Putters
    BY <1>4 DEF Putters
  <2>2. QED
    BY <1>1, <1>4, <2>1
<1>5. QED
  BY <1>2, <1>3, <1>4

Claiming(a, e) == pc[a] \in {"post", "woken"} /\ dst[a] = e

LEMMA CountClaims ==
  ASSUME NEW a \in Agent, Alone(a), NEW e \in Endpoint, IsFiniteSet(Claims(e))
  PROVE  /\ IsFiniteSet(Claims(e)') /\ Cardinality(Claims(e)) \in Nat
         /\ Cardinality(Claims(e)') =
              IF Claiming(a, e)
              THEN IF Claiming(a, e)' THEN Cardinality(Claims(e)) ELSE Cardinality(Claims(e)) - 1
              ELSE IF Claiming(a, e)' THEN Cardinality(Claims(e)) + 1 ELSE Cardinality(Claims(e))
<1> USE DEF Alone
<1>1. Cardinality(Claims(e)) \in Nat
  BY FS_CardinalityType
<1>2. CASE Claiming(a, e) /\ ~Claiming(a, e)'
  <2>1. Claims(e)' = Claims(e) \ {a} /\ a \in Claims(e)
    BY <1>2 DEF Claims, Claiming
  <2>2. QED
    BY <1>1, <1>2, <2>1, FS_RemoveElement
<1>3. CASE ~Claiming(a, e) /\ Claiming(a, e)'
  <2>1. Claims(e)' = Claims(e) \cup {a} /\ a \notin Claims(e)
    BY <1>3 DEF Claims, Claiming
  <2>2. QED
    BY <1>1, <1>3, <2>1, FS_AddElement
<1>4. CASE Claiming(a, e) <=> Claiming(a, e)'
  <2>1. Claims(e)' = Claims(e)
    BY <1>4 DEF Claims, Claiming
  <2>2. QED
    BY <1>1, <1>4, <2>1
<1>5. QED
  BY <1>2, <1>3, <1>4

\* A message more, one less, and none any more in a queue.
LEMMA CountAppend ==
  ASSUME ObjectTypes, IsFiniteSet(Queued), NEW e \in Endpoint, NEW m \in 0 .. MaxSend,
         messages' = [messages EXCEPT ![e] = Append(messages[e], m)]
  PROVE  /\ messages' \in [Endpoint -> Seq(0 .. MaxSend)]
         /\ Len(messages'[e]) = Len(messages[e]) + 1 /\ Len(messages[e]) \in Nat
         /\ IsFiniteSet(Queued') /\ Cardinality(Queued') = Cardinality(Queued) + 1
         /\ Cardinality(Queued) \in Nat
<1>1. messages[e] \in Seq(0 .. MaxSend)
  BY DEF ObjectTypes
<1>2. /\ Append(messages[e], m) \in Seq(0 .. MaxSend)
      /\ Len(Append(messages[e], m)) = Len(messages[e]) + 1 /\ Len(messages[e]) \in Nat
      /\ DOMAIN messages[e] = 1 .. Len(messages[e])
      /\ DOMAIN Append(messages[e], m) = 1 .. Len(messages[e]) + 1
  BY <1>1
<1>3. /\ messages'[e] = Append(messages[e], m)
      /\ \A f \in Endpoint : f # e => messages'[f] = messages[f]
  BY DEF ObjectTypes
<1>4. 1 .. Len(messages[e]) + 1 = (1 .. Len(messages[e])) \cup {Len(messages[e]) + 1}
  BY <1>2
<1>5. Queued' = Queued \cup {<<e, Len(messages[e]) + 1>>}
  BY <1>2, <1>3, <1>4 DEF Queued
<1>6. <<e, Len(messages[e]) + 1>> \notin Queued
  BY <1>2 DEF Queued
<1>7. /\ IsFiniteSet(Queued') /\ Cardinality(Queued') = Cardinality(Queued) + 1
      /\ Cardinality(Queued) \in Nat
  BY <1>5, <1>6, FS_AddElement, FS_CardinalityType
<1>8. messages' \in [Endpoint -> Seq(0 .. MaxSend)]
  BY <1>2 DEF ObjectTypes
<1>9. QED
  BY <1>2, <1>3, <1>7, <1>8

LEMMA TailLength ==
  ASSUME NEW S, NEW s \in Seq(S), s # <<>>
  PROVE  /\ Tail(s) \in Seq(S) /\ Len(Tail(s)) = Len(s) - 1
         /\ Len(s) \in Nat /\ Len(s) > 0
         /\ DOMAIN s = 1 .. Len(s) /\ DOMAIN Tail(s) = 1 .. Len(s) - 1
OBVIOUS

LEMMA CountTail ==
  ASSUME ObjectTypes, IsFiniteSet(Queued), NEW e \in Endpoint, messages[e] # <<>>,
         messages' = [messages EXCEPT ![e] = Tail(messages[e])]
  PROVE  /\ messages' \in [Endpoint -> Seq(0 .. MaxSend)]
         /\ Len(messages'[e]) = Len(messages[e]) - 1 /\ Len(messages[e]) \in Nat
         /\ IsFiniteSet(Queued') /\ Cardinality(Queued') = Cardinality(Queued) - 1
         /\ Cardinality(Queued) \in Nat
<1>1. messages[e] \in Seq(0 .. MaxSend)
  BY DEF ObjectTypes
<1>2. /\ Tail(messages[e]) \in Seq(0 .. MaxSend)
      /\ Len(Tail(messages[e])) = Len(messages[e]) - 1 /\ Len(messages[e]) \in Nat
      /\ Len(messages[e]) > 0
      /\ DOMAIN messages[e] = 1 .. Len(messages[e])
      /\ DOMAIN Tail(messages[e]) = 1 .. Len(messages[e]) - 1
  BY <1>1, TailLength
<1>3. /\ messages'[e] = Tail(messages[e])
      /\ \A f \in Endpoint : f # e => messages'[f] = messages[f]
  BY DEF ObjectTypes
<1>4. 1 .. Len(messages[e]) - 1 = (1 .. Len(messages[e])) \ {Len(messages[e])}
  BY <1>2
<1>5. Queued' = Queued \ {<<e, Len(messages[e])>>}
  <2>1. \A f, i : <<f, i>> \in Queued <=> f \in Endpoint /\ i \in DOMAIN messages[f]
    BY DEF Queued
  <2>2. \A f, i : <<f, i>> \in Queued' <=> f \in Endpoint /\ i \in DOMAIN messages'[f]
    BY DEF Queued
  <2>3. \A c \in Queued \cup Queued' : \E f, i : c = <<f, i>>
    BY DEF Queued
  <2>4. \A f, i : <<f, i>> \in Queued' <=>
                  <<f, i>> \in Queued /\ ~(f = e /\ i = Len(messages[e]))
    BY <1>2, <1>3, <1>4, <2>1, <2>2
  <2>5. QED
    BY <2>3, <2>4
<1>6. <<e, Len(messages[e])>> \in Queued
  BY <1>2 DEF Queued
<1>7. /\ IsFiniteSet(Queued') /\ Cardinality(Queued') = Cardinality(Queued) - 1
      /\ Cardinality(Queued) \in Nat
  BY <1>5, <1>6, FS_RemoveElement, FS_CardinalityType
<1>8. messages' \in [Endpoint -> Seq(0 .. MaxSend)]
  BY <1>2 DEF ObjectTypes
<1>9. QED
  BY <1>2, <1>3, <1>7, <1>8

LEMMA CountNone ==
  ASSUME ObjectTypes, IsFiniteSet(Queued), NEW e \in Endpoint,
         messages' = [messages EXCEPT ![e] = <<>>]
  PROVE  /\ messages' \in [Endpoint -> Seq(0 .. MaxSend)]
         /\ messages'[e] = <<>> /\ Len(messages[e]) \in Nat
         /\ IsFiniteSet(Queued')
         /\ Cardinality(Queued') + Len(messages[e]) = Cardinality(Queued)
         /\ Cardinality(Queued') \in Nat
<1>1. messages[e] \in Seq(0 .. MaxSend)
  BY DEF ObjectTypes
<1>2. PICK n \in Nat : n = Len(messages[e]) /\ DOMAIN messages[e] = 1 .. n
  BY <1>1
<1>3. /\ messages'[e] = <<>>
      /\ \A f \in Endpoint : f # e => messages'[f] = messages[f]
  BY DEF ObjectTypes
<1>4. messages' \in [Endpoint -> Seq(0 .. MaxSend)]
  BY DEF ObjectTypes
<1> DEFINE Block == {<<e, i>> : i \in 1 .. n}
           pair == [i \in 1 .. n |-> <<e, i>>]
<1>5. IsFiniteSet(Block) /\ Cardinality(Block) = n
  <2>1. IsFiniteSet(1 .. n) /\ Cardinality(1 .. n) = n
    BY FS_Interval
  <2>2. pair \in Bijection(1 .. n, Block)
    <3>1. pair \in [1 .. n -> Block] /\ \A i \in 1 .. n : pair[i] = <<e, i>>
      OBVIOUS
    <3>2. \A c \in Block : \E i \in 1 .. n : c = <<e, i>>
      OBVIOUS
    <3> HIDE DEF pair, Block
    <3>3. pair \in Injection(1 .. n, Block)
      BY <3>1 DEF Injection, IsInjective
    <3>4. pair \in Surjection(1 .. n, Block)
      BY <3>1, <3>2 DEF Surjection
    <3>5. QED
      BY <3>3, <3>4 DEF Bijection
  <2>3. ExistsBijection(1 .. n, Block)
    BY <2>2 DEF ExistsBijection
  <2>4. QED
    BY ONLY <2>1, <2>3, FS_Bijection
<1>6. Queued = Queued' \cup Block /\ Queued' \cap Block = {}
  BY <1>2, <1>3 DEF Queued
<1> HIDE DEF Block
<1>7. IsFiniteSet(Queued')
  BY <1>6, FS_Subset
<1>8. Cardinality(Queued) = Cardinality(Queued') + n
  <2>1. Cardinality(Queued' \cup Block) =
          Cardinality(Queued') + Cardinality(Block) - Cardinality(Queued' \cap Block)
    BY <1>5, <1>7, FS_Union
  <2>2. Cardinality({}) = 0
    BY FS_EmptySet
  <2>3. Cardinality(Queued') \in Nat
    BY <1>7, FS_CardinalityType
  <2>4. /\ Cardinality(Queued) = Cardinality(Queued' \cup Block)
        /\ Cardinality(Queued' \cap Block) = 0
    BY <1>6, <2>2
  <2>5. QED
    BY <1>5, <2>1, <2>3, <2>4
<1>9. QED
  BY <1>2, <1>3, <1>4, <1>7, <1>8, FS_CardinalityType

\* What UseInv says of one agent.
User(a) ==
  /\ pc[a] \in {"lookup", "put", "post", "pend", "woken", "nullSlot"} => dst[a] \in Endpoint
  /\ pc[a] \in {"put", "post", "pend", "woken"} => object[dst[a]] = "queue"
  /\ pc[a] \in {"pend", "woken", "nullSlot"} => owner[dst[a]] = a
  /\ pc[a] = "nullSlot" => object[dst[a]] = "gone"

\* A step of one agent that touches no object.
LEMMA ObjectStay ==
  ASSUME ObjectInv, NEW a \in Agent, Alone(a), UNCHANGED endpointVars, User(a)',
         pc[a] \notin {"put", "post", "woken"}, pc'[a] \notin {"put", "post", "woken"}
  PROVE  ObjectInv'
<1> USE DEF endpointVars, ObjectInv
<1>1. ObjectTypes'
  BY DEF ObjectTypes
<1>2. UseInv'
  BY DEF UseInv, User, Alone
<1>3. SemaphoreInv'
  <2> SUFFICES ASSUME NEW e \in Endpoint
               PROVE  /\ IsFiniteSet(Claims(e)')
                      /\ unblocked[e] = "no" =>
                           semaphore[e] + Cardinality(Claims(e)') = Len(messages[e])
    BY DEF SemaphoreInv
  <2>1. Claims(e)' = Claims(e)
    BY DEF Claims, Alone
  <2>2. QED
    BY <2>1 DEF SemaphoreInv
<1>4. HeapInv'
  <2>1. Putters' = Putters /\ Queued' = Queued
    BY DEF Putters, Queued, Alone
  <2>2. QED
    BY <2>1 DEF HeapInv
<1>5. QED
  BY <1>1, <1>2, <1>3, <1>4

\* The calls of a thread that touch no object: it waits, or is done.
LEMMA CallObject ==
  ASSUME AgentsOK, TransportTypes, ObjectInv, NEW t \in Thread,
         \/ \E e \in sends[t] : RPMessage_send(t, e)
         \/ \E e \in Endpoint : RPMessage_recv(t, e)
         \/ Starved(t) \/ Timeout(t)
  PROVE  ObjectInv'
<1> USE RPMessageAssumption DEF AgentsOK, TransportTypes, Alone, User, endpointVars
<1> t \in Agent
  BY DEF Agent
<1>1. CASE \E e \in sends[t] : RPMessage_send(t, e)
  <2>1. PICK e \in sends[t] : RPMessage_send(t, e)
    BY <1>1
  <2>2. /\ pc[t] = "idle" /\ dst' = [dst EXCEPT ![t] = e] /\ UNCHANGED endpointVars
        /\ pc' = [pc EXCEPT ![t] = IF e = None THEN "getAvailBuf" ELSE "lookup"]
    BY <2>1 DEF RPMessage_send
  <2>3. e \in Endpoint \cup {None}
    OBVIOUS
  <2>4. Alone(t) /\ User(t)' /\ pc'[t] \in {"getAvailBuf", "lookup"}
    BY <2>2, <2>3
  <2>5. QED
    BY ONLY ObjectInv, t \in Agent, <2>2, <2>4, ObjectStay
<1>2. CASE \E e \in Endpoint : RPMessage_recv(t, e)
  <2>1. PICK e \in Endpoint : RPMessage_recv(t, e)
    BY <1>2
  <2>2. /\ pc[t] = "idle" /\ dst' = [dst EXCEPT ![t] = e] /\ UNCHANGED endpointVars
        /\ pc' = [pc EXCEPT ![t] = "pend"] /\ owner[e] = t /\ object[e] = "queue"
    BY <2>1 DEF RPMessage_recv
  <2>3. Alone(t) /\ User(t)' /\ pc'[t] = "pend"
    BY <2>2
  <2>4. QED
    BY ONLY ObjectInv, t \in Agent, <2>2, <2>3, ObjectStay
<1>3. CASE Starved(t)
  <2>1. /\ pc[t] = "starved" /\ dst' = dst /\ UNCHANGED endpointVars
        /\ pc' = [pc EXCEPT ![t] = "getAvailBuf"]
    BY <1>3 DEF Starved
  <2>2. Alone(t) /\ User(t)' /\ pc'[t] = "getAvailBuf"
    BY <2>1
  <2>3. QED
    BY ONLY ObjectInv, t \in Agent, <2>1, <2>2, ObjectStay
<1>4. CASE Timeout(t)
  <2>1. /\ pc[t] = "pend" /\ dst' = [dst EXCEPT ![t] = None] /\ UNCHANGED endpointVars
        /\ pc' = [pc EXCEPT ![t] = "idle"]
    BY <1>4 DEF Timeout, Finish
  <2>2. Alone(t) /\ User(t)' /\ pc'[t] = "idle"
    BY <2>1
  <2>3. QED
    BY ONLY ObjectInv, t \in Agent, <2>1, <2>2, ObjectStay
<1>5. QED
  BY <1>1, <1>2, <1>3, <1>4

\* The steps at the vrings touch no object.
LEMMA RingObject ==
  ASSUME VringsOK, AgentsOK, TransportTypes, HandsInv, ObjectInv, NEW a \in Agent,
         GetAvailBuf(a) \/ Look(a) \/ AddUsedBuf(a) \/ Kick(a)
  PROVE  ObjectInv'
<1> USE RPMessageAssumption DEF AgentsOK, TransportTypes, Alone, User, endpointVars
<1>1. CASE GetAvailBuf(a) \/ AddUsedBuf(a) \/ Kick(a)
  <2>1. /\ pc[a] \in {"getAvailBuf", "addUsedBuf", "kick"} /\ dst' = dst
        /\ UNCHANGED endpointVars
        /\ \E l \in {"look", "getAvailBuf", "kick", "idle"} : pc' = [pc EXCEPT ![a] = l]
    BY <1>1 DEF GetAvailBuf, AddUsedBuf, Kick
  <2>2. Alone(a) /\ User(a)' /\ pc'[a] \in {"look", "getAvailBuf", "kick", "idle"}
    BY <2>1
  <2>3. QED
    BY ONLY ObjectInv, a \in Agent, <2>1, <2>2, ObjectStay
<1>2. CASE Look(a)
  <2>1. pc[a] = "look" /\ UNCHANGED endpointVars
    BY <1>2 DEF Look
  <2>2. CASE a = Swi /\ avail["fromHost"] # <<>>
    <3>1. PICK m \in Message : m = data[Head(avail["fromHost"])]
      <4>1. 1 \in DOMAIN avail["fromHost"] /\ Head(avail["fromHost"]) = avail["fromHost"][1]
        BY <2>2 DEF VringsOK, Vring
      <4>2. QED
        BY <4>1 DEF HandsInv
    <3>2. dst' = [dst EXCEPT ![a] = m.dst] /\ pc' = [pc EXCEPT ![a] = "lookup"]
      BY <1>2, <2>2, <3>1, Rings DEF Look, Available
    <3>3. m.dst \in Endpoint
      BY DEF Message
    <3>4. Alone(a) /\ User(a)' /\ pc'[a] = "lookup"
      BY <2>1, <3>2, <3>3
    <3>5. QED
      BY ONLY ObjectInv, a \in Agent, <2>1, <3>4, ObjectStay
  <2>3. CASE ~(a = Swi /\ avail["fromHost"] # <<>>)
    <3>1. dst' = dst /\ \E l \in {"addUsedBuf", "starved", "kick", "idle"} : pc' = [pc EXCEPT ![a] = l]
      BY <1>2, <2>3, Rings DEF Look, Available, SwiEnd
    <3>2. Alone(a) /\ User(a)' /\ pc'[a] \in {"addUsedBuf", "starved", "kick", "idle"}
      BY <2>1, <3>1
    <3>3. QED
      BY ONLY ObjectInv, a \in Agent, <2>1, <3>2, ObjectStay
  <2>4. QED
    BY <2>2, <2>3
<1>3. QED
  BY <1>1, <1>2

\* RPMessage_send looks the endpoint up: HeapBuf_alloc takes a block for it.
LEMMA LookupObject ==
  ASSUME AgentsOK, TransportTypes, ObjectInv, NEW a \in Agent, Lookup(a)
  PROVE  ObjectInv'
<1> USE DEF AgentsOK, TransportTypes, Alone
<1>1. /\ pc[a] = "lookup" /\ UNCHANGED <<object, semaphore, messages, unblocked>>
      /\ dst[a] \in Endpoint
  BY DEF Lookup, ObjectInv, UseInv
<1>2. CASE object[dst[a]] = "queue" /\ heap > 0
  <2>1. heap' = heap - 1 /\ dst' = dst /\ pc' = [pc EXCEPT ![a] = "put"]
    BY <1>2 DEF Lookup, Finish
  <2>2. Alone(a) /\ pc'[a] = "put"
    BY <2>1
  <2>3. ObjectTypes'
    BY <1>1, <1>2, <2>1 DEF ObjectInv, ObjectTypes
  <2>4. UseInv'
    BY <1>1, <1>2, <2>1, <2>2 DEF ObjectInv, UseInv
  <2>5. SemaphoreInv'
    <3>1. \A e \in Endpoint : Claims(e)' = Claims(e)
      BY <1>1, <2>1, <2>2 DEF Claims
    <3>2. QED
      BY <1>1, <3>1 DEF ObjectInv, SemaphoreInv
  <2>6. HeapInv'
    <3>1. Queued' = Queued
      BY <1>1 DEF Queued
    <3>2. /\ IsFiniteSet(Putters') /\ Cardinality(Putters') = Cardinality(Putters) + 1
          /\ Cardinality(Putters) \in Nat
      BY <1>1, <2>2, CountPutters DEF ObjectInv, HeapInv
    <3>3. Cardinality(Queued) \in Nat
      BY FS_CardinalityType DEF ObjectInv, HeapInv
    <3>4. heap \in Nat /\ HeapSize \in Nat
      BY RPMessageAssumption DEF ObjectInv, ObjectTypes
    <3>5. QED
      BY <2>1, <3>1, <3>2, <3>3, <3>4 DEF ObjectInv, HeapInv
  <2>7. QED
    BY <2>3, <2>4, <2>5, <2>6 DEF ObjectInv
<1>3. CASE ~(object[dst[a]] = "queue" /\ heap > 0)
  <2>1. heap' = heap /\ dst' = [dst EXCEPT ![a] = None]
        /\ \E l \in {"idle", "addUsedBuf"} : pc' = [pc EXCEPT ![a] = l]
    BY <1>3 DEF Lookup, Finish, Sent
  <2>2. Alone(a) /\ pc'[a] \in {"idle", "addUsedBuf"} /\ User(a)'
    BY <2>1 DEF User
  <2>3. UNCHANGED endpointVars
    BY <1>1, <2>1 DEF endpointVars
  <2>4. QED
    BY ONLY ObjectInv, a \in Agent, <1>1, <2>2, <2>3, ObjectStay
<1>4. QED
  BY <1>2, <1>3

\* List_put: the sender stands for the message until it has posted.
LEMMA PutObject ==
  ASSUME AgentsOK, TransportTypes, ObjectInv, NEW a \in Agent, Put(a)
  PROVE  ObjectInv'
<1> USE DEF AgentsOK, TransportTypes, Alone
<1>1. PICK e \in Endpoint : e = dst[a]
  BY DEF Put, ObjectInv, UseInv
<1>2. PICK m \in 0 .. MaxSend : m = item[a]
  OBVIOUS
<1>3. /\ pc[a] = "put" /\ pc' = [pc EXCEPT ![a] = "post"] /\ dst' = dst
      /\ messages' = [messages EXCEPT ![e] = Append(messages[e], m)]
      /\ UNCHANGED <<object, semaphore, unblocked, heap>>
      /\ object[e] = "queue"
  BY <1>1, <1>2 DEF Put, ObjectInv, UseInv
<1>4. Alone(a) /\ pc'[a] = "post"
  BY <1>3
<1>5. /\ messages' \in [Endpoint -> Seq(0 .. MaxSend)]
      /\ Len(messages'[e]) = Len(messages[e]) + 1 /\ Len(messages[e]) \in Nat
      /\ IsFiniteSet(Queued') /\ Cardinality(Queued') = Cardinality(Queued) + 1
      /\ Cardinality(Queued) \in Nat
  BY <1>3, CountAppend DEF ObjectInv, HeapInv
<1>6. \A f \in Endpoint : f # e => messages'[f] = messages[f]
  BY <1>3 DEF ObjectInv, ObjectTypes
<1>7. ObjectTypes'
  BY <1>3, <1>5 DEF ObjectInv, ObjectTypes
<1>8. UseInv'
  BY <1>1, <1>3, <1>4, <1>6 DEF ObjectInv, UseInv
<1>9. SemaphoreInv'
  <2> SUFFICES ASSUME NEW f \in Endpoint
               PROVE  /\ IsFiniteSet(Claims(f)')
                      /\ unblocked'[f] = "no" =>
                           semaphore'[f] + Cardinality(Claims(f)') = Len(messages'[f])
    BY DEF SemaphoreInv
  <2>1. /\ IsFiniteSet(Claims(f)') /\ Cardinality(Claims(f)) \in Nat
        /\ Cardinality(Claims(f)') = IF f = e THEN Cardinality(Claims(f)) + 1
                                     ELSE Cardinality(Claims(f))
    BY <1>1, <1>3, <1>4, CountClaims DEF Claiming, ObjectInv, SemaphoreInv
  <2>2. unblocked[f] = "no" => semaphore[f] + Cardinality(Claims(f)) = Len(messages[f])
    BY DEF ObjectInv, SemaphoreInv
  <2>3. semaphore[f] \in Nat
    BY DEF ObjectInv, ObjectTypes
  <2>4. UNCHANGED <<semaphore, unblocked>>
    BY <1>3
  <2>5. CASE f = e
    BY ONLY <1>5, <2>1, <2>2, <2>3, <2>4, <2>5, SMTT(40)
  <2>6. CASE f # e
    BY ONLY <1>6, f \in Endpoint, <2>1, <2>2, <2>4, <2>6
  <2>7. QED
    BY <2>5, <2>6
<1>10. HeapInv'
  <2>1. /\ IsFiniteSet(Putters') /\ Cardinality(Putters') = Cardinality(Putters) - 1
        /\ Cardinality(Putters) \in Nat
    BY <1>3, <1>4, CountPutters DEF ObjectInv, HeapInv
  <2>2. heap \in Nat /\ HeapSize \in Nat
    BY RPMessageAssumption DEF ObjectInv, ObjectTypes
  <2>3. QED
    BY <1>3, <1>5, <2>1, <2>2 DEF ObjectInv, HeapInv
<1>11. QED
  BY <1>7, <1>8, <1>9, <1>10 DEF ObjectInv

\* Semaphore_post of a send, or of RPMessage_unblock.
LEMMA PostObject ==
  ASSUME AgentsOK, TransportTypes, ObjectInv, NEW a \in Agent, Post(a)
  PROVE  ObjectInv'
<1> USE RPMessageAssumption DEF AgentsOK, TransportTypes, Alone
<1>1. PICK e \in Endpoint : e = dst[a]
  BY DEF Post, ObjectInv, UseInv
<1>2. /\ pc[a] = "post" /\ dst' = [dst EXCEPT ![a] = None]
      /\ \E l \in {"idle", "addUsedBuf"} : pc' = [pc EXCEPT ![a] = l]
      /\ semaphore' = [semaphore EXCEPT ![e] = semaphore[e] + 1]
      /\ UNCHANGED <<object, messages, unblocked, heap>>
      /\ object[e] = "queue"
  BY <1>1 DEF Post, Finish, Sent, ObjectInv, UseInv
<1>3. Alone(a) /\ pc'[a] \in {"idle", "addUsedBuf"}
  BY <1>2
<1>4. semaphore[e] \in Nat /\ \A f \in Endpoint : semaphore'[f] = IF f = e THEN semaphore[e] + 1
                                                                 ELSE semaphore[f]
  BY <1>2 DEF ObjectInv, ObjectTypes
<1>5. ObjectTypes'
  BY <1>2, <1>4 DEF ObjectInv, ObjectTypes
<1>6. UseInv'
  BY <1>2, <1>3, <1>4 DEF ObjectInv, UseInv
<1>7. SemaphoreInv'
  <2> SUFFICES ASSUME NEW f \in Endpoint
               PROVE  /\ IsFiniteSet(Claims(f)')
                      /\ unblocked'[f] = "no" =>
                           semaphore'[f] + Cardinality(Claims(f)') = Len(messages'[f])
    BY DEF SemaphoreInv
  <2>1. /\ IsFiniteSet(Claims(f)') /\ Cardinality(Claims(f)) \in Nat
        /\ Cardinality(Claims(f)') = IF f = e THEN Cardinality(Claims(f)) - 1
                                     ELSE Cardinality(Claims(f))
    BY <1>1, <1>2, <1>3, CountClaims DEF Claiming, ObjectInv, SemaphoreInv
  <2>2. unblocked[f] = "no" => semaphore[f] + Cardinality(Claims(f)) = Len(messages[f])
    BY DEF ObjectInv, SemaphoreInv
  <2>3. semaphore[f] \in Nat
    BY DEF ObjectInv, ObjectTypes
  <2>4. QED
    BY <1>2, <1>4, <2>1, <2>2, <2>3
<1>8. HeapInv'
  <2>1. Queued' = Queued /\ Putters' = Putters
    BY <1>2, <1>3 DEF Queued, Putters
  <2>2. QED
    BY <1>2, <2>1 DEF ObjectInv, HeapInv
<1>9. QED
  BY <1>5, <1>6, <1>7, <1>8 DEF ObjectInv

\* Semaphore_pend: the reader stands for the message until it has it.
LEMMA PendObject ==
  ASSUME AgentsOK, TransportTypes, ObjectInv, NEW t \in Thread, Pend(t)
  PROVE  ObjectInv'
<1> USE DEF AgentsOK, TransportTypes, Alone
<1> t \in Agent
  BY DEF Agent
<1>1. PICK e \in Endpoint : e = dst[t]
  BY DEF Pend, ObjectInv, UseInv
<1>2. /\ pc[t] = "pend" /\ dst' = dst /\ pc' = [pc EXCEPT ![t] = "woken"]
      /\ semaphore[e] > 0 /\ semaphore' = [semaphore EXCEPT ![e] = semaphore[e] - 1]
      /\ UNCHANGED <<object, messages, unblocked, heap>>
      /\ object[e] = "queue" /\ owner[e] = t
  BY <1>1 DEF Pend, ObjectInv, UseInv
<1>3. Alone(t) /\ pc'[t] = "woken"
  BY <1>2
<1>4. semaphore[e] \in Nat /\ \A f \in Endpoint : semaphore'[f] = IF f = e THEN semaphore[e] - 1
                                                                 ELSE semaphore[f]
  BY <1>2 DEF ObjectInv, ObjectTypes
<1>5. ObjectTypes'
  BY <1>2, <1>4 DEF ObjectInv, ObjectTypes
<1>6. UseInv'
  BY <1>1, <1>2, <1>3, <1>4 DEF ObjectInv, UseInv
<1>7. SemaphoreInv'
  <2> SUFFICES ASSUME NEW f \in Endpoint
               PROVE  /\ IsFiniteSet(Claims(f)')
                      /\ unblocked'[f] = "no" =>
                           semaphore'[f] + Cardinality(Claims(f)') = Len(messages'[f])
    BY DEF SemaphoreInv
  <2>1. /\ IsFiniteSet(Claims(f)') /\ Cardinality(Claims(f)) \in Nat
        /\ Cardinality(Claims(f)') = IF f = e THEN Cardinality(Claims(f)) + 1
                                     ELSE Cardinality(Claims(f))
    BY <1>1, <1>2, <1>3, CountClaims DEF Claiming, ObjectInv, SemaphoreInv
  <2>2. unblocked[f] = "no" => semaphore[f] + Cardinality(Claims(f)) = Len(messages[f])
    BY DEF ObjectInv, SemaphoreInv
  <2>3. semaphore[f] \in Nat
    BY DEF ObjectInv, ObjectTypes
  <2>4. UNCHANGED <<messages, unblocked>>
    BY <1>2
  <2>5. QED
    BY ONLY <1>4, f \in Endpoint, <2>1, <2>2, <2>3, <2>4
<1>8. HeapInv'
  <2>1. Queued' = Queued /\ Putters' = Putters
    BY <1>2, <1>3 DEF Queued, Putters
  <2>2. QED
    BY <1>2, <2>1 DEF ObjectInv, HeapInv
<1>9. QED
  BY <1>5, <1>6, <1>7, <1>8 DEF ObjectInv

\* The reader was let through: it takes a message, or learns that it is unblocked.
LEMMA WokenObject ==
  ASSUME AgentsOK, TransportTypes, ObjectInv, NEW t \in Thread, Woken(t)
  PROVE  ObjectInv'
<1> USE RPMessageAssumption DEF AgentsOK, TransportTypes, Alone
<1> t \in Agent
  BY DEF Agent
<1>1. PICK e \in Endpoint : e = dst[t]
  BY DEF Woken, ObjectInv, UseInv
<1>2. /\ pc[t] = "woken" /\ dst' = [dst EXCEPT ![t] = None] /\ pc' = [pc EXCEPT ![t] = "idle"]
      /\ UNCHANGED <<object, semaphore, unblocked>>
      /\ object[e] = "queue"
  BY <1>1 DEF Woken, Finish, ObjectInv, UseInv
<1>3. Alone(t) /\ pc'[t] = "idle"
  BY <1>2
<1>4. Putters' = Putters
  BY <1>2, <1>3 DEF Putters
\* Its claim is gone.
<1>5. ASSUME NEW f \in Endpoint
      PROVE  /\ IsFiniteSet(Claims(f)') /\ Cardinality(Claims(f)) \in Nat
             /\ Cardinality(Claims(f)') = IF f = e THEN Cardinality(Claims(f)) - 1
                                          ELSE Cardinality(Claims(f))
             /\ unblocked[f] = "no" => semaphore[f] + Cardinality(Claims(f)) = Len(messages[f])
             /\ semaphore[f] \in Nat
  <2>1. /\ IsFiniteSet(Claims(f)') /\ Cardinality(Claims(f)) \in Nat
        /\ Cardinality(Claims(f)') = IF f = e THEN Cardinality(Claims(f)) - 1
                                     ELSE Cardinality(Claims(f))
    BY <1>1, <1>2, <1>3, CountClaims DEF Claiming, ObjectInv, SemaphoreInv
  <2>2. QED
    BY <2>1 DEF ObjectInv, SemaphoreInv, ObjectTypes
<1>6. CASE unblocked[e] = "yes"
  <2>1. UNCHANGED <<messages, heap>>
    BY <1>1, <1>6 DEF Woken
  <2>2. ObjectTypes'
    BY <1>2, <2>1 DEF ObjectInv, ObjectTypes
  <2>3. UseInv'
    BY <1>2, <1>3, <2>1 DEF ObjectInv, UseInv
  <2>4. SemaphoreInv'
    <3> SUFFICES ASSUME NEW f \in Endpoint
                 PROVE  /\ IsFiniteSet(Claims(f)')
                        /\ unblocked'[f] = "no" =>
                             semaphore'[f] + Cardinality(Claims(f)') = Len(messages'[f])
      BY DEF SemaphoreInv
    <3>1. CASE f = e
      BY <1>2, <1>5, <1>6, <3>1
    <3>2. CASE f # e
      BY <1>2, <1>5, <2>1, <3>2
    <3>3. QED
      BY <3>1, <3>2
  <2>5. HeapInv'
    <3>1. Queued' = Queued
      BY <2>1 DEF Queued
    <3>2. QED
      BY <1>4, <2>1, <3>1 DEF ObjectInv, HeapInv
  <2>6. QED
    BY <2>2, <2>3, <2>4, <2>5 DEF ObjectInv
<1>7. CASE unblocked[e] # "yes"
  <2>1. /\ messages[e] # <<>> /\ messages' = [messages EXCEPT ![e] = Tail(messages[e])]
        /\ heap' = heap + 1
    BY <1>1, <1>7 DEF Woken
  <2>2. /\ messages' \in [Endpoint -> Seq(0 .. MaxSend)]
        /\ Len(messages'[e]) = Len(messages[e]) - 1 /\ Len(messages[e]) \in Nat
        /\ IsFiniteSet(Queued') /\ Cardinality(Queued') = Cardinality(Queued) - 1
        /\ Cardinality(Queued) \in Nat
    BY <2>1, CountTail DEF ObjectInv, HeapInv
  <2>3. \A f \in Endpoint : f # e => messages'[f] = messages[f]
    BY <2>1 DEF ObjectInv, ObjectTypes
  <2>4. ObjectTypes'
    BY <1>2, <2>1, <2>2 DEF ObjectInv, ObjectTypes
  <2>5. UseInv'
    BY <1>2, <1>3, <2>3, ZenonT(40) DEF ObjectInv, UseInv
  <2>6. SemaphoreInv'
    <3> SUFFICES ASSUME NEW f \in Endpoint
                 PROVE  /\ IsFiniteSet(Claims(f)')
                        /\ unblocked'[f] = "no" =>
                             semaphore'[f] + Cardinality(Claims(f)') = Len(messages'[f])
      BY DEF SemaphoreInv
    <3>1. UNCHANGED <<semaphore, unblocked>>
      BY <1>2
    <3>2. CASE f = e
      BY ONLY e \in Endpoint, <1>5, <2>2, <3>1, <3>2
    <3>3. CASE f # e
      BY ONLY f \in Endpoint, <1>5, <2>3, <3>1, <3>3
    <3>4. QED
      BY <3>2, <3>3
  <2>7. HeapInv'
    <3>1. Cardinality(Putters) \in Nat /\ heap \in Nat
      BY FS_CardinalityType DEF ObjectInv, HeapInv, ObjectTypes
    <3>2. QED
      BY <1>4, <2>1, <2>2, <3>1 DEF ObjectInv, HeapInv
  <2>8. QED
    BY <2>4, <2>5, <2>6, <2>7 DEF ObjectInv
<1>8. QED
  BY <1>6, <1>7

\* RPMessage_unblock: after it the queue is not counted any more.
LEMMA UnblockObject ==
  ASSUME AgentsOK, TransportTypes, ObjectInv, NEW t \in Thread, NEW e \in Endpoint,
         RPMessage_unblock(t, e)
  PROVE  ObjectInv'
<1> USE DEF AgentsOK, TransportTypes, Alone
<1> t \in Agent
  BY DEF Agent
<1>1. /\ pc[t] = "idle" /\ dst' = [dst EXCEPT ![t] = e] /\ pc' = [pc EXCEPT ![t] = "post"]
      /\ unblocked' = [unblocked EXCEPT ![e] = "yes"]
      /\ UNCHANGED <<object, semaphore, messages, heap>>
      /\ object[e] = "queue"
  BY DEF RPMessage_unblock
<1>2. Alone(t) /\ pc'[t] = "post" /\ dst'[t] = e
  BY <1>1
<1>3. ObjectTypes'
  BY <1>1 DEF ObjectInv, ObjectTypes
<1>4. UseInv'
  BY <1>1, <1>2 DEF ObjectInv, UseInv
<1>5. SemaphoreInv'
  <2> SUFFICES ASSUME NEW f \in Endpoint
               PROVE  /\ IsFiniteSet(Claims(f)')
                      /\ unblocked'[f] = "no" =>
                           semaphore'[f] + Cardinality(Claims(f)') = Len(messages'[f])
    BY DEF SemaphoreInv
  <2>1. /\ IsFiniteSet(Claims(f)')
        /\ f # e => Cardinality(Claims(f)') = Cardinality(Claims(f))
    BY <1>1, <1>2, CountClaims DEF Claiming, ObjectInv, SemaphoreInv
  <2>2. f # e => unblocked'[f] = unblocked[f]
    BY <1>1 DEF ObjectInv, ObjectTypes
  <2>3. f = e => unblocked'[f] = "yes"
    BY <1>1 DEF ObjectInv, ObjectTypes
  <2>4. QED
    BY <1>1, <2>1, <2>2, <2>3 DEF ObjectInv, SemaphoreInv
<1>6. HeapInv'
  <2>1. Queued' = Queued /\ Putters' = Putters
    BY <1>1, <1>2 DEF Queued, Putters
  <2>2. QED
    BY <1>1, <2>1 DEF ObjectInv, HeapInv
<1>7. QED
  BY <1>3, <1>4, <1>5, <1>6 DEF ObjectInv

\* An endpoint that nobody uses has no claims.
LEMMA Unclaimed ==
  ASSUME UseInv, NEW e \in Endpoint, object[e] # "queue"
  PROVE  /\ Claims(e) = {} /\ Cardinality(Claims(e)) = 0
         /\ messages[e] = <<>> /\ Len(messages[e]) = 0 /\ semaphore[e] = 0
<1>1. Claims(e) = {} /\ messages[e] = <<>> /\ semaphore[e] = 0
  BY DEF UseInv, Claims
<1>2. Cardinality({}) = 0
  BY FS_EmptySet
<1>3. QED
  BY <1>1, <1>2

\* RPMessage_create, and the end of RPMessage_delete: a fresh or a cleared slot.
LEMMA SlotObject ==
  ASSUME AgentsOK, TransportTypes, ObjectInv, NEW t \in Thread, NEW e \in Endpoint,
         \/ RPMessage_create(t, e)
         \/ NullSlot(t) /\ e = dst[t]
  PROVE  ObjectInv'
<1> USE RPMessageAssumption DEF AgentsOK, TransportTypes, Alone
<1> t \in Agent
  BY DEF Agent
<1>1. /\ pc[t] \in {"idle", "nullSlot"} /\ pc'[t] = "idle" /\ Alone(t)
      /\ unblocked' = [unblocked EXCEPT ![e] = "no"]
      /\ UNCHANGED <<messages, heap>>
      /\ semaphore' \in {semaphore, [semaphore EXCEPT ![e] = 0]}
      /\ \E o \in {"none", "queue", "callback"} : object' = [object EXCEPT ![e] = o]
      /\ object[e] \in {"none", "gone"}
  <2>1. CASE RPMessage_create(t, e)
    BY <2>1 DEF RPMessage_create, agentVars
  <2>2. CASE NullSlot(t) /\ e = dst[t]
    BY <2>2 DEF NullSlot, Finish, ObjectInv, UseInv
  <2>3. QED
    BY <2>1, <2>2
<1>2. /\ Claims(e) = {} /\ Cardinality(Claims(e)) = 0
      /\ messages[e] = <<>> /\ Len(messages[e]) = 0 /\ semaphore[e] = 0
  BY <1>1, Unclaimed DEF ObjectInv
<1>3. \A f \in Endpoint : semaphore'[f] = semaphore[f]
  BY <1>1, <1>2 DEF ObjectInv, ObjectTypes
<1>4. ObjectTypes'
  <2>1. semaphore' \in [Endpoint -> Nat]
    <3>1. semaphore \in [Endpoint -> Nat]
      BY DEF ObjectInv, ObjectTypes
    <3>2. [semaphore EXCEPT ![e] = 0] \in [Endpoint -> Nat]
      BY ONLY <3>1
    <3>3. QED
      BY ONLY <1>1, <3>1, <3>2
  <2>2. object' \in [Endpoint -> {"none", "queue", "callback", "gone"}]
    BY <1>1 DEF ObjectInv, ObjectTypes
  <2>3. QED
    BY <1>1, <2>1, <2>2 DEF ObjectInv, ObjectTypes
<1>5. UseInv'
  <2>1. \A f \in Endpoint : f # e => object'[f] = object[f]
    BY <1>1 DEF ObjectInv, ObjectTypes
  <2>2. ASSUME NEW a \in Agent, a # t
        PROVE  User(a)'
    <3>1. User(a) /\ pc'[a] = pc[a] /\ dst'[a] = dst[a]
      BY <1>1, <2>2 DEF ObjectInv, UseInv, User
    <3>2. pc[a] \in {"put", "post", "pend", "woken"} => dst[a] # e
      BY <1>1, <3>1 DEF User
    <3>3. pc[a] = "nullSlot" => dst[a] # e
      <4>1. CASE RPMessage_create(t, e)
        BY <3>1, <4>1 DEF RPMessage_create, User
      <4>2. CASE NullSlot(t) /\ e = dst[t]
        BY <2>2, <3>1, <4>2 DEF NullSlot, ObjectInv, UseInv, User
      <4>3. QED
        BY <4>1, <4>2
    <3>4. QED
      BY <2>1, <3>1, <3>2, <3>3 DEF User
  <2>3. User(t)'
    BY <1>1 DEF User
  <2>4. \A f \in Endpoint : object'[f] # "queue" => messages'[f] = <<>> /\ semaphore'[f] = 0
    BY <1>1, <1>2, <1>3, <2>1 DEF ObjectInv, UseInv
  <2>5. QED
    BY <2>2, <2>3, <2>4 DEF UseInv, User
<1>6. SemaphoreInv'
  <2> SUFFICES ASSUME NEW f \in Endpoint
               PROVE  /\ IsFiniteSet(Claims(f)')
                      /\ unblocked'[f] = "no" =>
                           semaphore'[f] + Cardinality(Claims(f)') = Len(messages'[f])
    BY DEF SemaphoreInv
  <2>1. Claims(f)' = Claims(f)
    BY <1>1 DEF Claims
  <2>2. IsFiniteSet(Claims(f))
    BY DEF ObjectInv, SemaphoreInv
  <2>3. CASE f = e
    <3>1. semaphore'[f] = 0 /\ Cardinality(Claims(f)') = 0 /\ Len(messages'[f]) = 0
      BY <1>1, <1>2, <1>3, <2>1, <2>3
    <3>2. QED
      BY <2>1, <2>2, <3>1
  <2>4. CASE f # e
    <3>1. unblocked'[f] = unblocked[f]
      BY <1>1, <2>4 DEF ObjectInv, ObjectTypes
    <3>2. QED
      BY <1>1, <1>3, <2>1, <2>2, <3>1 DEF ObjectInv, SemaphoreInv
  <2>5. QED
    BY <2>3, <2>4
<1>7. HeapInv'
  <2>1. Queued' = Queued /\ Putters' = Putters
    BY <1>1 DEF Queued, Putters
  <2>2. QED
    BY <1>1, <2>1 DEF ObjectInv, HeapInv
<1>8. QED
  BY <1>4, <1>5, <1>6, <1>7 DEF ObjectInv

\* RPMessage_delete gives the blocks of the queue back.
LEMMA DeleteObject ==
  ASSUME AgentsOK, TransportTypes, ObjectInv, NEW t \in Thread, NEW e \in Endpoint,
         RPMessage_delete(t, e)
  PROVE  ObjectInv'
<1> USE DEF AgentsOK, TransportTypes, Alone
<1> t \in Agent
  BY DEF Agent
<1>1. /\ pc[t] = "idle" /\ owner[e] = t
      /\ dst' = [dst EXCEPT ![t] = e] /\ pc' = [pc EXCEPT ![t] = "nullSlot"]
      /\ object' = [object EXCEPT ![e] = "gone"]
      /\ semaphore' = [semaphore EXCEPT ![e] = 0]
      /\ messages' = [messages EXCEPT ![e] = <<>>]
      /\ heap' = heap + Len(messages[e])
      /\ unblocked' = unblocked
  BY DEF RPMessage_delete
<1>2. Alone(t) /\ pc'[t] = "nullSlot" /\ dst'[t] = e
  BY <1>1
<1>3. \A a \in Agent : pc[a] \in {"lookup", "put", "post", "pend", "woken"} => dst[a] # e
  BY <1>1 DEF RPMessage_delete, InUse, ObjectInv, UseInv
<1>4. /\ messages' \in [Endpoint -> Seq(0 .. MaxSend)]
      /\ messages'[e] = <<>> /\ Len(messages[e]) \in Nat
      /\ IsFiniteSet(Queued')
      /\ Cardinality(Queued') + Len(messages[e]) = Cardinality(Queued)
      /\ Cardinality(Queued') \in Nat
  BY <1>1, CountNone DEF ObjectInv, HeapInv
<1>5. /\ object'[e] = "gone" /\ semaphore'[e] = 0
      /\ \A f \in Endpoint : f # e => /\ object'[f] = object[f] /\ semaphore'[f] = semaphore[f]
                                     /\ messages'[f] = messages[f]
  BY <1>1 DEF ObjectInv, ObjectTypes
<1>6. ObjectTypes'
  BY <1>1, <1>4 DEF ObjectInv, ObjectTypes
<1>7. UseInv'
  <2>1. ASSUME NEW a \in Agent, a # t
        PROVE  User(a)'
    <3>1. User(a) /\ pc'[a] = pc[a] /\ dst'[a] = dst[a]
      BY <1>2, <2>1 DEF ObjectInv, UseInv, User
    <3>2. pc[a] = "nullSlot" => dst[a] # e
      BY <1>1, <2>1, <3>1 DEF User
    <3>3. QED
      BY <1>3, <1>5, <3>1, <3>2 DEF User
  <2>2. User(t)'
    BY <1>1, <1>2, <1>5 DEF User
  <2>3. \A f \in Endpoint : object'[f] # "queue" => messages'[f] = <<>> /\ semaphore'[f] = 0
    BY <1>4, <1>5 DEF ObjectInv, UseInv
  <2>4. QED
    BY <2>1, <2>2, <2>3 DEF UseInv, User
<1>8. SemaphoreInv'
  <2> SUFFICES ASSUME NEW f \in Endpoint
               PROVE  /\ IsFiniteSet(Claims(f)')
                      /\ unblocked'[f] = "no" =>
                           semaphore'[f] + Cardinality(Claims(f)') = Len(messages'[f])
    BY DEF SemaphoreInv
  <2>1. Claims(f)' = Claims(f)
    BY <1>1, <1>2 DEF Claims
  <2>2. CASE f = e
    <3>1. Claims(f)' = {}
      BY <1>3, <2>1, <2>2 DEF Claims
    <3>2. IsFiniteSet({}) /\ Cardinality({}) = 0
      BY FS_EmptySet
    <3>3. Len(messages'[f]) = 0 /\ semaphore'[f] = 0
      BY <1>4, <1>5, <2>2
    <3>4. IsFiniteSet(Claims(f)') /\ Cardinality(Claims(f)') = 0
      BY <3>1, <3>2
    <3>5. QED
      BY <3>3, <3>4
  <2>3. CASE f # e
    BY <1>1, <1>5, <2>1, <2>3 DEF ObjectInv, SemaphoreInv
  <2>4. QED
    BY <2>2, <2>3
<1>9. HeapInv'
  <2>1. Putters' = Putters
    BY <1>1, <1>2 DEF Putters
  <2>2. Cardinality(Putters) \in Nat /\ heap \in Nat
    BY FS_CardinalityType DEF ObjectInv, HeapInv, ObjectTypes
  <2>3. QED
    BY <1>1, <1>4, <2>1, <2>2 DEF ObjectInv, HeapInv
<1>10. QED
  BY <1>6, <1>7, <1>8, <1>9 DEF ObjectInv

LEMMA ObjectStep ==
  ASSUME VringsOK, AgentsOK, TransportTypes, HandsInv, ObjectInv, Next
  PROVE  ObjectInv'
<1>1. ASSUME NEW t \in Thread, ThreadStep(t)
      PROVE  ObjectInv'
  <2>1. CASE \/ \E e \in sends[t] : RPMessage_send(t, e)
             \/ \E e \in Endpoint : RPMessage_recv(t, e)
             \/ Starved(t) \/ Timeout(t)
    BY <2>1, CallObject
  <2>2. CASE \E e \in Endpoint : \/ RPMessage_create(t, e) \/ RPMessage_unblock(t, e)
                                 \/ RPMessage_delete(t, e)
    BY <2>2, SlotObject, UnblockObject, DeleteObject
  <2>3. CASE NullSlot(t)
    <3>1. PICK e \in Endpoint : e = dst[t]
      BY <2>3 DEF NullSlot, ObjectInv, UseInv, Agent
    <3>2. QED
      BY <2>3, <3>1, SlotObject
  <2>4. CASE Pend(t) \/ Woken(t)
    BY <2>4, PendObject, WokenObject
  <2>5. QED
    BY ONLY <1>1, <2>1, <2>2, <2>3, <2>4 DEF ThreadStep
<1>2. ASSUME NEW a \in Agent, Lookup(a) \/ Put(a) \/ Post(a)
      PROVE  ObjectInv'
  BY <1>2, LookupObject, PutObject, PostObject
<1>3. ASSUME NEW a \in Agent, GetAvailBuf(a) \/ Look(a) \/ AddUsedBuf(a) \/ Kick(a)
      PROVE  ObjectInv'
  BY <1>3, RingObject
\* The rest moves no agent, or only the swi when it starts.
<1>4. ASSUME \/ VirtQueue_isr \/ RPMessage_swiFxn
             \/ UNCHANGED <<endpointVars, agentVars, transportVars>>
      PROVE  ObjectInv'
  <2>1. /\ UNCHANGED endpointVars /\ dst' = dst
        /\ \A b \in Agent : b # Swi => pc'[b] = pc[b]
        /\ pc'[Swi] = pc[Swi] \/ (pc[Swi] = "idle" /\ pc'[Swi] = "getAvailBuf")
    BY <1>4, RPMessageAssumption DEF VirtQueue_isr, RPMessage_swiFxn, agentVars, AgentsOK, Agent
  <2>2. Swi \in Agent /\ Alone(Swi)
    BY <2>1 DEF Alone, Agent
  <2>3. pc[Swi] \notin {"pend", "woken", "nullSlot"}
    BY DEF AgentsOK
  <2>4. CASE pc'[Swi] = pc[Swi]
    <3>1. \A b \in Agent : pc'[b] = pc[b] /\ dst'[b] = dst[b]
      BY <2>1, <2>4
    <3>2. ObjectTypes' /\ UseInv'
      BY <2>1, <3>1 DEF ObjectInv, ObjectTypes, UseInv, endpointVars
    <3>3. Queued' = Queued /\ Putters' = Putters /\ \A e \in Endpoint : Claims(e)' = Claims(e)
      BY <2>1, <3>1 DEF Queued, Putters, Claims, endpointVars
    <3>4. SemaphoreInv' /\ HeapInv'
      BY <2>1, <3>3 DEF ObjectInv, SemaphoreInv, HeapInv, endpointVars
    <3>5. QED
      BY <3>2, <3>4 DEF ObjectInv
  <2>5. CASE pc[Swi] = "idle" /\ pc'[Swi] = "getAvailBuf"
    <3>1. User(Swi)'
      BY <2>5 DEF User
    <3>2. QED
      BY ONLY ObjectInv, <2>1, <2>2, <2>5, <3>1, ObjectStay
  <2>6. QED
    BY <2>1, <2>4, <2>5
<1>5. QED
  BY ONLY Steps, Next, <1>1, <1>2, <1>3, <1>4 DEF Quiet, Deliver, Agent

-----------------------------------------------------------------------------
\* The types of what the agents and the transport carry.
Carried == item \in [Agent -> 0 .. MaxSend] /\ dst \in [Agent -> Endpoint \cup {None}]
Transported ==
  /\ Len(mailbox) <= MailboxSize
  /\ data \in [Buffer -> Message \cup {None}] /\ count \in 0 .. MaxSend
Flags == toHost \in {0, 1} /\ posted \in {"no", "yes"} /\ usedBufAdded \in {"no", "yes"}

LEMMA FinishCarried ==
  ASSUME TransportTypes, NEW a \in Agent, NEW label, Finish(a, label)
  PROVE  Carried'
<1> USE VirtQueueAssumption DEF Carried, TransportTypes
<1>1. CASE UNCHANGED <<item, dst>>
  BY <1>1
<1>2. CASE item' = [item EXCEPT ![a] = 0] /\ dst' = [dst EXCEPT ![a] = None]
  <2>1. 0 \in 0 .. MaxSend /\ None \in Endpoint \cup {None}
    OBVIOUS
  <2>2. QED
    BY <1>2, <2>1
<1>3. QED
  BY <1>1, <1>2 DEF Finish

\* Only an agent that begins to send, to read or to delete, or that has finished,
\* changes what it carries.
LEMMA CarriedStep ==
  ASSUME VringsOK, AgentsOK, HandsInv, TransportTypes, Next
  PROVE  Carried'
<1> USE RPMessageAssumption, VirtQueueAssumption DEF Carried, TransportTypes
<1>0. 0 \in 0 .. MaxSend
  OBVIOUS
<1>1. ASSUME NEW t \in Thread, Quiet(t)
      PROVE  Carried'
  <2>1. CASE \E e \in sends[t] : RPMessage_send(t, e)
    <3>1. PICK e \in Endpoint \cup {None} :
            dst' = [dst EXCEPT ![t] = e] /\ item' = [item EXCEPT ![t] = 0]
      BY <2>1 DEF RPMessage_send
    <3>2. QED
      BY <1>0, <3>1
  <2>2. CASE \E e \in Endpoint : \/ RPMessage_create(t, e) \/ RPMessage_recv(t, e)
                                 \/ RPMessage_unblock(t, e) \/ RPMessage_delete(t, e)
    BY <2>2 DEF RPMessage_create, RPMessage_recv, RPMessage_unblock, RPMessage_delete, agentVars
  <2>3. CASE Starved(t) \/ Pend(t) \/ Put(t)
    BY <2>3 DEF Starved, Pend, Put
  <2>4. CASE Timeout(t) \/ Woken(t) \/ NullSlot(t) \/ Lookup(t) \/ Post(t)
    <3>1. t \in Agent /\ \E label : Finish(t, label)
      BY <2>4 DEF Timeout, Woken, NullSlot, Lookup, Post, Agent
    <3>2. QED
      BY <3>1, FinishCarried
  <2>5. QED
    BY <1>1, <2>1, <2>2, <2>3, <2>4 DEF Quiet, ThreadStep
<1>2. ASSUME Deliver
      PROVE  Carried'
  <2>1. CASE Put(Swi)
    BY <2>1 DEF Put
  <2>2. CASE Lookup(Swi) \/ Post(Swi)
    <3>1. Swi \in Agent /\ \E label : Finish(Swi, label)
      BY <2>2 DEF Lookup, Post, Agent
    <3>2. QED
      BY <3>1, FinishCarried
  <2>3. QED
    BY <1>2, <2>1, <2>2 DEF Deliver
<1>3. ASSUME NEW a \in Agent, Look(a)
      PROVE  Carried'
  <2>1. CASE UNCHANGED <<item, dst>>
    BY <2>1
  <2>2. CASE a = Swi /\ avail["fromHost"] # <<>>
    <3>1. /\ item' = [item EXCEPT ![a] = data[Head(avail["fromHost"])].id]
          /\ dst' = [dst EXCEPT ![a] = data[Head(avail["fromHost"])].dst]
      BY <1>3, <2>2 DEF Look, Available, VringOf
    <3>2. avail["fromHost"] \in Seq(Buffer)
      BY DEF VringsOK, Vring
    <3>3. 1 \in DOMAIN avail["fromHost"] /\ Head(avail["fromHost"]) = avail["fromHost"][1]
      BY <2>2, <3>2
    <3>4. data[Head(avail["fromHost"])] \in Message
      BY <3>3 DEF HandsInv
    <3>5. /\ data[Head(avail["fromHost"])].id \in 0 .. MaxSend
          /\ data[Head(avail["fromHost"])].dst \in Endpoint
      BY <3>4 DEF Message
    <3>6. QED
      BY <3>1, <3>5
  <2>3. QED
    BY <1>3, <2>1, <2>2 DEF Look, Available, VringOf
<1>4. ASSUME NEW a \in Agent, GetAvailBuf(a) \/ AddUsedBuf(a) \/ Kick(a)
      PROVE  Carried'
  BY <1>4 DEF GetAvailBuf, AddUsedBuf, Kick
<1>5. ASSUME VirtQueue_isr \/ RPMessage_swiFxn \/ UNCHANGED agentVars
      PROVE  Carried'
  BY <1>5 DEF VirtQueue_isr, RPMessage_swiFxn, agentVars
<1>6. QED
  BY ONLY Steps, Next, <1>1, <1>2, <1>3, <1>4, <1>5

\* The mailbox does not overflow: the host waits for room in it.
LEMMA TransportedStep ==
  ASSUME VringsOK, AgentsOK, TransportTypes, Next
  PROVE  Transported'
<1> USE RPMessageAssumption, VirtQueueAssumption DEF Transported, TransportTypes
<1>1. CASE UNCHANGED <<mailbox, data, count>>
  BY <1>1
<1>2. ASSUME NEW a \in Agent, AddUsedBuf(a)
      PROVE  Transported'
  <2>1. mailbox' = mailbox /\ count' = count
    BY <1>2 DEF AddUsedBuf, hostVars
  <2>2. data' \in [Buffer -> Message \cup {None}]
    BY <1>2 DEF AddUsedBuf
  <2>3. QED
    BY <2>1, <2>2
<1>3. ASSUME VirtQueue_isr
      PROVE  Transported'
  <2>1. mailbox # <<>> /\ mailbox' = Tail(mailbox) /\ data' = data /\ count' = count
    BY <1>3 DEF VirtQueue_isr, hostVars
  <2>2. mailbox \in Seq(Vring)
    BY DEF VringsOK
  <2>3. Len(mailbox') <= MailboxSize
    BY <2>1, <2>2
  <2>4. QED
    BY <2>1, <2>3
<1>4. ASSUME NEW e \in Endpoint, HostSend(e)
      PROVE  Transported'
  <2>1. /\ mailbox' = mailbox /\ count < MaxSend /\ count' = count + 1
        /\ \E b \in Buffer : data' = [data EXCEPT ![b] = [dst |-> e, id |-> count + 1]]
    BY <1>4 DEF HostSend
  <2>2. [dst |-> e, id |-> count + 1] \in Message
    BY <2>1 DEF Message
  <2>3. data' \in [Buffer -> Message \cup {None}]
    BY <2>1, <2>2
  <2>4. count' \in 0 .. MaxSend
    BY <2>1
  <2>5. QED
    BY <2>1, <2>3, <2>4
<1>5. ASSUME NEW v \in Vring, HostKick(v)
      PROVE  Transported'
  <2>1. /\ data' = data /\ count' = count
        /\ mailbox' = mailbox \/ (Len(mailbox) < MailboxSize /\ mailbox' = Append(mailbox, v))
    BY <1>5 DEF HostKick
  <2>2. mailbox \in Seq(Vring)
    BY DEF VringsOK
  <2>3. Len(mailbox') <= MailboxSize
    BY <2>1, <2>2
  <2>4. QED
    BY <2>1, <2>3
<1>6. ASSUME HostStarved \/ HostRecheck \/ HostIsr \/ HostReceive \/ RPMessage_swiFxn
      PROVE  UNCHANGED <<mailbox, data, count>>
  BY <1>6 DEF HostStarved, HostRecheck, HostIsr, HostReceive, RPMessage_swiFxn, vqVars, hostVars
<1>7. ASSUME NEW a \in Agent, GetAvailBuf(a) \/ Look(a) \/ Kick(a)
      PROVE  UNCHANGED <<mailbox, data, count>>
  BY <1>7 DEF GetAvailBuf, Look, Kick, hostVars
<1>8. ASSUME (\E t \in Thread : Quiet(t)) \/ Deliver
      PROVE  UNCHANGED <<mailbox, data, count>>
  BY <1>8, QuietFrame, DeliverFrame DEF vqVars, hostVars
<1>9. QED
  BY ONLY Steps, Next, <1>1, <1>2, <1>3, <1>4, <1>5, <1>6, <1>7, <1>8

\* Every step but those of an interrupt, of a call and of the swi leaves the flags alone.
LEMMA FlagsStep ==
  ASSUME VringsOK, AgentsOK, TransportTypes, Next
  PROVE  Flags'
<1> USE RPMessageAssumption, VirtQueueAssumption
    DEF Flags, TransportTypes, transportVars, vqVars, endpointVars, agentVars
<1>1. ASSUME NEW t \in Thread, Quiet(t)
      PROVE  Flags'
  <2>1. UNCHANGED usedBufAdded /\ posted' \in {posted, "yes"}
    BY <1>1, QuietFrame
  <2>2. toHost' \in {toHost, 0}
    BY <1>1 DEF Quiet, ThreadStep, RPMessage_send, RPMessage_create, RPMessage_recv,
      RPMessage_unblock, RPMessage_delete, Starved, Pend, Timeout, Woken, NullSlot,
      Lookup, Put, Post
  <2>3. QED
    BY <2>1, <2>2
<1>2. ASSUME Deliver
      PROVE  Flags'
  BY <1>2, DeliverFrame
<1>3. ASSUME NEW a \in Agent, GetAvailBuf(a) \/ Look(a) \/ AddUsedBuf(a) \/ Kick(a)
      PROVE  Flags'
  BY <1>3 DEF GetAvailBuf, Look, AddUsedBuf, Kick
<1>4. ASSUME VirtQueue_isr \/ RPMessage_swiFxn \/ UNCHANGED transportVars
      PROVE  Flags'
  BY <1>4 DEF VirtQueue_isr, RPMessage_swiFxn, ToHostPosted
<1>5. QED
  BY ONLY Steps, Next, <1>1, <1>2, <1>3, <1>4

LEMMA TransportStep ==
  ASSUME VringsOK, AgentsOK, HandsInv, TransportTypes, Next
  PROVE  TransportTypes'
BY CarriedStep, TransportedStep, FlagsStep DEF Carried, Transported, Flags, TransportTypes

-----------------------------------------------------------------------------
\* What the accounts, taken together, say: Inv, with the bound of the heap.
AccountInv == VringsOK /\ AgentsOK /\ TransportTypes /\ BufferInv /\ ObjectInv

LEMMA InitAccount ==
  ASSUME Init
  PROVE  AccountInv
<1> USE RPMessageAssumption, VirtQueueAssumption DEF Init, VirtQueueInit, Agent, Vring
<1>1. VringsOK /\ AgentsOK
  BY InitIInv DEF IInv
<1>2. TransportTypes
  <2>1. 0 \in 0 .. MaxSend /\ Len(<<>>) <= MailboxSize
    OBVIOUS
  <2>2. QED
    BY <2>1 DEF TransportTypes
<1>3. BufferInv
  <2>1. \A b \in Buffer : InSeq(b, [c \in Buffer |-> c]) /\ ~InSeq(b, <<>>)
    BY DEF InSeq, Buffer
  <2>2. NoRepeat([c \in Buffer |-> c]) /\ NoRepeat(<<>>)
    BY DEF NoRepeat
  <2>3. \A b \in Buffer : b # None
    OBVIOUS
  <2>4. \A b \in Buffer, a \in Agent : token[a] # b
    BY <2>3
  <2>5. ASSUME NEW b \in Buffer
        PROVE  HeldBy("toHost", b, "avail", None)
    <3>1. /\ avail["toHost"] = [c \in Buffer |-> c] /\ used["toHost"] = <<>>
          /\ hostHas["toHost"] = {}
      OBVIOUS
    <3>2. QED
      BY <2>1, <2>4, <3>1 DEF HeldBy, Holds
  <2>6. ASSUME NEW b \in Buffer
        PROVE  HeldBy("fromHost", b, "host", None)
    <3>1. /\ avail["fromHost"] = <<>> /\ used["fromHost"] = <<>>
          /\ hostHas["fromHost"] = Buffer
      OBVIOUS
    <3>2. QED
      BY <2>1, <2>4, <3>1 DEF HeldBy, Holds
  <2>7. HeldOnce
    BY <2>5, <2>6 DEF HeldOnce
  <2>8. RingsInv
    BY <2>2 DEF RingsInv
  <2>9. HandsInv
    BY DEF HandsInv
  <2>10. QED
    BY <2>7, <2>8, <2>9 DEF BufferInv
<1>4. ObjectInv
  <2>1. IsFiniteSet({}) /\ Cardinality({}) = 0
    BY FS_EmptySet
  <2>2. Queued = {} /\ Putters = {} /\ \A e \in Endpoint : Claims(e) = {}
    BY DEF Queued, Putters, Claims
  <2>3. ObjectTypes
    BY DEF ObjectTypes
  <2>4. UseInv
    BY DEF UseInv
  <2>5. SemaphoreInv
    <3> SUFFICES ASSUME NEW e \in Endpoint
                 PROVE  IsFiniteSet(Claims(e)) /\ semaphore[e] + Cardinality(Claims(e)) = Len(messages[e])
      BY DEF SemaphoreInv
    <3>1. IsFiniteSet(Claims(e)) /\ Cardinality(Claims(e)) = 0
      BY <2>1, <2>2
    <3>2. semaphore[e] = 0 /\ messages[e] = <<>>
      OBVIOUS
    <3>3. Len(messages[e]) = 0
      BY <3>2
    <3>4. QED
      BY <3>1, <3>2, <3>3
  <2>6. HeapInv
    BY <2>1, <2>2 DEF HeapInv
  <2>7. QED
    BY <2>3, <2>4, <2>5, <2>6 DEF ObjectInv
<1>5. QED
  BY <1>1, <1>2, <1>3, <1>4 DEF AccountInv

\* The blocks in use leave no more than the others free.
LEMMA HeapBound ==
  ASSUME ObjectTypes, HeapInv
  PROVE  heap \in 0 .. HeapSize
<1>1. Cardinality(Queued) \in Nat /\ Cardinality(Putters) \in Nat
  BY FS_CardinalityType DEF HeapInv
<1>2. QED
  BY <1>1, RPMessageAssumption DEF ObjectTypes, HeapInv

LEMMA AccountTypes ==
  ASSUME AccountInv
  PROVE  EndpointsOK
BY HeapBound DEF AccountInv, EndpointsOK, ObjectTypes, TransportTypes, ObjectInv

LEMMA NextAccount ==
  ASSUME AccountInv, [Next]_vars
  PROVE  AccountInv'
<1>1. CASE Next
  BY <1>1, AccountTypes, TypeStep, TransportStep, BufferStep, ObjectStep
  DEF AccountInv, BufferInv
<1>2. CASE UNCHANGED vars
  <2> USE <1>2 DEF AccountInv, vars, vqVars, slaveVars, hostVars, endpointVars, agentVars,
        transportVars
  <2>1. VringsOK' /\ AgentsOK' /\ TransportTypes'
    BY DEF VringsOK, AgentsOK, TransportTypes
  <2>2. BufferInv'
    BY BufferStay
  <2>3. ObjectInv'
    <3>1. ObjectTypes' /\ UseInv'
      BY DEF ObjectInv, ObjectTypes, UseInv
    <3>2. Queued' = Queued /\ Putters' = Putters /\ \A e \in Endpoint : Claims(e)' = Claims(e)
      BY DEF Queued, Putters, Claims
    <3>3. QED
      BY <3>1, <3>2 DEF ObjectInv, SemaphoreInv, HeapInv
  <2>4. QED
    BY <2>1, <2>2, <2>3
<1>3. QED
  BY <1>1, <1>2

-----------------------------------------------------------------------------
\* What a ring holds after its first message is taken, and after one more is added.
LEMMA TailOrder ==
  ASSUME NEW S, NEW s \in Seq(S), s # <<>>
  PROVE  /\ Tail(s) \in Seq(S) /\ Len(Tail(s)) = Len(s) - 1
         /\ Head(s) = s[1]
         /\ \A i \in DOMAIN Tail(s) : i + 1 \in DOMAIN s /\ Tail(s)[i] = s[i + 1]
OBVIOUS

LEMMA AppendOrder ==
  ASSUME NEW S, NEW s \in Seq(S), NEW m \in S
  PROVE  /\ Append(s, m) \in Seq(S)
         /\ \A i \in DOMAIN Append(s, m) :
              \/ i \in DOMAIN s /\ Append(s, m)[i] = s[i]
              \/ i = Len(s) + 1 /\ Append(s, m)[i] = m
OBVIOUS

\* Messages that are taken off a queue leave the others in order.
LEMMA TailAscends ==
  ASSUME NEW s \in Seq(0 .. MaxSend), s # <<>>, Ascending(s)
  PROVE  Ascending(Tail(s))
<1>1. \A i \in DOMAIN Tail(s) : i \in Nat /\ i + 1 \in DOMAIN s /\ Tail(s)[i] = s[i + 1]
  BY TailOrder
<1>2. SUFFICES ASSUME NEW i \in DOMAIN Tail(s), NEW j \in DOMAIN Tail(s), i < j,
                      Tail(s)[j] # 0
               PROVE  Tail(s)[i] < Tail(s)[j]
  BY DEF Ascending
<1>3. /\ i \in Nat /\ i + 1 \in DOMAIN s /\ Tail(s)[i] = s[i + 1]
      /\ j \in Nat /\ j + 1 \in DOMAIN s /\ Tail(s)[j] = s[j + 1]
  BY <1>1
<1>4. i + 1 < j + 1
  BY <1>2, <1>3
<1>5. QED
  BY <1>2, <1>3, <1>4 DEF Ascending

\* A message of a thread, or one of the host that is newer than those in the queue.
LEMMA AppendAscends ==
  ASSUME NEW s \in Seq(0 .. MaxSend), NEW m \in 0 .. MaxSend, Ascending(s),
         m # 0 => \A i \in DOMAIN s : s[i] < m
  PROVE  Ascending(Append(s, m))
<1>1. SUFFICES ASSUME NEW i \in DOMAIN Append(s, m), NEW j \in DOMAIN Append(s, m), i < j,
                      Append(s, m)[j] # 0
               PROVE  Append(s, m)[i] < Append(s, m)[j]
  BY DEF Ascending
<1>2. DOMAIN s = 1 .. Len(s) /\ Len(s) \in Nat /\ i \in Nat /\ j \in Nat /\ j <= Len(s) + 1
  OBVIOUS
<1>3. \/ i \in DOMAIN s /\ Append(s, m)[i] = s[i]
      \/ i = Len(s) + 1 /\ Append(s, m)[i] = m
  BY AppendOrder
<1>4. \/ j \in DOMAIN s /\ Append(s, m)[j] = s[j]
      \/ j = Len(s) + 1 /\ Append(s, m)[j] = m
  BY AppendOrder
<1>5. i \in DOMAIN s /\ Append(s, m)[i] = s[i]
  BY <1>1, <1>2, <1>3
<1>6. QED
  BY <1>1, <1>4, <1>5 DEF Ascending

LEMMA InitOrder ==
  ASSUME Init
  PROVE  OrderInv
BY DEF Init, VirtQueueInit, OrderInv, RingOrder, QueueOrder, Ascending, Delivering, Agent, Vring

\* Steps that put nothing into the ring or a queue.
LEMMA OrderStay ==
  ASSUME OrderInv, TransportTypes, ObjectTypes, UNCHANGED count,
         avail'["fromHost"] = avail["fromHost"],
         \A i \in DOMAIN avail["fromHost"] :
           data'[avail["fromHost"][i]] = data[avail["fromHost"][i]],
         \A t \in Thread : item'[t] = item[t] \/ item'[t] = 0,
         Delivering' => Delivering /\ item'[Swi] = item[Swi],
         \A e \in Endpoint : \/ messages'[e] = messages[e]
                             \/ messages[e] # <<>> /\ messages'[e] = Tail(messages[e])
                             \/ messages'[e] = <<>>
  PROVE  OrderInv'
<1>1. \A i \in DOMAIN avail["fromHost"] : RingId(i)' = RingId(i)
  BY DEF RingId
<1>2. RingOrder'
  BY <1>1 DEF OrderInv, RingOrder
<1>3. ASSUME NEW e \in Endpoint
      PROVE  /\ Ascending(messages'[e])
             /\ \A k \in DOMAIN messages'[e] : \E l \in DOMAIN messages[e] :
                  messages'[e][k] = messages[e][l]
  <2>1. messages[e] \in Seq(0 .. MaxSend) /\ Ascending(messages[e])
    BY DEF ObjectTypes, OrderInv, QueueOrder
  <2>2. CASE messages'[e] = messages[e]
    BY <2>1, <2>2
  <2>3. CASE messages[e] # <<>> /\ messages'[e] = Tail(messages[e])
    BY <2>1, <2>3, TailOrder, TailAscends
  <2>4. CASE messages'[e] = <<>>
    BY <2>4 DEF Ascending
  <2>5. QED
    BY <2>2, <2>3, <2>4
<1>4. QueueOrder'
  BY <1>1, <1>3 DEF OrderInv, QueueOrder
<1>5. QED
  BY <1>2, <1>4 DEF OrderInv

\* VirtQueue_getAvailBuf: the swi takes the oldest message of the ring.
LEMMA LookOrder ==
  ASSUME AccountInv, OrderInv, NEW a \in Agent, Look(a)
  PROVE  OrderInv'
<1> DEFINE ring == avail["fromHost"]
<1> USE RPMessageAssumption
<1>1. /\ UNCHANGED <<data, messages, count>> /\ ring \in Seq(Buffer)
      /\ \A b \in Agent : b # a => pc'[b] = pc[b]
  BY LookFrame DEF AccountInv, VringsOK, Vring, Look, endpointVars, hostVars
<1>2. CASE a = Swi /\ ring # <<>>
  <2>1. /\ avail'["fromHost"] = Tail(ring) /\ pc'[Swi] = "lookup"
        /\ item' = [item EXCEPT ![Swi] = RingId(1)]
    <3>1. avail' = [avail EXCEPT !["fromHost"] = Tail(@)] /\ pc' = [pc EXCEPT ![Swi] = "lookup"]
      BY <1>2, Rings, LookFrame DEF AccountInv
    <3>2. item' = [item EXCEPT ![Swi] = data[Head(ring)].id]
      BY <1>2, Rings DEF Look, Available
    <3>3. Head(ring) = ring[1]
      BY <1>1, <1>2, TailOrder
    <3>4. QED
      BY <3>1, <3>2, <3>3 DEF AccountInv, VringsOK, AgentsOK, Vring, Agent, RingId
  <2>2. /\ \A i \in DOMAIN avail'["fromHost"] : /\ i \in Nat /\ i > 0 /\ i + 1 \in DOMAIN ring
                                                /\ RingId(i)' = RingId(i + 1)
        /\ 1 \in DOMAIN ring
    BY <1>1, <1>2, <2>1, TailOrder DEF RingId
  <2>3. item'[Swi] = RingId(1) /\ \A t \in Thread : item'[t] = 0
    BY <2>1 DEF OrderInv, AccountInv, TransportTypes, Agent
  <2>4. \A i, j \in DOMAIN ring : RingId(i) \in 1 .. count /\ (i < j => RingId(i) < RingId(j))
    BY DEF OrderInv, RingOrder
  <2>5. RingOrder'
    BY <1>1, <2>2, <2>3, <2>4 DEF RingOrder
  <2>6. QueueOrder'
    BY <1>1, <2>2, <2>3 DEF OrderInv, QueueOrder
  <2>7. QED
    BY <1>1, <2>2, <2>3, <2>4, <2>5, <2>6 DEF OrderInv
<1>3. CASE ~(a = Swi /\ ring # <<>>)
  <2>1. avail'["fromHost"] = ring
    BY <1>3, Rings, LookFrame DEF AccountInv, VringsOK, Agent, Vring
  <2>2. item' = item /\ (Delivering' => Delivering)
    BY <1>1, <1>3, Rings, LookFrame DEF Look, Available, AccountInv, AgentsOK, Agent, Delivering,
      SwiEnd
  <2>3. QED
    BY <1>1, <2>1, <2>2, OrderStay DEF AccountInv, ObjectInv
<1>4. QED
  BY <1>2, <1>3

\* The host sends the newest message.
LEMMA HostSendOrder ==
  ASSUME AccountInv, OrderInv, NEW e \in Endpoint, HostSend(e),
         UNCHANGED <<endpointVars, agentVars>>
  PROVE  OrderInv'
<1> DEFINE ring == avail["fromHost"]
<1>1. PICK n \in Buffer :
        /\ n \in hostHas["fromHost"] \/ (used["fromHost"] # <<>> /\ n = Head(used["fromHost"]))
        /\ data' = [data EXCEPT ![n] = [dst |-> e, id |-> count + 1]]
        /\ avail' = [avail EXCEPT !["fromHost"] = Append(@, n)]
  BY DEF HostSend
<1>2. /\ ring \in Seq(Buffer) /\ used["fromHost"] \in Seq(Buffer)
      /\ avail'["fromHost"] = Append(ring, n)
      /\ data \in [Buffer -> Message \cup {None}] /\ count \in 0 .. MaxSend
      /\ count' = count + 1 /\ UNCHANGED <<messages, pc, item>>
  BY <1>1 DEF AccountInv, VringsOK, Vring, TransportTypes, HostSend, endpointVars, agentVars
<1>3. \A i \in DOMAIN ring : ring[i] # n
  <2>1. Holds("host", None, "fromHost", n) \/ Holds("used", None, "fromHost", n)
    BY <1>1, <1>2, TailOrder DEF Holds, InSeq
  <2>2. ~Holds("avail", None, "fromHost", n)
    BY <2>1, OneHolder DEF AccountInv, BufferInv, Vring
  <2>3. QED
    BY <2>2 DEF Holds, InSeq
<1>4. \A i \in DOMAIN avail'["fromHost"] :
        \/ i \in DOMAIN ring /\ RingId(i)' = RingId(i)
        \/ i = Len(ring) + 1 /\ RingId(i)' = count + 1
  BY <1>1, <1>2, <1>3, AppendOrder DEF RingId
<1>5. DOMAIN ring = 1 .. Len(ring) /\ Len(ring) \in Nat /\ count \in Nat
  BY <1>2, VirtQueueAssumption
<1>6. \A i, j \in DOMAIN ring : RingId(i) \in 1 .. count /\ (i < j => RingId(i) < RingId(j))
  BY DEF OrderInv, RingOrder
<1>7. /\ Delivering => item[Swi] \in 1 .. count /\ \A i \in DOMAIN ring : item[Swi] < RingId(i)
      /\ Delivering' <=> Delivering
  BY <1>2 DEF OrderInv, RingOrder, Delivering
<1>8. RingOrder'
  BY <1>2, <1>4, <1>5, <1>6, <1>7 DEF RingOrder
<1>9. QueueOrder'
  <2> SUFFICES ASSUME NEW f \in Endpoint, NEW k \in DOMAIN messages[f]
               PROVE  /\ messages[f][k] <= count + 1
                      /\ Delivering => messages[f][k] < item[Swi]
                      /\ \A i \in DOMAIN avail'["fromHost"] : messages[f][k] < RingId(i)'
    BY <1>2, <1>7 DEF OrderInv, QueueOrder
  <2>1. /\ messages[f][k] \in Nat /\ messages[f][k] <= count
        /\ Delivering => messages[f][k] < item[Swi]
        /\ \A i \in DOMAIN ring : messages[f][k] < RingId(i)
    <3>1. messages[f] \in Seq(0 .. MaxSend)
      BY DEF AccountInv, ObjectInv, ObjectTypes
    <3>2. messages[f][k] \in Nat
      BY <3>1, VirtQueueAssumption
    <3>3. /\ messages[f][k] <= count
          /\ Delivering => messages[f][k] < item[Swi]
          /\ \A i \in DOMAIN ring : messages[f][k] < RingId(i)
      BY Zenon DEF OrderInv, QueueOrder
    <3>4. QED
      BY <3>2, <3>3
  <2>2. \A i \in DOMAIN avail'["fromHost"] : messages[f][k] < RingId(i)'
    <3> SUFFICES ASSUME NEW i \in DOMAIN avail'["fromHost"]
                 PROVE  messages[f][k] < RingId(i)'
      OBVIOUS
    <3>1. CASE i \in DOMAIN ring /\ RingId(i)' = RingId(i)
      BY <2>1, <3>1
    <3>2. CASE RingId(i)' = count + 1
      BY <1>5, <2>1, <3>2
    <3>3. QED
      BY <1>4, <3>1, <3>2
  <2>3. messages[f][k] <= count + 1
    BY <1>5, <2>1
  <2>4. QED
    BY <2>1, <2>2, <2>3
<1>10. QED
  BY <1>2, <1>5, <1>7, <1>8, <1>9 DEF OrderInv

\* List_put of the swi, with a message that is newer than those it has put, or of a
\* thread, with one that has no place in the order.
LEMMA PutOrder ==
  ASSUME AccountInv, OrderInv, NEW a \in Agent, Put(a)
  PROVE  OrderInv'
<1> DEFINE m == item[a]
           ring == avail["fromHost"]
<1> USE RPMessageAssumption
<1>1. PICK e \in Endpoint : e = dst[a]
  BY DEF Put, AccountInv, ObjectInv, UseInv
<1>2. /\ pc[a] = "put" /\ pc' = [pc EXCEPT ![a] = "post"] /\ pc \in [Agent -> Label]
      /\ UNCHANGED <<avail, data, count, item>> /\ m \in 0 .. MaxSend
      /\ messages' = [messages EXCEPT ![e] = Append(messages[e], m)]
      /\ messages \in [Endpoint -> Seq(0 .. MaxSend)] /\ count \in 0 .. MaxSend
  BY <1>1 DEF Put, AccountInv, AgentsOK, ObjectInv, ObjectTypes, TransportTypes, vqVars, slaveVars,
    hostVars
<1>3. /\ m <= count /\ \A i \in DOMAIN ring : m < RingId(i)
      /\ m # 0 => \A k \in DOMAIN messages[e] : messages[e][k] < m
      /\ Delivering' => Delivering /\ m < item[Swi]
  <2>1. CASE a = Swi
    <3>1. Delivering /\ ~Delivering'
      BY <1>2, <2>1 DEF Delivering
    <3>2. QED
      BY <2>1, <3>1 DEF OrderInv, RingOrder, QueueOrder
  <2>2. CASE a \in Thread
    <3>1. m = 0 /\ (Delivering' <=> Delivering)
      BY <1>2, <2>2 DEF OrderInv, Delivering, Agent
    <3>2. QED
      BY <1>2, <3>1 DEF OrderInv, RingOrder
  <2>3. QED
    BY <2>1, <2>2 DEF Agent
<1>4. /\ messages'[e] = Append(messages[e], m)
      /\ \A f \in Endpoint : f # e => messages'[f] = messages[f]
      /\ messages[e] \in Seq(0 .. MaxSend)
  BY <1>2
<1>5. \A i \in DOMAIN ring : RingId(i)' = RingId(i)
  BY <1>2 DEF RingId
<1>6. RingOrder'
  BY <1>2, <1>3, <1>5 DEF OrderInv, RingOrder
<1> HIDE DEF m
<1>7. QueueOrder'
  <2> SUFFICES ASSUME NEW f \in Endpoint
               PROVE  /\ Ascending(messages'[f])
                      /\ \A k \in DOMAIN messages'[f] :
                           /\ messages'[f][k] <= count
                           /\ Delivering' => messages'[f][k] < item[Swi]
                           /\ \A i \in DOMAIN ring : messages'[f][k] < RingId(i)
    BY <1>2, <1>5 DEF QueueOrder
  <2>1. CASE f = e
    <3>1. Ascending(messages'[e])
      BY <1>2, <1>3, <1>4, AppendAscends DEF OrderInv, QueueOrder
    <3>2. \A k \in DOMAIN messages'[e] :
            \/ k \in DOMAIN messages[e] /\ messages'[e][k] = messages[e][k]
            \/ messages'[e][k] = m
      BY <1>2, <1>4, AppendOrder
    <3>3. QED
      BY <1>3, <2>1, <3>1, <3>2 DEF OrderInv, QueueOrder
  <2>2. CASE f # e
    BY <1>3, <1>4, <2>2 DEF OrderInv, QueueOrder
  <2>3. QED
    BY <2>1, <2>2
<1>8. QED
  BY <1>2, <1>3, <1>6, <1>7 DEF OrderInv

\* The calls of a thread, and the deliveries of the swi, that put nothing in a queue.
LEMMA CallOrder ==
  ASSUME AccountInv, OrderInv, (\E t \in Thread : Quiet(t) /\ ~Put(t)) \/ (Deliver /\ ~Put(Swi))
  PROVE  OrderInv'
<1> USE RPMessageAssumption
<1>1. ASSUME NEW t \in Thread, Quiet(t), ~Put(t)
      PROVE  OrderInv'
  <2> t \in Agent /\ t # Swi
    BY DEF Agent
  <2>1. UNCHANGED <<count, avail, data>> /\ pc'[Swi] = pc[Swi]
    BY <1>1, QuietFrame DEF AccountInv, Agent, vqVars, slaveVars, hostVars
  <2>2. \/ item' = item
        \/ item' = [item EXCEPT ![t] = 0]
    BY <1>1 DEF Quiet, ThreadStep, RPMessage_send, RPMessage_create, RPMessage_recv,
      RPMessage_unblock, RPMessage_delete, Starved, Pend, Timeout, Woken, NullSlot, Lookup, Post,
      Finish, agentVars
  <2>3. \/ messages' = messages
        \/ \E e \in Endpoint : messages' = [messages EXCEPT ![e] = <<>>]
        \/ messages[dst[t]] # <<>> /\ messages' = [messages EXCEPT ![dst[t]] = Tail(@)]
    BY <1>1 DEF Quiet, ThreadStep, RPMessage_send, RPMessage_create, RPMessage_recv,
      RPMessage_unblock, RPMessage_delete, Starved, Pend, Timeout, Woken, NullSlot, Lookup, Post,
      endpointVars
  <2>4. \A e \in Endpoint : \/ messages'[e] = messages[e]
                            \/ messages[e] # <<>> /\ messages'[e] = Tail(messages[e])
                            \/ messages'[e] = <<>>
    BY <2>3 DEF AccountInv, ObjectInv, ObjectTypes
  <2>5. /\ \A u \in Thread : item'[u] = item[u] \/ item'[u] = 0
        /\ Delivering' => Delivering /\ item'[Swi] = item[Swi]
    BY <2>1, <2>2 DEF AccountInv, TransportTypes, Delivering, Agent
  <2>6. QED
    BY <2>1, <2>4, <2>5, OrderStay DEF AccountInv, ObjectInv
<1>2. ASSUME Deliver, ~Put(Swi)
      PROVE  OrderInv'
  <2>1. UNCHANGED <<count, avail, data, messages>>
    BY <1>2, DeliverFrame DEF AccountInv, Deliver, Lookup, Post, vqVars, slaveVars, hostVars
  <2>2. \/ item' = item /\ (Delivering' => Delivering)
        \/ item' = [item EXCEPT ![Swi] = 0] /\ ~Delivering'
    BY <1>2, DeliverFrame DEF Deliver, Lookup, Post, Finish, Sent, Delivering, AccountInv, AgentsOK,
      Agent
  <2>3. /\ \A u \in Thread : item'[u] = item[u]
        /\ Delivering' => Delivering /\ item'[Swi] = item[Swi]
    BY <2>2 DEF AccountInv, TransportTypes, Agent
  <2>4. QED
    BY <2>1, <2>3, OrderStay DEF AccountInv, ObjectInv
<1>3. QED
  BY <1>1, <1>2

\* A buffer that the swi gives back is not in the ring of those to be looked at.
LEMMA AddUsedOrder ==
  ASSUME AccountInv, OrderInv, NEW a \in Agent, AddUsedBuf(a)
  PROVE  OrderInv'
<1> USE RPMessageAssumption
<1>1. /\ UNCHANGED <<count, avail, messages, item>> /\ pc[a] = "addUsedBuf"
      /\ data' = IF a = Swi THEN [data EXCEPT ![token[a]] = None] ELSE data
      /\ ~(Delivering' /\ ~Delivering)
  BY DEF AddUsedBuf, Delivering, AccountInv, AgentsOK, endpointVars, hostVars, Agent
<1>2. \A i \in DOMAIN avail["fromHost"] :
        data'[avail["fromHost"][i]] = data[avail["fromHost"][i]]
  <2>1. CASE a = Swi
    <3>1. token[a] \in Buffer
      BY <1>1 DEF AccountInv, AgentsOK
    <3>2. Holds("agent", a, "fromHost", token[a])
      BY <2>1, Rings DEF Holds
    <3>3. ~Holds("avail", None, "fromHost", token[a])
      BY <3>1, <3>2, OneHolder DEF AccountInv, BufferInv, Vring
    <3>4. \A i \in DOMAIN avail["fromHost"] : avail["fromHost"][i] # token[a]
      BY <3>3 DEF Holds, InSeq
    <3>5. QED
      BY <1>1, <3>4 DEF AccountInv, TransportTypes
  <2>2. CASE a # Swi
    BY <1>1, <2>2
  <2>3. QED
    BY <2>1, <2>2
<1>3. QED
  BY <1>1, <1>2, OrderStay DEF AccountInv, ObjectInv

LEMMA OrderStep ==
  ASSUME AccountInv, OrderInv, Next
  PROVE  OrderInv'
<1> USE RPMessageAssumption
<1>1. ASSUME NEW a \in Agent, GetAvailBuf(a) \/ Kick(a)
      PROVE  OrderInv'
  <2>1. UNCHANGED <<count, avail, data, messages, item>> /\ (Delivering' => Delivering)
    BY <1>1 DEF GetAvailBuf, Kick, Delivering, AccountInv, AgentsOK, Agent, endpointVars, hostVars,
      slaveVars
  <2>2. QED
    BY <2>1, OrderStay DEF AccountInv, ObjectInv
<1>2. ASSUME VirtQueue_isr \/ RPMessage_swiFxn
      PROVE  OrderInv'
  <2>1. UNCHANGED <<count, avail, data, messages, item>> /\ (Delivering' => Delivering)
    BY <1>2 DEF VirtQueue_isr, RPMessage_swiFxn, Delivering, AccountInv, AgentsOK, Agent,
      endpointVars, agentVars, hostVars, slaveVars, vqVars
  <2>2. QED
    BY <2>1, OrderStay DEF AccountInv, ObjectInv
<1>3. ASSUME (\E v \in Vring : HostKick(v)) \/ HostStarved \/ HostRecheck \/ HostIsr \/ HostReceive,
             UNCHANGED <<endpointVars, agentVars, transportVars>>
      PROVE  OrderInv'
  <2>1. UNCHANGED <<count, data, messages, item, pc>> /\ avail'["fromHost"] = avail["fromHost"]
    BY <1>3 DEF HostKick, HostStarved, HostRecheck, HostIsr, HostReceive, slaveVars,
      endpointVars, agentVars, AccountInv, VringsOK, Vring
  <2>2. QED
    BY <2>1, OrderStay DEF AccountInv, ObjectInv, Delivering
<1>4. ASSUME (\E t \in Thread : Quiet(t)) \/ Deliver
      PROVE  OrderInv'
  <2>1. CASE \E a \in Agent : Put(a)
    BY <2>1, PutOrder
  <2>2. CASE ~\E a \in Agent : Put(a)
    BY <1>4, <2>2, CallOrder DEF Agent
  <2>3. QED
    BY <2>1, <2>2
<1>5. QED
  BY Steps, <1>1, <1>2, <1>3, <1>4, LookOrder, AddUsedOrder, HostSendOrder

LEMMA NextOrder ==
  ASSUME AccountInv, OrderInv, [Next]_vars
  PROVE  OrderInv'
<1>1. CASE UNCHANGED vars
  <2>1. UNCHANGED <<count, avail, data, messages, item, pc>>
    BY <1>1 DEF vars, vqVars, slaveVars, hostVars, endpointVars, agentVars
  <2>2. QED
    BY <2>1, OrderStay DEF AccountInv, ObjectInv, Delivering
<1>2. QED
  BY <1>1, OrderStep

-----------------------------------------------------------------------------
\* One holder of a buffer is one place, in the words of BuffersAccounted.
LEMMA PlaceOfHeld ==
  ASSUME BufferInv, NEW v \in Vring, NEW b \in Buffer
  PROVE  \E c : BufferPlaces(v, b) = {c}
<1> DEFINE hosts == {<<"host", x>> : x \in hostHas[v] \cap {b}}
           avails == {<<"avail", i>> : i \in {j \in DOMAIN avail[v] : avail[v][j] = b}}
           useds == {<<"used", i>> : i \in {j \in DOMAIN used[v] : used[v][j] = b}}
           agents == {<<"agent", a>> : a \in {c \in Agent : VringOf(c) = v /\ token[c] = b}}
<1>1. BufferPlaces(v, b) = hosts \cup avails \cup useds \cup agents
  BY DEF BufferPlaces
<1>2. PICK kind, x : HeldBy(v, b, kind, x)
  BY DEF BufferInv, HeldOnce
<1>3. Holds(kind, x, v, b) /\ \A l, y : Holds(l, y, v, b) => l = kind /\ y = x
  BY <1>2 DEF HeldBy
<1>4. /\ kind # "host" => hosts = {}
      /\ kind # "avail" => avails = {}
      /\ kind # "used" => useds = {}
      /\ kind # "agent" => agents = {}
  BY <1>3 DEF Holds, InSeq
<1>5. CASE kind = "host"
  <2>1. hosts = {<<"host", b>>}
    BY <1>3, <1>5 DEF Holds
  <2>2. QED
    BY <1>1, <1>4, <1>5, <2>1
<1>6. CASE kind = "avail"
  <2>1. PICK i \in DOMAIN avail[v] : avail[v][i] = b
    BY <1>3, <1>6 DEF Holds, InSeq
  <2>2. \A j \in DOMAIN avail[v] : avail[v][j] = b => j = i
    BY <2>1 DEF BufferInv, RingsInv, NoRepeat
  <2>3. avails = {<<"avail", i>>}
    BY <2>1, <2>2
  <2>4. QED
    BY <1>1, <1>4, <1>6, <2>3
<1>7. CASE kind = "used"
  <2>1. PICK i \in DOMAIN used[v] : used[v][i] = b
    BY <1>3, <1>7 DEF Holds, InSeq
  <2>2. \A j \in DOMAIN used[v] : used[v][j] = b => j = i
    BY <2>1 DEF BufferInv, RingsInv, NoRepeat
  <2>3. useds = {<<"used", i>>}
    BY <2>1, <2>2
  <2>4. QED
    BY <1>1, <1>4, <1>7, <2>3
<1>8. CASE kind = "agent"
  <2>1. agents = {<<"agent", x>>}
    BY <1>3, <1>8 DEF Holds
  <2>2. QED
    BY <1>1, <1>4, <1>8, <2>1
<1>9. QED
  BY <1>3, <1>5, <1>6, <1>7, <1>8 DEF Holds

LEMMA BuffersCounted ==
  ASSUME BufferInv
  PROVE  BuffersAccounted
<1> SUFFICES ASSUME NEW v \in Vring, NEW b \in Buffer
             PROVE  Cardinality(BufferPlaces(v, b)) = 1
  BY DEF BuffersAccounted
<1>1. PICK c : BufferPlaces(v, b) = {c}
  BY PlaceOfHeld
<1>2. Cardinality({c}) = 1
  BY FS_Singleton
<1>3. QED
  BY <1>1, <1>2

LEMMA HeapCounted ==
  ASSUME HeapInv
  PROVE  HeapAccounted
BY DEF HeapInv, HeapAccounted, Queued, Putters, At

\* A reader that was let through stands for a message of its queue.
LEMMA PayloadFound ==
  ASSUME ObjectInv
  PROVE  PayloadThere
<1> SUFFICES ASSUME NEW t \in Thread, pc[t] = "woken", unblocked[dst[t]] = "no"
             PROVE  messages[dst[t]] # <<>>
  BY DEF PayloadThere
<1>1. t \in Agent
  BY DEF Agent
<1>2. PICK e \in Endpoint : e = dst[t]
  BY <1>1 DEF ObjectInv, UseInv
<1>3. t \in Claims(e)
  BY <1>1, <1>2 DEF Claims
<1>4. IsFiniteSet(Claims(e)) /\ semaphore[e] + Cardinality(Claims(e)) = Len(messages[e])
  BY <1>2 DEF ObjectInv, SemaphoreInv
<1>5. Cardinality(Claims(e)) \in Nat /\ Cardinality(Claims(e)) # 0
  BY <1>3, <1>4, FS_CardinalityType, FS_EmptySet
<1>6. semaphore[e] \in Nat
  BY DEF ObjectInv, ObjectTypes
<1>7. Len(messages[e]) # 0
  BY <1>4, <1>5, <1>6
<1>8. Len(<<>>) = 0
  OBVIOUS
<1>9. QED
  BY <1>2, <1>7, <1>8

\* The wake-ups, the types, the buffers and the blocks of the heap: Inv, with what it
\* rests on, in every reachable state (RPMessage_send, RPMessage_recv,
\* RPMessage_unblock, RPMessage_delete and RPMessage_swiFxn in any order).
THEOREM InvHolds == Spec => []Inv
<1>1. Init => AccountInv /\ OrderInv
  BY InitAccount, InitOrder
<1>2. AccountInv /\ OrderInv /\ [Next]_vars => AccountInv' /\ OrderInv'
  BY NextAccount, NextOrder
<1>3. AccountInv /\ OrderInv /\ IInv => Inv
  BY AccountTypes, BuffersCounted, HeapCounted, PayloadFound
  DEF AccountInv, BufferInv, ObjectInv, Inv
<1>4. QED
  BY <1>1, <1>2, <1>3, IInvHolds, PTL DEF Spec

\* The messages of the host for one endpoint are read in the order in which it sent them:
\* from the ring, by way of the swi, to the queue (VirtQueue_getAvailBuf, List_put and
\* List_get in RPMessage.c).
THEOREM InOrderHolds == Spec => []InOrder
<1>1. Inv => InOrder
  BY DEF Inv, OrderInv, RingOrder, QueueOrder, InOrder
<1>2. QED
  BY <1>1, InvHolds, PTL

\* No buffer of a vring is lost or given twice (VirtQueue_getAvailBuf,
\* VirtQueue_addUsedBuf).
THEOREM BuffersAccountedHolds == Spec => []BuffersAccounted
<1>1. Inv => BuffersAccounted
  BY DEF Inv
<1>2. QED
  BY <1>1, InvHolds, PTL

\* RPMessage_delete and RPMessage_recv free each block of the heap once, and a block
\* that is not free holds a message (HeapBuf_alloc and HeapBuf_free in RPMessage.c).
THEOREM HeapAccountedHolds == Spec => []HeapAccounted
<1>1. Inv => HeapAccounted
  BY DEF Inv
<1>2. QED
  BY <1>1, InvHolds, PTL

\* The assertion of RPMessage_recv, "Assert_isTrue((payload), NULL)", does not fail.
THEOREM PayloadThereHolds == Spec => []PayloadThere
<1>1. Inv => PayloadThere
  BY DEF Inv
<1>2. QED
  BY <1>1, InvHolds, PTL

-----------------------------------------------------------------------------
\* One thread s sends to the host.  While it is about to sleep, or sleeps, the host
\* may interrupt, and an available buffer is under way to it.
ToldMailbox == \E i \in DOMAIN mailbox : mailbox[i] = "toHost"

SenderInv(s) ==
  /\ \A t \in Thread : pc[t] \in {"getAvailBuf", "look", "starved"} => t = s
  /\ pc[s] \in {"look", "starved"} => "toHost" \notin noNotify
  /\ pc[s] = "starved" /\ avail["toHost"] # <<>> =>
       host["toHost"] = "kick" \/ ToldMailbox \/ toHost = 1

\* A call makes its thread look for a buffer, or it does not touch the semaphore.
LEMMA QuietSender ==
  ASSUME AgentsOK, NEW t \in Thread, Quiet(t)
  PROVE  \/ pc[t] = "starved" /\ pc'[t] = "getAvailBuf"
         \/ /\ toHost' = toHost
            /\ \/ pc'[t] \notin {"getAvailBuf", "look", "starved"}
               \/ pc'[t] = "getAvailBuf" /\ None \in sends[t]
<1> USE RPMessageAssumption DEF AgentsOK, Agent, Label, endpointVars, agentVars,
      transportVars
<1>1. CASE \E e \in sends[t] : RPMessage_send(t, e)
  BY <1>1 DEF RPMessage_send
<1>2. CASE \E e \in Endpoint : \/ RPMessage_create(t, e) \/ RPMessage_recv(t, e)
                               \/ RPMessage_unblock(t, e) \/ RPMessage_delete(t, e)
  BY <1>2 DEF RPMessage_create, RPMessage_recv, RPMessage_unblock, RPMessage_delete
<1>3. CASE Starved(t)
  BY <1>3 DEF Starved
<1>4. CASE Pend(t) \/ Timeout(t) \/ Woken(t) \/ NullSlot(t)
  BY <1>4 DEF Pend, Timeout, Woken, NullSlot, Finish
<1>5. CASE Lookup(t) \/ Put(t) \/ Post(t)
  BY <1>5 DEF Lookup, Put, Post, Finish, Sent
<1>6. QED
  BY <1>1, <1>2, <1>3, <1>4, <1>5 DEF Quiet, ThreadStep

LEMMA SenderStep ==
  ASSUME VringsOK, AgentsOK, NEW s \in Thread, \A t \in Thread \ {s} : None \notin sends[t],
         SenderInv(s), Next
  PROVE  SenderInv(s)'
<1> USE RPMessageAssumption, Rings DEF slaveVars, hostVars, vqVars, endpointVars, agentVars,
      transportVars, SenderInv
<1> /\ "fromHost" \in Vring /\ "toHost" \in Vring /\ Swi \in Agent
    /\ \A t \in Thread : t \in Agent /\ t # Swi
  BY DEF Vring, Agent
<1>1. ASSUME NEW t \in Thread, Quiet(t)
      PROVE  SenderInv(s)'
  <2>1. /\ UNCHANGED <<avail, host, mailbox, noNotify>>
        /\ \A u \in Thread : u # t => pc'[u] = pc[u]
    BY <1>1, QuietFrame
  <2>2. ToldMailbox' <=> ToldMailbox
    BY <2>1 DEF ToldMailbox
  <2>3. QED
    BY <1>1, <2>1, <2>2, QuietSender
<1>2. ASSUME Deliver
      PROVE  SenderInv(s)'
  <2>1. /\ UNCHANGED <<avail, host, mailbox, noNotify, toHost>>
        /\ \A u \in Thread : pc'[u] = pc[u]
    BY <1>2, DeliverFrame
  <2>2. QED
    BY <2>1 DEF ToldMailbox
<1>3. ASSUME NEW a \in Agent, GetAvailBuf(a)
      PROVE  SenderInv(s)'
  <2>1. /\ noNotify' = noNotify \ {VringOf(a)} /\ pc' = [pc EXCEPT ![a] = "look"]
        /\ pc[a] = "getAvailBuf"
        /\ UNCHANGED <<avail, mailbox, host, toHost>>
    BY <1>3 DEF GetAvailBuf, EnableNotify
  <2>2. ToldMailbox' <=> ToldMailbox
    BY <2>1 DEF ToldMailbox
  <2>3. CASE a = Swi
    <3>1. \A t \in Thread : pc'[t] = pc[t]
      BY <2>1, <2>3
    <3>2. QED
      BY <2>1, <2>2, <3>1
  <2>4. CASE a \in Thread
    <3>1. a = s /\ "toHost" \notin noNotify'
      BY <2>1, <2>4
    <3>2. pc'[s] = "look" /\ \A t \in Thread : t # s => pc'[t] = pc[t]
      BY <2>1, <3>1 DEF AgentsOK
    <3>3. QED
      BY <3>1, <3>2
  <2>5. QED
    BY <2>3, <2>4 DEF Agent
<1>4. ASSUME NEW a \in Agent, Look(a)
      PROVE  SenderInv(s)'
  <2>1. /\ UNCHANGED <<mailbox, host, toHost>> /\ pc[a] = "look"
        /\ \A b \in Agent : b # a => pc'[b] = pc[b]
    BY <1>4, LookFrame
  <2>2. ToldMailbox' <=> ToldMailbox
    BY <2>1 DEF ToldMailbox
  <2>3. CASE a = Swi
    <3>1. /\ \/ avail' = [avail EXCEPT !["fromHost"] = Tail(avail["fromHost"])]
             \/ avail' = avail
          /\ noNotify' \in {noNotify, noNotify \cup {"fromHost"}}
      BY <1>4, <2>3, LookFrame
    <3>2. avail'["toHost"] = avail["toHost"]
      BY <3>1 DEF VringsOK
    <3>3. \A t \in Thread : pc'[t] = pc[t]
      BY <2>1, <2>3
    <3>4. QED
      BY <2>1, <2>2, <3>1, <3>2, <3>3
  <2>4. CASE a \in Thread
    <3>1. a = s
      BY <2>1, <2>4
    <3>2. \/ pc'[s] = "addUsedBuf"
          \/ avail'["toHost"] = <<>> /\ noNotify' = noNotify /\ pc'[s] = "starved"
      BY <1>4, <3>1, LookFrame DEF AgentsOK
    <3>3. QED
      BY <2>1, <3>1, <3>2
  <2>5. QED
    BY <2>3, <2>4 DEF Agent
<1>5. ASSUME NEW a \in Agent, AddUsedBuf(a) \/ Kick(a)
      PROVE  SenderInv(s)'
  <2>1. /\ UNCHANGED <<avail, noNotify, mailbox, host, toHost>>
        /\ \A b \in Agent : b # a => pc'[b] = pc[b]
        /\ a \in Thread => pc'[a] \in {"kick", "idle"}
    BY <1>5 DEF AddUsedBuf, Kick, AgentsOK
  <2>2. QED
    BY <2>1 DEF ToldMailbox
<1>6. ASSUME VirtQueue_isr
      PROVE  SenderInv(s)'
  <2>1. /\ mailbox # <<>> /\ mailbox' = Tail(mailbox)
        /\ Head(mailbox) # "fromHost" => toHost' = 1
        /\ Head(mailbox) = "fromHost" => toHost' = toHost
        /\ UNCHANGED <<avail, noNotify, host, pc>>
    BY <1>6 DEF VirtQueue_isr, ToHostPosted
  <2>2. Head(mailbox) = "fromHost" /\ ToldMailbox =>
          \E i \in DOMAIN Tail(mailbox) : Tail(mailbox)[i] = "toHost"
    <3>1. mailbox \in Seq(Vring)
      BY DEF VringsOK
    <3>2. SUFFICES ASSUME NEW i \in DOMAIN mailbox, mailbox[i] = "toHost",
                          Head(mailbox) = "fromHost"
                   PROVE  \E j \in DOMAIN Tail(mailbox) : Tail(mailbox)[j] = mailbox[i]
      BY DEF ToldMailbox
    <3>3. mailbox[i] # Head(mailbox)
      BY <3>2
    <3>4. QED
      BY ONLY <3>1, <3>3, i \in DOMAIN mailbox, TailKeeps
  <2>3. Head(mailbox) = "fromHost" => (ToldMailbox => ToldMailbox')
    BY <2>1, <2>2 DEF ToldMailbox
  <2>4. QED
    BY <2>1, <2>3
<1>7. ASSUME RPMessage_swiFxn
      PROVE  SenderInv(s)'
  <2>1. /\ UNCHANGED <<avail, noNotify, mailbox, host, toHost>>
        /\ \A t \in Thread : pc'[t] = pc[t]
    BY <1>7 DEF RPMessage_swiFxn, AgentsOK
  <2>2. QED
    BY <2>1 DEF ToldMailbox
<1>8. ASSUME NEW e \in Endpoint, HostSend(e), UNCHANGED agentVars, UNCHANGED toHost
      PROVE  SenderInv(s)'
  <2>1. /\ \E b \in Buffer : avail' = [avail EXCEPT !["fromHost"] = Append(@, b)]
        /\ host' = [host EXCEPT !["fromHost"] = "kick"]
        /\ UNCHANGED <<noNotify, mailbox, pc>>
    BY <1>8 DEF HostSend
  <2>2. avail'["toHost"] = avail["toHost"] /\ host'["toHost"] = host["toHost"]
    BY <2>1 DEF VringsOK
  <2>3. QED
    BY <1>8, <2>1, <2>2 DEF ToldMailbox
<1>9. ASSUME NEW v \in Vring, HostKick(v), UNCHANGED agentVars, UNCHANGED toHost
      PROVE  SenderInv(s)'
  <2>1. host' = [host EXCEPT ![v] = "idle"] /\ UNCHANGED <<avail, noNotify, pc, toHost>>
    BY <1>9 DEF HostKick
  <2>2. v # "toHost" => host'["toHost"] = host["toHost"]
    BY <2>1 DEF VringsOK
  <2>3. /\ v = "toHost" /\ v \notin noNotify => ToldMailbox'
        /\ ToldMailbox => ToldMailbox'
    <3>1. CASE v \in noNotify
      BY <1>9, <3>1 DEF HostKick, ToldMailbox
    <3>2. CASE v \notin noNotify
      <4>1. mailbox' = Append(mailbox, v)
        BY <1>9, <3>2 DEF HostKick
      <4>2. /\ \E i \in DOMAIN Append(mailbox, v) : Append(mailbox, v)[i] = v
            /\ \A i \in DOMAIN mailbox : /\ i \in DOMAIN Append(mailbox, v)
                                         /\ Append(mailbox, v)[i] = mailbox[i]
        <5>1. mailbox \in Seq(Vring) /\ v \in Vring
          BY <1>9 DEF VringsOK
        <5>2. QED
          BY ONLY <5>1, AppendIn
      <4>3. QED
        BY <4>1, <4>2 DEF ToldMailbox
    <3>3. QED
      BY <3>1, <3>2
  <2>4. QED
    BY <2>1, <2>2, <2>3
<1>10. ASSUME HostStarved \/ HostRecheck \/ HostIsr, UNCHANGED agentVars, UNCHANGED toHost
       PROVE  SenderInv(s)'
  <2>1. /\ UNCHANGED <<avail, noNotify, mailbox, pc, toHost>>
        /\ host'["toHost"] = host["toHost"]
    BY <1>10 DEF HostStarved, HostRecheck, HostIsr, VringsOK
  <2>2. QED
    BY <2>1 DEF ToldMailbox
<1>11. ASSUME HostReceive, UNCHANGED agentVars, UNCHANGED toHost
       PROVE  SenderInv(s)'
  <2>1. host' = [host EXCEPT !["toHost"] = "kick"] /\ UNCHANGED <<noNotify, pc>>
    BY <1>11 DEF HostReceive
  <2>2. host'["toHost"] = "kick"
    BY <2>1 DEF VringsOK
  <2>3. QED
    BY <2>1, <2>2
<1>12. QED
  BY ONLY Steps, Next, <1>1, <1>2, <1>3, <1>4, <1>5, <1>6, <1>7, <1>8, <1>9, <1>10,
     <1>11 DEF agentVars, transportVars

\* If one thread sends to the host, it does not sleep in RPMessage_send next to an
\* available buffer (VirtQueue_getAvailBuf, callback_availBufReady, semHandle_toHost).
\* With two, semHandle_toHost wakes only one of them.
THEOREM SenderWokenHolds ==
  ASSUME NEW s \in Thread, \A t \in Thread \ {s} : None \notin sends[t]
  PROVE  Spec => []SenderWoken
<1>1. Init => SenderInv(s)
  BY DEF Init, VirtQueueInit, SenderInv, Agent
<1>2. IInv /\ SenderInv(s) /\ [Next]_vars => SenderInv(s)'
  <2>1. IInv /\ SenderInv(s) /\ Next => SenderInv(s)'
    BY SenderStep DEF IInv
  <2>2. SenderInv(s) /\ UNCHANGED vars => SenderInv(s)'
    BY DEF SenderInv, ToldMailbox, vars, vqVars, slaveVars, hostVars, agentVars, transportVars
  <2>3. QED
    BY <2>1, <2>2
<1>3. SenderInv(s) => SenderWoken
  BY DEF SenderInv, SenderWoken, ToldMailbox
<1>4. QED
  BY <1>1, <1>2, <1>3, IInvHolds, PTL DEF Spec
=============================================================================
