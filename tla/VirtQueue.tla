----------------------------- MODULE VirtQueue -----------------------------
(***************************************************************************)
(* packages/ti/ipc/family/vayu/VirtQueue.c: the two vrings between a slave *)
(* and the host.  The host makes buffers available and the slave gives     *)
(* them back used: on "toHost" the host offers empty buffers that the      *)
(* slave fills, on "fromHost" it offers filled ones that the slave         *)
(* empties.  Each side has a flag that asks the other one not to interrupt *)
(* it, and sets and clears it while the other one is running.              *)
(*                                                                         *)
(* The free-running indices of a vring are abstracted to the buffers that  *)
(* lie between them.  The host is external: the virtio driver that the     *)
(* comments of rpmsg/RPMessage.c and rpmsg/virtio_ring.h describe.         *)
(***************************************************************************)
EXTENDS Naturals, Sequences

CONSTANTS
  RingSize,    \* buffers of a vring
  MailboxSize, \* words in the mailbox of the slave
  MaxSend,     \* bound: messages from the host
  Endpoint,    \* endpoints of the slave
  None

Vring == {"toHost", "fromHost"}
Buffer == 1 .. RingSize

ASSUME VirtQueueAssumption ==
  RingSize \in Nat \ {0} /\ MailboxSize \in Nat \ {0} /\ MaxSend \in Nat

VARIABLES
  avail,       \* avail[v]: available buffers that the slave has not taken yet
  used,        \* used[v]: used buffers that the host has not taken yet
  noNotify,    \* vrings with VRING_USED_F_NO_NOTIFY in used->flags
  noInterrupt, \* vrings with VRING_AVAIL_F_NO_INTERRUPT in avail->flags
  mailbox,     \* interrupts for the slave: the vring of each
  hostKicked,  \* vrings with an interrupt for the host
  host,        \* host[v]: where the host is with vring v
  hostHas,     \* hostHas[v]: buffers in the hands of the host
  data,        \* data[b]: the message in buffer b from the host
  count        \* messages that the host has sent

slaveVars == <<avail, used, noNotify>>
hostVars == <<noInterrupt, host, hostHas, count>>
vqVars == <<slaveVars, mailbox, hostKicked, hostVars, data>>

Message == [dst : Endpoint, id : 1 .. MaxSend]

\* After VirtQueue_startup: the host has primed the vring that it receives on,
\* and asks for no interrupts about the one that it sends on.
VirtQueueInit ==
  /\ avail = [v \in Vring |-> IF v = "toHost" THEN [b \in Buffer |-> b] ELSE <<>>]
  /\ used = [v \in Vring |-> <<>>]
  /\ noNotify = {} /\ noInterrupt = {"fromHost"}
  /\ mailbox = <<>> /\ hostKicked = {}
  /\ host = [v \in Vring |-> "idle"]
  /\ hostHas = [v \in Vring |-> IF v = "toHost" THEN {} ELSE Buffer]
  /\ data = [b \in Buffer |-> None] /\ count = 0

HostAt(v, label) == host[v] = label
HostGoto(v, label) == host' = [host EXCEPT ![v] = label]

-----------------------------------------------------------------------------
(* The slave.  VirtQueue_getAvailBuf and VirtQueue_addUsedBuf run in the   *)
(* gate of the vring, with the interrupts of the slave off, but the host   *)
(* runs on between the two accesses of VirtQueue_getAvailBuf.              *)

\* Mutant of EnableNotify: the flag stays as it is.
EnableNotifyNot(v) == UNCHANGED noNotify

\* VirtQueue_getAvailBuf: "Clear flag here to avoid race condition".
EnableNotify(v) == noNotify' = noNotify \ {v}

\* Is there a buffer?  If so it is taken, and "no need to be kicked".
Available(v) == avail[v] # <<>>
TakeAvail(v) ==
  /\ avail' = [avail EXCEPT ![v] = Tail(@)]
  /\ noNotify' = noNotify \cup {v}

VirtQueue_addUsedBuf(v, b) == used' = [used EXCEPT ![v] = Append(@, b)]

VirtQueue_kick(v) ==
  hostKicked' = IF v \in noInterrupt THEN hostKicked ELSE hostKicked \cup {v}

-----------------------------------------------------------------------------
(* The host.                                                               *)

\* A message in a buffer of the host, or in one that the slave has given back;
\* the endpoint may or may not be there.
HostSend(e) ==
  LET mine == hostHas["fromHost"]
      back == used["fromHost"]
  IN
  /\ HostAt("fromHost", "idle") /\ count < MaxSend
  /\ \E b \in Buffer :
       /\ \/ /\ b \in mine
             /\ hostHas' = [hostHas EXCEPT !["fromHost"] = @ \ {b}]
             /\ UNCHANGED used
          \/ /\ mine = {} /\ back # <<>> /\ b = Head(back)
             /\ used' = [used EXCEPT !["fromHost"] = Tail(@)]
             /\ UNCHANGED hostHas
       /\ data' = [data EXCEPT ![b] = [dst |-> e, id |-> count + 1]]
       /\ avail' = [avail EXCEPT !["fromHost"] = Append(@, b)]
  /\ count' = count + 1
  /\ HostGoto("fromHost", "kick")
  /\ UNCHANGED <<noNotify, noInterrupt, mailbox, hostKicked>>

HostKick(v) ==
  /\ HostAt(v, "kick")
  /\ IF v \in noNotify THEN UNCHANGED mailbox
     ELSE Len(mailbox) < MailboxSize /\ mailbox' = Append(mailbox, v)
  /\ HostGoto(v, "idle")
  /\ UNCHANGED <<slaveVars, hostKicked, noInterrupt, hostHas, data, count>>

\* Out of buffers: the host asks for interrupts, looks again and waits.
HostStarved ==
  /\ HostAt("fromHost", "idle") /\ count < MaxSend
  /\ hostHas["fromHost"] = {} /\ used["fromHost"] = <<>>
  /\ noInterrupt' = noInterrupt \ {"fromHost"}
  /\ HostGoto("fromHost", "recheck")
  /\ UNCHANGED <<slaveVars, mailbox, hostKicked, hostHas, data, count>>

HostRecheck ==
  /\ HostAt("fromHost", "recheck")
  /\ IF used["fromHost"] = <<>>
     THEN HostGoto("fromHost", "wait") /\ UNCHANGED noInterrupt
     ELSE HostGoto("fromHost", "idle") /\ noInterrupt' = noInterrupt \cup {"fromHost"}
  /\ UNCHANGED <<slaveVars, mailbox, hostKicked, hostHas, data, count>>

\* The interrupt of the host about the buffers that it sends with.
HostIsr ==
  /\ "fromHost" \in hostKicked
  /\ hostKicked' = hostKicked \ {"fromHost"}
  /\ host' = IF HostAt("fromHost", "wait") THEN [host EXCEPT !["fromHost"] = "recheck"] ELSE host
  /\ UNCHANGED <<slaveVars, mailbox, noInterrupt, hostHas, data, count>>

\* The host receives: it takes the used buffers and offers them again.
HostReceive ==
  /\ HostAt("toHost", "idle") /\ "toHost" \in hostKicked
  /\ hostKicked' = hostKicked \ {"toHost"}
  /\ used' = [used EXCEPT !["toHost"] = <<>>]
  /\ avail' = [avail EXCEPT !["toHost"] = @ \o used["toHost"]]
  /\ HostGoto("toHost", "kick")
  /\ UNCHANGED <<noNotify, mailbox, noInterrupt, hostHas, data, count>>

-----------------------------------------------------------------------------
VringsOK ==
  /\ avail \in [Vring -> Seq(Buffer)] /\ used \in [Vring -> Seq(Buffer)]
  /\ hostHas \in [Vring -> SUBSET Buffer]
  /\ noNotify \subseteq Vring /\ noInterrupt \subseteq Vring
  /\ mailbox \in Seq(Vring) /\ hostKicked \subseteq Vring
  /\ host \in [Vring -> {"idle", "kick", "recheck", "wait"}]
=============================================================================
