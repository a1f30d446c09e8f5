----------------------------- MODULE NameServer -----------------------------
(***************************************************************************)
(* packages/ti/sdo/utils/NameServer.c: the table of names that every       *)
(* processor keeps for one NameServer instance, with a fixed number of     *)
(* entries (numDynamic) and values of 32 bits.  A thread fills an entry    *)
(* between two critical sections of the module gate, a GateSwi, so that an *)
(* entry is on the free list, on the name list or in the hands of one      *)
(* thread.  The remote half of NameServer_get is NameServerRemoteNotify.   *)
(*                                                                         *)
(* Threads remove the names of KeyNames with the key that add returned and *)
(* all other names with NameServer_remove.                                 *)
(***************************************************************************)
EXTENDS Naturals, Sequences, FiniteSets

CONSTANTS
  Proc,       \* the two processors
  Thread,     \* threads of both
  procOf,     \* procOf[t]: the processor of thread t
  Name,       \* names
  Writer,     \* threads that add and remove names
  KeyNames,   \* the names that are removed with NameServer_removeEntry
  Value,      \* values
  numDynamic, \* how many entries the table of a processor has
  NULL

Entry == 1..numDynamic

ASSUME TableAssumption ==
  /\ numDynamic \in Nat
  /\ procOf \in [Thread -> Proc]
  /\ KeyNames \subseteq Name
  /\ NULL \notin Name \cup Value \cup Entry

VARIABLES
  nameList,   \* nameList[p]: the entries in use, in the order of the adds
  freeList,   \* freeList[p]: the others
  content,    \* content[p][e]: name and value of an entry; those of an entry
              \* on the free list are of no interest
  keys,       \* keys[p]: entries of KeyNames that nobody has begun to remove
  pc,         \* where each thread is
  name, value,\* arguments of its call
  hand        \* the entry that it took off a list

table == <<nameList, freeList, content, keys>>
call == <<pc, name, value, hand>>

NoContent == [name |-> NULL, value |-> NULL]

\* postInit puts every entry on the free list.
TableInit ==
  /\ nameList = [p \in Proc |-> <<>>]
  /\ freeList = [p \in Proc |-> [e \in Entry |-> e]]
  /\ content = [p \in Proc |-> [e \in Entry |-> NoContent]]
  /\ keys = [p \in Proc |-> {}]
  /\ pc = [t \in Thread |-> "idle"]
  /\ name = [t \in Thread |-> NULL]
  /\ value = [t \in Thread |-> NULL]
  /\ hand = [t \in Thread |-> NULL]

Goto(t, label) == pc' = [pc EXCEPT ![t] = label] /\ UNCHANGED <<name, value, hand>>

Return(t) ==
  /\ pc' = [pc EXCEPT ![t] = "idle"]
  /\ name' = [name EXCEPT ![t] = NULL]
  /\ value' = [value EXCEPT ![t] = NULL]
  /\ hand' = [hand EXCEPT ![t] = NULL]

-----------------------------------------------------------------------------
\* findLocal: the entries that have this name; the first one is found.
Matches(p, n) == {i \in DOMAIN nameList[p] : content[p][nameList[p][i]].name = n}
First(S) == CHOOSE i \in S : \A j \in S : i <= j
findLocal(p, n) == nameList[p][First(Matches(p, n))]

\* getLocal: the value of a name, or NULL for E_NOTFOUND.
getLocal(p, n) ==
  IF Matches(p, n) = {} THEN NULL ELSE content[p][findLocal(p, n)].value

\* List_remove of an entry that is on the list once.
Without(s, e) ==
  LET i == CHOOSE j \in DOMAIN s : s[j] = e IN
  [j \in 1..(Len(s) - 1) |-> IF j < i THEN s[j] ELSE s[j + 1]]

\* NameServer_add with checkExisting: under the gate, is the name there?  If
\* it is, the call returns NULL.
add(t, n, v) ==
  /\ pc[t] = "idle"
  /\ \/ /\ Matches(procOf[t], n) = {}
        /\ pc' = [pc EXCEPT ![t] = "addGet"]
        /\ name' = [name EXCEPT ![t] = n]
        /\ value' = [value EXCEPT ![t] = v]
        /\ UNCHANGED hand
     \/ Matches(procOf[t], n) # {} /\ UNCHANGED call
  /\ UNCHANGED table

\* List_get of the free list; E_maxReached if there is none.
AddGet(t) ==
  LET p == procOf[t] IN
  /\ pc[t] = "addGet"
  /\ \/ /\ freeList[p] = <<>>
        /\ Return(t)
        /\ UNCHANGED table
     \/ /\ freeList[p] # <<>>
        /\ hand' = [hand EXCEPT ![t] = Head(freeList[p])]
        /\ freeList' = [freeList EXCEPT ![p] = Tail(@)]
        /\ pc' = [pc EXCEPT ![t] = "addPut"]
        /\ UNCHANGED <<nameList, content, keys, name, value>>

\* The entry is filled in, which nobody sees, and put on the name list.
AddPut(t) ==
  LET p == procOf[t]
      e == hand[t]
  IN
  /\ pc[t] = "addPut"
  /\ content' = [content EXCEPT ![p][e] = [name |-> name[t], value |-> value[t]]]
  /\ nameList' = [nameList EXCEPT ![p] = Append(@, e)]
  /\ keys' = IF name[t] \in KeyNames THEN [keys EXCEPT ![p] = @ \cup {e}] ELSE keys
  /\ Return(t)
  /\ UNCHANGED freeList

\* NameServer_remove: the gate is kept while the entry moves to the free
\* list; E_INVALIDARG if the name is not there.
remove(t, n) ==
  LET p == procOf[t]
      e == findLocal(p, n)
  IN
  /\ pc[t] = "idle"
  /\ n \notin KeyNames
  /\ \/ /\ Matches(p, n) # {}
        /\ nameList' = [nameList EXCEPT ![p] = Without(@, e)]
        /\ freeList' = [freeList EXCEPT ![p] = Append(@, e)]
        /\ content' = [content EXCEPT ![p][e] = NoContent]
     \/ Matches(p, n) = {} /\ UNCHANGED <<nameList, freeList, content>>
  /\ UNCHANGED <<keys, call>>

\* NameServer_removeEntry: the entry leaves the name list under the gate ...
removeEntry(t, e) ==
  LET p == procOf[t] IN
  /\ pc[t] = "idle"
  /\ e \in keys[p]
  /\ keys' = [keys EXCEPT ![p] = @ \ {e}]
  /\ nameList' = [nameList EXCEPT ![p] = Without(@, e)]
  /\ hand' = [hand EXCEPT ![t] = e]
  /\ pc' = [pc EXCEPT ![t] = "removePut"]
  /\ UNCHANGED <<freeList, content, name, value>>

\* Mutant of RemovePut: the entry is not put on the free list.
RemovePutForgotten(t) ==
  /\ pc[t] = "removePut"
  /\ Return(t)
  /\ UNCHANGED table

\* ... and is put on the free list when the gate has been left.
RemovePut(t) ==
  LET p == procOf[t] IN
  /\ pc[t] = "removePut"
  /\ freeList' = [freeList EXCEPT ![p] = Append(@, hand[t])]
  /\ content' = [content EXCEPT ![p][hand[t]] = NoContent]
  /\ Return(t)
  /\ UNCHANGED <<nameList, keys>>

TableStep(t) == AddGet(t) \/ AddPut(t) \/ RemovePut(t)

TableCall(t) ==
  /\ t \in Writer
  /\ \/ \E n \in Name, v \in Value : add(t, n, v)
     \/ \E n \in Name : remove(t, n)
     \/ \E e \in Entry : removeEntry(t, e)

-----------------------------------------------------------------------------
TableTypeOK ==
  /\ nameList \in [Proc -> Seq(Entry)]
  /\ freeList \in [Proc -> Seq(Entry)]
  /\ content \in [Proc -> [Entry -> [name : Name \cup {NULL}, value : Value \cup {NULL}]]]
  /\ keys \in [Proc -> SUBSET Entry]
  /\ name \in [Thread -> Name \cup {NULL}]
  /\ value \in [Thread -> Value \cup {NULL}]
  /\ hand \in [Thread -> Entry \cup {NULL}]

\* An entry of the table is in exactly one place: on the name list, on the
\* free list or in the hands of one thread that adds or removes it, although
\* NameServer_add and removeLocal move it in two steps.  No entry is lost, so
\* numDynamic names always fit.
EntriesAccounted ==
  \A p \in Proc, e \in Entry :
    LET inNames == {i \in DOMAIN nameList[p] : nameList[p][i] = e}
        inFree == {i \in DOMAIN freeList[p] : freeList[p][i] = e}
        holders == {t \in Thread : procOf[t] = p /\ hand[t] = e}
    IN Cardinality(inNames) + Cardinality(inFree) + Cardinality(holders) = 1

\* The same with the place of an entry instead of counts, and what holds in the
\* middle of the calls: who has an entry in hand, and that an entry whose key
\* somebody still has is on the name list under the name that was added.
On(e, s) == \E i \in DOMAIN s : s[i] = e
NoRepeat(s) == \A i, j \in DOMAIN s : s[i] = s[j] => i = j
Has(t, p, e) == procOf[t] = p /\ hand[t] = e

PlaceInv ==
  \A p \in Proc, e \in Entry :
    /\ On(e, nameList[p]) \/ On(e, freeList[p]) \/ \E t \in Thread : Has(t, p, e)
    /\ ~(On(e, nameList[p]) /\ On(e, freeList[p]))
    /\ \A t \in Thread : Has(t, p, e) =>
         /\ ~On(e, nameList[p]) /\ ~On(e, freeList[p])
         /\ \A u \in Thread : Has(u, p, e) => u = t

ListsInv == \A p \in Proc : NoRepeat(nameList[p]) /\ NoRepeat(freeList[p])
HandInv == \A t \in Thread : hand[t] # NULL <=> pc[t] \in {"addPut", "removePut"}
KeysInv ==
  \A p \in Proc : \A e \in keys[p] :
    On(e, nameList[p]) /\ content[p][e].name \in KeyNames

TableInv == PlaceInv /\ ListsInv /\ HandInv /\ KeysInv

\* NameServer.h, checkExisting: a name is in a table once at most.
NamesUnique == \A p \in Proc, n \in Name : Cardinality(Matches(p, n)) <= 1
=============================================================================
