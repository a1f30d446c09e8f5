------------------------------ MODULE IListMP -------------------------------
(***************************************************************************)
(* What packages/ti/ipc/ListMP.h promises of a list in shared memory: a    *)
(* sequence of elements that every processor changes atomically.  An       *)
(* element is on the list or belongs to the processor that took it off.    *)
(***************************************************************************)
EXTENDS Sequences, SequencesExt

CONSTANTS Proc, Elem, NULL

VARIABLES
  list,     \* the elements of the list
  owner,    \* owner[e]: the processor that has an element, or "list"
  result    \* what the last call has returned

vars == <<list, owner, result>>

Init ==
  /\ list = <<>>
  /\ owner \in [Elem -> Proc]
  /\ result = NULL

\* The element at position i of the list is taken off.
Take(p, i) ==
  /\ list' = RemoveAt(list, i)
  /\ owner' = [owner EXCEPT ![list[i]] = p]
  /\ result' = list[i]

GetNothing == list = <<>> /\ result' = NULL /\ UNCHANGED <<list, owner>>

getHead(p) == GetNothing \/ (list # <<>> /\ Take(p, 1))
getTail(p) == GetNothing \/ (list # <<>> /\ Take(p, Len(list)))
remove(p, e) == \E i \in DOMAIN list : list[i] = e /\ Take(p, i)

\* An element is put before position i of the list.
Put(p, e, i) ==
  /\ owner[e] = p
  /\ list' = InsertAt(list, i, e)
  /\ owner' = [owner EXCEPT ![e] = "list"]
  /\ result' = "SUCCESS"

putHead(p, e) == Put(p, e, 1)
putTail(p, e) == Put(p, e, Len(list) + 1)
insert(p, e, cur) == \E i \in DOMAIN list : list[i] = cur /\ Put(p, e, i)

\* Calls that look at the list.
Answer(a) == result' = a /\ UNCHANGED <<list, owner>>
empty == Answer(IF list = <<>> THEN "TRUE" ELSE "FALSE")
next ==
  \/ Answer(IF list = <<>> THEN NULL ELSE Head(list))
  \/ \E i \in DOMAIN list : Answer(IF i = Len(list) THEN NULL ELSE list[i + 1])
prev ==
  \/ Answer(IF list = <<>> THEN NULL ELSE Last(list))
  \/ \E i \in DOMAIN list : Answer(IF i = 1 THEN NULL ELSE list[i - 1])

Next ==
  \/ \E p \in Proc :
       \/ getHead(p) \/ getTail(p)
       \/ \E e \in Elem :
            \/ remove(p, e) \/ putHead(p, e) \/ putTail(p, e)
            \/ \E cur \in Elem : insert(p, e, cur)
  \/ empty \/ next \/ prev

Spec == Init /\ [][Next]_vars
=============================================================================
