-------------------------- MODULE NameServerProofs --------------------------
(***************************************************************************)
(* Proofs about NameServer and NameServerRemoteNotify, for any names,      *)
(* values, threads of two processors, size of the tables and number of     *)
(* timeouts.  First the lists of a table and what a lookup returns, then   *)
(* the table's own calls, then the way of a request and its answer.        *)
(***************************************************************************)
EXTENDS NameServerRemoteNotify, FiniteSetTheorems, WellFoundedInduction, TLAPS

\* The two processors.
LEMMA Others ==
  ASSUME NEW p \in Proc
  PROVE  /\ Other(p) \in Proc /\ Other(p) # p /\ Other(Other(p)) = p
         /\ \A q \in Proc : q # p => q = Other(p)
<1>1. PICK a, b \in Proc : a # b /\ Proc = {a, b}
  BY TimeoutAssumption
<1>2. \A q \in Proc : Other(q) \in Proc /\ Other(q) # q
  <2> SUFFICES ASSUME NEW q \in Proc PROVE Other(q) \in Proc /\ Other(q) # q
    OBVIOUS
  <2>1. \E r \in Proc : r # q
    BY <1>1
  <2> QED BY <2>1 DEF Other
<1> QED BY <1>1, <1>2

LEMMA Places == \A t \in Thread : procOf[t] \in Proc
BY TableAssumption

\* findLocal finds the first match.
LEMMA FirstIs ==
  ASSUME NEW S, S \subseteq Nat, S # {}
  PROVE  First(S) \in S
<1> DEFINE R == {ss \in Nat \X Nat : ss[1] < ss[2]}
<1>1. IsWellFoundedOn(R, Nat)
  BY NatLessThanWellFounded, Zenon DEF OpToRel
<1> HIDE DEF R
<1>2. \E x \in S : \A y \in S : ~(<<y, x>> \in R)
  BY <1>1, WFMin
<1>3. \A x, y \in S : ~(<<y, x>> \in R) => x <= y
  BY DEF R
<1> QED BY <1>2, <1>3 DEF First

LEMMA Found ==
  ASSUME TableTypeOK, NEW p \in Proc, NEW n, Matches(p, n) # {}
  PROVE  /\ findLocal(p, n) \in Entry /\ On(findLocal(p, n), nameList[p])
         /\ content[p][findLocal(p, n)].name = n
<1> DEFINE i == First(Matches(p, n))
<1>1. nameList[p] \in Seq(Entry)
  BY DEF TableTypeOK
<1>2. Matches(p, n) \subseteq Nat
  BY <1>1 DEF Matches
<1>3. i \in Matches(p, n)
  BY <1>2, FirstIs
<1> HIDE DEF i
<1>4. i \in DOMAIN nameList[p] /\ content[p][nameList[p][i]].name = n
  BY <1>3 DEF Matches
<1>5. findLocal(p, n) = nameList[p][i]
  BY DEF findLocal, i
<1> QED BY <1>1, <1>4, <1>5 DEF On

\* A lookup depends on the table alone.
LEMMA SameLookup ==
  ASSUME UNCHANGED <<nameList, content, name>>, NEW p, NEW t
  PROVE  getLocal(p, name[t])' = getLocal(p, name[t])
<1>1. Matches(p, name[t])' = Matches(p, name[t])
  BY DEF Matches
<1>2. findLocal(p, name[t])' = findLocal(p, name[t])
  BY <1>1 DEF findLocal
<1> QED BY <1>1, <1>2 DEF getLocal

LEMMA LookedUp ==
  ASSUME TableTypeOK, NEW p \in Proc, NEW n
  PROVE  getLocal(p, n) \in Value \cup {NULL}
<1>1. content[p] \in [Entry -> [name : Name \cup {NULL}, value : Value \cup {NULL}]]
  BY DEF TableTypeOK
<1> QED BY <1>1, Found DEF getLocal

-----------------------------------------------------------------------------
\* List_put, List_get and List_remove: what is on a list afterwards.
LEMMA AppendIs ==
  ASSUME NEW S, NEW s \in Seq(S), NEW e \in S, ~On(e, s), NoRepeat(s)
  PROVE  /\ Append(s, e) \in Seq(S) /\ NoRepeat(Append(s, e))
         /\ \A d : On(d, Append(s, e)) <=> On(d, s) \/ d = e
<1> DEFINE r == Append(s, e)
<1>1. /\ r \in Seq(S) /\ Len(s) \in Nat /\ DOMAIN s = 1..Len(s) /\ DOMAIN r = 1..(Len(s) + 1)
      /\ r[Len(s) + 1] = e /\ \A i \in 1..Len(s) : r[i] = s[i]
  OBVIOUS
<1> HIDE DEF r
<1>2. NoRepeat(r)
  BY <1>1 DEF NoRepeat, On
<1>3. ASSUME NEW d PROVE On(d, r) <=> On(d, s) \/ d = e
  BY <1>1 DEF On
<1> QED BY <1>1, <1>2, <1>3 DEF r

LEMMA TailIs ==
  ASSUME NEW S, NEW s \in Seq(S), s # <<>>, NoRepeat(s)
  PROVE  /\ Head(s) \in S /\ On(Head(s), s) /\ Tail(s) \in Seq(S) /\ NoRepeat(Tail(s))
         /\ \A d : On(d, Tail(s)) <=> On(d, s) /\ d # Head(s)
<1> DEFINE r == Tail(s)
<1>1. /\ r \in Seq(S) /\ Len(s) \in Nat \ {0} /\ DOMAIN s = 1..Len(s) /\ DOMAIN r = 1..(Len(s) - 1)
      /\ Head(s) = s[1] /\ \A i \in 1..(Len(s) - 1) : r[i] = s[i + 1]
  OBVIOUS
<1> HIDE DEF r
<1>2. NoRepeat(r)
  <2> SUFFICES ASSUME NEW i \in DOMAIN r, NEW j \in DOMAIN r, r[i] = r[j]
               PROVE  i = j
    BY DEF NoRepeat
  <2>1. i + 1 \in DOMAIN s /\ j + 1 \in DOMAIN s /\ s[i + 1] = s[j + 1]
    BY <1>1
  <2>2. i + 1 = j + 1
    BY <2>1 DEF NoRepeat
  <2> QED BY <1>1, <2>2
<1>3. ASSUME NEW d, On(d, r) PROVE On(d, s) /\ d # s[1]
  <2>1. PICK i \in DOMAIN r : r[i] = d
    BY <1>3 DEF On
  <2>2. i + 1 \in DOMAIN s /\ s[i + 1] = d /\ 1 \in DOMAIN s /\ i + 1 # 1
    BY <1>1, <2>1
  <2>3. s[i + 1] # s[1]
    BY <2>2 DEF NoRepeat
  <2> QED BY <2>2, <2>3 DEF On
<1>4. ASSUME NEW d, On(d, s), d # s[1] PROVE On(d, r)
  <2>1. PICK i \in 1..Len(s) : s[i] = d
    BY <1>1, <1>4 DEF On
  <2>2. i - 1 \in 1..(Len(s) - 1) /\ r[i - 1] = d
    BY <1>1, <1>4, <2>1
  <2> QED BY <1>1, <2>2 DEF On
<1>5. s[1] \in S /\ On(s[1], s)
  BY <1>1 DEF On
<1> QED BY <1>1, <1>2, <1>3, <1>4, <1>5 DEF r

LEMMA WithoutIs ==
  ASSUME NEW S, NEW s \in Seq(S), NEW e, On(e, s), NoRepeat(s)
  PROVE  /\ Without(s, e) \in Seq(S) /\ NoRepeat(Without(s, e))
         /\ \A d : On(d, Without(s, e)) <=> On(d, s) /\ d # e
<1> DEFINE k == CHOOSE j \in DOMAIN s : s[j] = e
           r == [j \in 1..(Len(s) - 1) |-> IF j < k THEN s[j] ELSE s[j + 1]]
<1>1. k \in DOMAIN s /\ s[k] = e /\ Without(s, e) = r
  BY DEF On, Without
<1> HIDE DEF k
<1>2. Len(s) \in Nat /\ DOMAIN s = 1..Len(s) /\ Len(s) - 1 \in Nat
  BY <1>1
<1>3. \A j \in 1..(Len(s) - 1) : r[j] \in S
  BY <1>2
<1>4. r \in Seq(S)
  BY ONLY <1>2, <1>3
<1>5. /\ DOMAIN r = 1..(Len(s) - 1)
      /\ \A j \in 1..(Len(s) - 1) : r[j] = IF j < k THEN s[j] ELSE s[j + 1]
  OBVIOUS
<1> HIDE DEF r
<1>6. NoRepeat(r)
  <2> SUFFICES ASSUME NEW i \in DOMAIN r, NEW j \in DOMAIN r, r[i] = r[j]
               PROVE  i = j
    BY DEF NoRepeat
  <2> DEFINE a == IF i < k THEN i ELSE i + 1
             b == IF j < k THEN j ELSE j + 1
  <2>1. a \in DOMAIN s /\ b \in DOMAIN s /\ s[a] = s[b]
    BY <1>2, <1>5
  <2>2. a = b
    BY <2>1 DEF NoRepeat
  <2> QED BY <1>1, <1>2, <1>5, <2>2
<1>7. ASSUME NEW d, On(d, r) PROVE On(d, s) /\ d # e
  <2>1. PICK j \in DOMAIN r : r[j] = d
    BY <1>7 DEF On
  <2> DEFINE a == IF j < k THEN j ELSE j + 1
  <2>2. a \in DOMAIN s /\ s[a] = d /\ a # k
    BY <1>1, <1>2, <1>5, <2>1
  <2> QED BY <1>1, <2>2 DEF On, NoRepeat
<1>8. ASSUME NEW d, On(d, s), d # e PROVE On(d, r)
  <2>1. PICK i \in DOMAIN s : s[i] = d
    BY <1>8 DEF On
  <2> DEFINE j == IF i < k THEN i ELSE i - 1
  <2>2. j \in DOMAIN r /\ r[j] = d
    BY <1>1, <1>2, <1>5, <1>8, <2>1
  <2> QED BY <2>2 DEF On
<1> QED BY <1>1, <1>4, <1>6, <1>7, <1>8

-----------------------------------------------------------------------------
\* The calls of a table.  Each moves one entry, or none, from a place to another.
Labels == {"idle", "addGet", "addPut", "removePut", "pendMulti", "write", "send", "wait", "read"}

TableOK == TableTypeOK /\ TableInv /\ pc \in [Thread -> Labels]

\* The places of the entries, by name: names, free list and hand.
InNames(q, d) == On(d, nameList[q])
InFree(q, d) == On(d, freeList[q])

Placed(q, d) ==
  /\ InNames(q, d) \/ InFree(q, d) \/ \E t \in Thread : Has(t, q, d)
  /\ ~(InNames(q, d) /\ InFree(q, d))
  /\ \A t \in Thread : Has(t, q, d) =>
       /\ ~InNames(q, d) /\ ~InFree(q, d)
       /\ \A u \in Thread : Has(u, q, d) => u = t

LEMMA PlaceIs ==
  /\ PlaceInv <=> \A q \in Proc, d \in Entry : Placed(q, d)
  /\ PlaceInv' <=> \A q \in Proc, d \in Entry : Placed(q, d)'
BY DEF PlaceInv, Placed, InNames, InFree

\* Steps that move no entry.
LEMMA TableStays ==
  ASSUME TableOK, UNCHANGED <<table, hand>>,
         \A t \in Thread : (pc[t] \in {"addPut", "removePut"}) <=> (pc'[t] \in {"addPut", "removePut"})
  PROVE  TableInv'
<1>1. nameList' = nameList /\ freeList' = freeList /\ content' = content /\ keys' = keys
  BY DEF table
<1>2. PlaceInv'
  BY <1>1 DEF TableOK, TableInv, PlaceInv, Has
<1>3. ListsInv' /\ HandInv' /\ KeysInv'
  BY <1>1 DEF TableOK, TableInv, ListsInv, HandInv, KeysInv
<1> QED BY <1>2, <1>3 DEF TableInv

\* Nobody holds an entry outside of add and removeEntry.
LEMMA EmptyHand ==
  ASSUME TableOK, NEW t \in Thread, pc[t] \notin {"addPut", "removePut"}
  PROVE  hand[t] = NULL /\ \A q, d : d \in Entry => ~Has(t, q, d)
BY TableAssumption DEF TableOK, TableInv, HandInv, Has

\* A thread in the middle of add or removeEntry has an entry that is nowhere else.
LEMMA FullHand ==
  ASSUME TableOK, NEW t \in Thread, pc[t] \in {"addPut", "removePut"}
  PROVE  /\ hand[t] \in Entry /\ Has(t, procOf[t], hand[t])
         /\ ~InNames(procOf[t], hand[t]) /\ ~InFree(procOf[t], hand[t])
<1>1. hand[t] # NULL /\ hand[t] \in Entry \cup {NULL}
  BY DEF TableOK, TableInv, HandInv, TableTypeOK
<1>2. Has(t, procOf[t], hand[t])
  BY DEF Has
<1> QED BY <1>1, <1>2, Places, PlaceIs DEF TableOK, TableInv, Placed

\* NULL instead of what t had in hand.
LEMMA ReturnIs ==
  ASSUME TableOK, NEW t \in Thread, Return(t)
  PROVE  /\ pc' \in [Thread -> Labels] /\ pc'[t] = "idle" /\ hand'[t] = NULL
         /\ \A u \in Thread : u # t => pc'[u] = pc[u] /\ hand'[u] = hand[u] /\ name'[u] = name[u]
         /\ name' \in [Thread -> Name \cup {NULL}] /\ value' \in [Thread -> Value \cup {NULL}]
         /\ hand' \in [Thread -> Entry \cup {NULL}]
         /\ \A u \in Thread, q \in Proc, d \in Entry : Has(u, q, d)' <=> Has(u, q, d) /\ u # t
<1>1. /\ name \in [Thread -> Name \cup {NULL}] /\ value \in [Thread -> Value \cup {NULL}]
      /\ hand \in [Thread -> Entry \cup {NULL}] /\ pc \in [Thread -> Labels]
  BY DEF TableOK, TableTypeOK
<1>2. /\ pc' \in [Thread -> Labels] /\ pc'[t] = "idle" /\ hand'[t] = NULL
      /\ \A u \in Thread : u # t => pc'[u] = pc[u] /\ hand'[u] = hand[u] /\ name'[u] = name[u]
  BY <1>1 DEF Return, Labels
<1>3. /\ name' \in [Thread -> Name \cup {NULL}] /\ value' \in [Thread -> Value \cup {NULL}]
      /\ hand' \in [Thread -> Entry \cup {NULL}]
  BY <1>1 DEF Return
<1>4. NULL \notin Entry
  BY TableAssumption
<1>5. ASSUME NEW u \in Thread, NEW q \in Proc, NEW d \in Entry
      PROVE  Has(u, q, d)' <=> Has(u, q, d) /\ u # t
  BY <1>2, <1>4 DEF Has
<1> QED BY <1>2, <1>3, <1>5

\* NameServer_add takes an entry off the free list.
LEMMA AddGetKeeps ==
  ASSUME TableOK, NEW t \in Thread, AddGet(t)
  PROVE  TableOK'
<1> DEFINE p == procOf[t]
           e == Head(freeList[p])
<1>1. p \in Proc /\ pc[t] = "addGet"
  BY Places DEF AddGet
<1>2. CASE freeList[p] = <<>>
  <2>1. Return(t) /\ UNCHANGED table
    BY <1>2 DEF AddGet
  <2>2. /\ pc' \in [Thread -> Labels] /\ pc'[t] = "idle" /\ hand'[t] = NULL
        /\ \A u \in Thread : u # t => pc'[u] = pc[u] /\ hand'[u] = hand[u]
        /\ name' \in [Thread -> Name \cup {NULL}] /\ value' \in [Thread -> Value \cup {NULL}]
        /\ hand' \in [Thread -> Entry \cup {NULL}]
    BY <2>1, ReturnIs
  <2>3. hand' = hand
    <3>1. \A u \in Thread : hand'[u] = hand[u]
      BY <1>1, <2>2, EmptyHand
    <3> QED BY <2>2, <3>1 DEF TableOK, TableTypeOK
  <2>4. TableInv'
    BY <1>1, <2>1, <2>2, <2>3, TableStays
  <2>5. TableTypeOK'
    BY <2>1, <2>2 DEF TableOK, TableTypeOK, table
  <2> QED BY <2>2, <2>4, <2>5 DEF TableOK
<1>3. CASE freeList[p] # <<>>
  <2>1. /\ hand' = [hand EXCEPT ![t] = e] /\ freeList' = [freeList EXCEPT ![p] = Tail(freeList[p])]
        /\ pc' = [pc EXCEPT ![t] = "addPut"] /\ UNCHANGED <<nameList, content, keys, name, value>>
    BY <1>3 DEF AddGet
  <2>2. freeList \in [Proc -> Seq(Entry)] /\ NoRepeat(freeList[p])
    BY <1>1 DEF TableOK, TableTypeOK, TableInv, ListsInv
  <2>3. /\ e \in Entry /\ InFree(p, e)
        /\ Tail(freeList[p]) \in Seq(Entry) /\ NoRepeat(Tail(freeList[p]))
        /\ \A d : On(d, Tail(freeList[p])) <=> On(d, freeList[p]) /\ d # e
    BY <1>1, <1>3, <2>2, TailIs DEF InFree
  <2> HIDE DEF e
  <2>4. pc' \in [Thread -> Labels] /\ TableTypeOK'
    BY <1>1, <2>1, <2>3 DEF TableOK, TableTypeOK, Labels
  <2>5. \A q \in Proc, d \in Entry : /\ InNames(q, d)' <=> InNames(q, d)
                                     /\ InFree(q, d)' <=> InFree(q, d) /\ ~(q = p /\ d = e)
    BY <1>1, <2>1, <2>2, <2>3 DEF InNames, InFree
  <2>6. \A u \in Thread, q \in Proc, d \in Entry :
          Has(u, q, d)' <=> Has(u, q, d) \/ (u = t /\ q = p /\ d = e)
    BY <1>1, <2>1, EmptyHand DEF Has, TableOK, TableTypeOK
  <2>7. PlaceInv'
    BY <1>1, <2>3, <2>5, <2>6, PlaceIs DEF TableOK, TableInv, Placed
  <2>8. ListsInv'
    BY <1>1, <2>1, <2>2, <2>3 DEF TableOK, TableInv, ListsInv
  <2>9. HandInv'
    BY <1>1, <2>1, <2>3, TableAssumption DEF TableOK, TableTypeOK, TableInv, HandInv
  <2>10. KeysInv'
    BY <2>1 DEF TableOK, TableInv, KeysInv
  <2> QED BY <2>4, <2>7, <2>8, <2>9, <2>10 DEF TableOK, TableInv
<1> QED BY <1>2, <1>3

\* NameServer_add checks for the name and starts.
LEMMA AddKeeps ==
  ASSUME TableOK, NEW t \in Thread, NEW n \in Name, NEW v \in Value, add(t, n, v)
  PROVE  TableOK'
<1>1. /\ UNCHANGED <<table, hand>> /\ pc' \in [Thread -> Labels]
      /\ pc[t] = "idle" /\ pc'[t] \in {"idle", "addGet"} /\ \A u \in Thread : u # t => pc'[u] = pc[u]
  BY DEF add, call, TableOK, Labels
<1>2. name' \in [Thread -> Name \cup {NULL}] /\ value' \in [Thread -> Value \cup {NULL}]
  BY ZenonT(40) DEF add, call, TableOK, TableTypeOK
<1>3. TableTypeOK'
  BY <1>1, <1>2 DEF TableOK, TableTypeOK, table
<1>4. TableInv'
  BY <1>1, TableStays
<1> QED BY <1>1, <1>3, <1>4 DEF TableOK

\* ... and puts the entry on the name list.
LEMMA AddPutKeeps ==
  ASSUME TableOK, NEW t \in Thread, AddPut(t)
  PROVE  TableOK'
<1> DEFINE p == procOf[t]
           e == hand[t]
<1>1. p \in Proc /\ pc[t] = "addPut" /\ e \in Entry /\ Has(t, p, e) /\ ~InNames(p, e) /\ ~InFree(p, e)
  BY Places, FullHand DEF AddPut
<1>2. /\ content' = [content EXCEPT ![p][e] = [name |-> name[t], value |-> value[t]]]
      /\ nameList' = [nameList EXCEPT ![p] = Append(nameList[p], e)]
      /\ keys' = IF name[t] \in KeyNames THEN [keys EXCEPT ![p] = keys[p] \cup {e}] ELSE keys
      /\ Return(t) /\ freeList' = freeList
  BY DEF AddPut
<1>3. /\ nameList \in [Proc -> Seq(Entry)] /\ NoRepeat(nameList[p]) /\ keys \in [Proc -> SUBSET Entry]
      /\ content \in [Proc -> [Entry -> [name : Name \cup {NULL}, value : Value \cup {NULL}]]]
      /\ name[t] \in Name \cup {NULL} /\ value[t] \in Value \cup {NULL}
  BY <1>1 DEF TableOK, TableTypeOK, TableInv, ListsInv
<1>4. /\ Append(nameList[p], e) \in Seq(Entry) /\ NoRepeat(Append(nameList[p], e))
      /\ \A d : On(d, Append(nameList[p], e)) <=> On(d, nameList[p]) \/ d = e
  BY <1>1, <1>3, AppendIs DEF InNames
<1>5. /\ pc' \in [Thread -> Labels] /\ pc'[t] = "idle" /\ hand'[t] = NULL
      /\ \A u \in Thread : u # t => pc'[u] = pc[u] /\ hand'[u] = hand[u]
      /\ name' \in [Thread -> Name \cup {NULL}] /\ value' \in [Thread -> Value \cup {NULL}]
      /\ hand' \in [Thread -> Entry \cup {NULL}]
      /\ \A u \in Thread, q \in Proc, d \in Entry : Has(u, q, d)' <=> Has(u, q, d) /\ u # t
  BY <1>2, ReturnIs
<1>6. \A q \in Proc, d \in Entry : Has(t, q, d) <=> q = p /\ d = e
  BY DEF Has
<1> HIDE DEF e
<1>7. TableTypeOK'
  <2>1. nameList' \in [Proc -> Seq(Entry)] /\ keys' \in [Proc -> SUBSET Entry]
    BY <1>1, <1>2, <1>3, <1>4
  <2>2. content' \in [Proc -> [Entry -> [name : Name \cup {NULL}, value : Value \cup {NULL}]]]
    BY <1>1, <1>2, <1>3
  <2> QED BY <1>2, <1>5, <2>1, <2>2 DEF TableOK, TableTypeOK
<1>8. \A q \in Proc, d \in Entry : /\ InNames(q, d)' <=> InNames(q, d) \/ (q = p /\ d = e)
                                   /\ InFree(q, d)' <=> InFree(q, d)
  BY <1>1, <1>2, <1>3, <1>4 DEF InNames, InFree
<1>9. PlaceInv'
  BY <1>1, <1>5, <1>6, <1>8, PlaceIs DEF TableOK, TableInv, Placed
<1>10. ListsInv'
  BY <1>1, <1>2, <1>3, <1>4 DEF TableOK, TableInv, ListsInv
<1>11. HandInv'
  BY <1>1, <1>5 DEF TableOK, TableInv, HandInv
<1>12. KeysInv'
  <2> SUFFICES ASSUME NEW q \in Proc, NEW d \in keys'[q]
               PROVE  On(d, nameList'[q]) /\ content'[q][d].name \in KeyNames
    BY DEF KeysInv
  <2>1. d \in Entry /\ (d \in keys[q] \/ (q = p /\ d = e /\ name[t] \in KeyNames))
    BY <1>1, <1>2, <1>3
  <2>2. ASSUME d \in keys[q]
        PROVE  On(d, nameList[q]) /\ content[q][d].name \in KeyNames /\ ~(q = p /\ d = e)
    BY <1>1, <2>2 DEF TableOK, TableInv, KeysInv, InNames
  <2>3. On(d, nameList'[q])
    BY <1>8, <2>1, <2>2 DEF InNames
  <2>4. content'[q][d].name \in KeyNames
    BY <1>1, <1>2, <1>3, <2>1, <2>2
  <2> QED BY <2>3, <2>4
<1> QED BY <1>5, <1>7, <1>9, <1>10, <1>11, <1>12 DEF TableOK, TableInv

\* NameServer_remove moves an entry to the free list, but never one that a
\* NameServer_removeEntry may still come for.
LEMMA RemoveKeeps ==
  ASSUME TableOK, NEW t \in Thread, NEW n \in Name, remove(t, n)
  PROVE  TableOK'
<1> DEFINE p == procOf[t]
           e == findLocal(p, n)
<1>1. p \in Proc /\ n \notin KeyNames /\ UNCHANGED <<keys, call>>
  BY Places DEF remove
<1>2. UNCHANGED <<pc, name, value, hand, keys>>
  BY <1>1 DEF call
<1>3. CASE Matches(p, n) = {}
  <2>1. UNCHANGED <<table, hand, pc, name, value>>
    BY <1>2, <1>3 DEF remove, table
  <2>2. TableInv'
    BY <2>1, TableStays
  <2> QED BY <2>1, <2>2 DEF TableOK, TableTypeOK, table
<1>4. CASE Matches(p, n) # {}
  <2>1. /\ nameList' = [nameList EXCEPT ![p] = Without(nameList[p], e)]
        /\ freeList' = [freeList EXCEPT ![p] = Append(freeList[p], e)]
        /\ content' = [content EXCEPT ![p][e] = NoContent]
    BY <1>4 DEF remove
  <2>2. e \in Entry /\ InNames(p, e) /\ content[p][e].name = n
    BY <1>1, <1>4, Found DEF TableOK, InNames
  <2> HIDE DEF e
  <2>3. /\ nameList \in [Proc -> Seq(Entry)] /\ freeList \in [Proc -> Seq(Entry)]
        /\ NoRepeat(nameList[p]) /\ NoRepeat(freeList[p]) /\ keys \in [Proc -> SUBSET Entry]
        /\ content \in [Proc -> [Entry -> [name : Name \cup {NULL}, value : Value \cup {NULL}]]]
    BY <1>1 DEF TableOK, TableTypeOK, TableInv, ListsInv
  <2>4. ~InFree(p, e) /\ \A u \in Thread : ~Has(u, p, e)
    BY <1>1, <2>2, PlaceIs DEF TableOK, TableInv, Placed
  <2>5. /\ Without(nameList[p], e) \in Seq(Entry) /\ NoRepeat(Without(nameList[p], e))
        /\ \A d : On(d, Without(nameList[p], e)) <=> On(d, nameList[p]) /\ d # e
    BY <1>1, <2>2, <2>3, WithoutIs DEF InNames
  <2>6. /\ Append(freeList[p], e) \in Seq(Entry) /\ NoRepeat(Append(freeList[p], e))
        /\ \A d : On(d, Append(freeList[p], e)) <=> On(d, freeList[p]) \/ d = e
    BY <1>1, <2>2, <2>3, <2>4, AppendIs DEF InFree
  <2>7. TableTypeOK'
    BY <1>1, <1>2, <2>1, <2>2, <2>3, <2>5, <2>6 DEF TableOK, TableTypeOK, NoContent
  <2>8. \A q \in Proc, d \in Entry : /\ InNames(q, d)' <=> InNames(q, d) /\ ~(q = p /\ d = e)
                                     /\ InFree(q, d)' <=> InFree(q, d) \/ (q = p /\ d = e)
    BY <1>1, <2>1, <2>3, <2>5, <2>6 DEF InNames, InFree
  <2>9. \A u \in Thread, q \in Proc, d \in Entry : Has(u, q, d)' <=> Has(u, q, d)
    BY <1>2 DEF Has
  <2>10. PlaceInv'
    BY <1>1, <2>2, <2>4, <2>8, <2>9, PlaceIs DEF TableOK, TableInv, Placed
  <2>11. ListsInv' /\ HandInv'
    BY <1>1, <1>2, <2>1, <2>3, <2>5, <2>6 DEF TableOK, TableInv, ListsInv, HandInv
  <2>12. KeysInv'
    <3> SUFFICES ASSUME NEW q \in Proc, NEW d \in keys[q]
                 PROVE  On(d, nameList'[q]) /\ content'[q][d].name \in KeyNames
      BY <1>2 DEF KeysInv
    <3>1. d \in Entry /\ On(d, nameList[q]) /\ content[q][d].name \in KeyNames
      BY <2>3 DEF TableOK, TableInv, KeysInv
    <3>2. ~(q = p /\ d = e)
      BY <1>1, <2>2, <3>1
    <3>3. content'[q][d] = content[q][d]
      BY <1>1, <2>1, <2>2, <2>3, <3>1, <3>2
    <3> QED BY <2>8, <3>1, <3>2, <3>3 DEF InNames
  <2> QED BY <1>2, <2>7, <2>10, <2>11, <2>12 DEF TableOK, TableInv
<1> QED BY <1>3, <1>4

\* NameServer_removeEntry takes an entry off the name list.
LEMMA RemoveEntryKeeps ==
  ASSUME TableOK, NEW t \in Thread, NEW e \in Entry, removeEntry(t, e)
  PROVE  TableOK'
<1> DEFINE p == procOf[t]
<1>1. p \in Proc /\ pc[t] = "idle" /\ e \in keys[p]
  BY Places DEF removeEntry
<1>2. /\ keys' = [keys EXCEPT ![p] = keys[p] \ {e}]
      /\ nameList' = [nameList EXCEPT ![p] = Without(nameList[p], e)]
      /\ hand' = [hand EXCEPT ![t] = e] /\ pc' = [pc EXCEPT ![t] = "removePut"]
      /\ UNCHANGED <<freeList, content, name, value>>
  BY DEF removeEntry
<1>3. /\ nameList \in [Proc -> Seq(Entry)] /\ NoRepeat(nameList[p]) /\ keys \in [Proc -> SUBSET Entry]
      /\ InNames(p, e)
  BY <1>1 DEF TableOK, TableTypeOK, TableInv, ListsInv, KeysInv, InNames
<1>4. /\ Without(nameList[p], e) \in Seq(Entry) /\ NoRepeat(Without(nameList[p], e))
      /\ \A d : On(d, Without(nameList[p], e)) <=> On(d, nameList[p]) /\ d # e
  BY <1>1, <1>3, WithoutIs DEF InNames
<1>5. pc' \in [Thread -> Labels] /\ TableTypeOK'
  BY <1>1, <1>2, <1>3, <1>4 DEF TableOK, TableTypeOK, Labels
<1>6. \A q \in Proc, d \in Entry : /\ InNames(q, d)' <=> InNames(q, d) /\ ~(q = p /\ d = e)
                                   /\ InFree(q, d)' <=> InFree(q, d)
  BY <1>1, <1>2, <1>3, <1>4 DEF InNames, InFree
<1>7. \A u \in Thread, q \in Proc, d \in Entry :
        Has(u, q, d)' <=> Has(u, q, d) \/ (u = t /\ q = p /\ d = e)
  BY <1>1, <1>2, EmptyHand DEF Has, TableOK, TableTypeOK
<1>8. PlaceInv'
  BY <1>1, <1>3, <1>6, <1>7, PlaceIs DEF TableOK, TableInv, Placed
<1>9. ListsInv'
  BY <1>1, <1>2, <1>3, <1>4 DEF TableOK, TableInv, ListsInv
<1>10. HandInv'
  BY <1>1, <1>2, TableAssumption DEF TableOK, TableTypeOK, TableInv, HandInv
<1>11. KeysInv'
  <2> SUFFICES ASSUME NEW q \in Proc, NEW d \in keys'[q]
               PROVE  On(d, nameList'[q]) /\ content'[q][d].name \in KeyNames
    BY DEF KeysInv
  <2>1. d \in Entry /\ d \in keys[q] /\ ~(q = p /\ d = e)
    BY <1>1, <1>2, <1>3
  <2> QED BY <1>2, <1>6, <2>1 DEF TableOK, TableInv, KeysInv, InNames
<1> QED BY <1>5, <1>8, <1>9, <1>10, <1>11 DEF TableOK, TableInv

\* ... and puts it on the free list.
LEMMA RemovePutKeeps ==
  ASSUME TableOK, NEW t \in Thread, RemovePut(t)
  PROVE  TableOK'
<1> DEFINE p == procOf[t]
           e == hand[t]
<1>1. p \in Proc /\ pc[t] = "removePut" /\ e \in Entry /\ Has(t, p, e) /\ ~InNames(p, e) /\ ~InFree(p, e)
  BY Places, FullHand DEF RemovePut
<1>2. /\ content' = [content EXCEPT ![p][e] = NoContent]
      /\ freeList' = [freeList EXCEPT ![p] = Append(freeList[p], e)]
      /\ Return(t) /\ UNCHANGED <<nameList, keys>>
  BY DEF RemovePut
<1>3. /\ freeList \in [Proc -> Seq(Entry)] /\ NoRepeat(freeList[p]) /\ keys \in [Proc -> SUBSET Entry]
      /\ content \in [Proc -> [Entry -> [name : Name \cup {NULL}, value : Value \cup {NULL}]]]
  BY <1>1 DEF TableOK, TableTypeOK, TableInv, ListsInv
<1>4. /\ Append(freeList[p], e) \in Seq(Entry) /\ NoRepeat(Append(freeList[p], e))
      /\ \A d : On(d, Append(freeList[p], e)) <=> On(d, freeList[p]) \/ d = e
  BY <1>1, <1>3, AppendIs DEF InFree
<1>5. /\ pc' \in [Thread -> Labels] /\ pc'[t] = "idle" /\ hand'[t] = NULL
      /\ \A u \in Thread : u # t => pc'[u] = pc[u] /\ hand'[u] = hand[u]
      /\ name' \in [Thread -> Name \cup {NULL}] /\ value' \in [Thread -> Value \cup {NULL}]
      /\ hand' \in [Thread -> Entry \cup {NULL}]
      /\ \A u \in Thread, q \in Proc, d \in Entry : Has(u, q, d)' <=> Has(u, q, d) /\ u # t
  BY <1>2, ReturnIs
<1>6. \A q \in Proc, d \in Entry : Has(t, q, d) <=> q = p /\ d = e
  BY DEF Has
<1> HIDE DEF e
<1>7. TableTypeOK'
  BY <1>1, <1>2, <1>3, <1>4, <1>5 DEF TableOK, TableTypeOK, NoContent
<1>8. \A q \in Proc, d \in Entry : /\ InNames(q, d)' <=> InNames(q, d)
                                   /\ InFree(q, d)' <=> InFree(q, d) \/ (q = p /\ d = e)
  BY <1>1, <1>2, <1>3, <1>4 DEF InNames, InFree
<1>9. PlaceInv'
  BY <1>1, <1>5, <1>6, <1>8, PlaceIs DEF TableOK, TableInv, Placed
<1>10. ListsInv'
  BY <1>1, <1>2, <1>3, <1>4 DEF TableOK, TableInv, ListsInv
<1>11. HandInv'
  BY <1>1, <1>5 DEF TableOK, TableInv, HandInv
<1>12. KeysInv'
  <2> SUFFICES ASSUME NEW q \in Proc, NEW d \in keys[q]
               PROVE  On(d, nameList[q]) /\ content'[q][d].name \in KeyNames
    BY <1>2 DEF KeysInv
  <2>1. d \in Entry /\ On(d, nameList[q]) /\ content[q][d].name \in KeyNames
    BY <1>3 DEF TableOK, TableInv, KeysInv
  <2>2. ~(q = p /\ d = e)
    BY <1>1, <2>1 DEF InNames
  <2> QED BY <1>1, <1>2, <1>3, <2>1, <2>2
<1> QED BY <1>5, <1>7, <1>9, <1>10, <1>11, <1>12 DEF TableOK, TableInv

-----------------------------------------------------------------------------
\* Steps of the remote half.  Most leave the table alone.
LEMMA CallStays ==
  ASSUME TableOK, UNCHANGED <<table, call>>
  PROVE  TableOK'
<1>1. UNCHANGED <<table, pc, name, value, hand>>
  BY DEF call
<1>2. TableInv'
  BY <1>1, TableStays
<1> QED BY <1>1, <1>2 DEF TableOK, TableTypeOK, table

\* What a step of thread t does to the threads' labels and arguments.
Moves(t, label) ==
  /\ pc' \in [Thread -> Labels] /\ pc'[t] = label
  /\ \A u \in Thread : u # t => pc'[u] = pc[u] /\ name'[u] = name[u]

LEMMA GotoKeeps ==
  ASSUME TableOK, NEW t \in Thread, pc[t] \notin {"addPut", "removePut"},
         NEW label \in Labels \ {"addPut", "removePut"}, Goto(t, label), UNCHANGED table
  PROVE  TableOK' /\ Moves(t, label) /\ name' = name
<1>1. Moves(t, label) /\ UNCHANGED <<name, value, hand>>
  BY DEF Goto, Moves, TableOK
<1>2. TableInv'
  BY <1>1, TableStays DEF Moves
<1> QED BY <1>1, <1>2 DEF TableOK, TableTypeOK, table, Moves

LEMMA ReturnKeeps ==
  ASSUME TableOK, NEW t \in Thread, pc[t] \notin {"addPut", "removePut"}, Return(t), UNCHANGED table
  PROVE  TableOK' /\ Moves(t, "idle")
<1>1. /\ Moves(t, "idle") /\ hand'[t] = NULL
      /\ \A u \in Thread : u # t => hand'[u] = hand[u]
      /\ name' \in [Thread -> Name \cup {NULL}] /\ value' \in [Thread -> Value \cup {NULL}]
      /\ hand' \in [Thread -> Entry \cup {NULL}]
  BY ReturnIs DEF Moves
<1>2. hand' = hand
  <2>1. \A u \in Thread : hand'[u] = hand[u]
    BY <1>1, EmptyHand
  <2> QED BY <1>1, <2>1 DEF TableOK, TableTypeOK
<1>3. TableInv'
  BY <1>1, <1>2, TableStays DEF Moves
<1> QED BY <1>1, <1>3 DEF TableOK, TableTypeOK, table, Moves

\* The table's own calls, seen from the remote half.
TableLabels == {"idle", "addGet", "addPut", "removePut"}

LEMMA LocalIs ==
  ASSUME TableOK, NEW t \in Thread, Local(t)
  PROVE  /\ TableOK' /\ UNCHANGED <<remote, swi, sems, timedOut>>
         /\ \A u \in Thread : \/ pc'[u] = pc[u] /\ name'[u] = name[u]
                              \/ pc[u] \in TableLabels /\ pc'[u] \in TableLabels
<1>1. UNCHANGED <<remote, swi, sems, timedOut>>
  BY DEF Local
<1>2. CASE AddGet(t) \/ AddPut(t) \/ RemovePut(t)
  <2>1. TableOK'
    BY <1>2, AddGetKeeps, AddPutKeeps, RemovePutKeeps
  <2>2. /\ pc[t] \in TableLabels /\ pc'[t] \in TableLabels
        /\ \A u \in Thread : u # t => pc'[u] = pc[u] /\ name'[u] = name[u]
    BY <1>2 DEF AddGet, AddPut, RemovePut, Return, TableLabels, TableOK, TableTypeOK
  <2> QED BY <1>1, <2>1, <2>2
<1>3. CASE TableCall(t)
  <2>1. TableOK'
    BY <1>3, AddKeeps, RemoveKeeps, RemoveEntryKeeps DEF TableCall
  <2>2. \/ UNCHANGED <<pc, name>>
        \/ /\ pc[t] \in TableLabels /\ pc'[t] \in TableLabels
           /\ \A u \in Thread : u # t => pc'[u] = pc[u] /\ name'[u] = name[u]
    BY <1>3 DEF TableCall, add, remove, removeEntry, call, TableLabels, TableOK, TableTypeOK
  <2> QED BY <1>1, <2>1, <2>2
<1> QED BY <1>2, <1>3 DEF Local, TableStep

-----------------------------------------------------------------------------
\* The ways of an answer, one by one.
Ways == {"request", "swiRequest", "swi", "response", "swiResponse", "sem"}

LEMMA ReplyIs ==
  ASSUME NEW p \in Proc
  PROVE  /\ Reply(p, "request") <=> event[p] = "Request"
         /\ Reply(p, "swiRequest") <=> postedRequest[Other(p)] = "yes"
         /\ Reply(p, "swi") <=> swiPc[Other(p)] # "idle"
         /\ Reply(p, "response") <=> event[Other(p)] = "Response"
         /\ Reply(p, "swiResponse") <=> postedResponse[p] = "yes"
         /\ Reply(p, "sem") <=> semRemoteWait[p] > 0
         /\ Reply(p, "request")' <=> event'[p] = "Request"
         /\ Reply(p, "swiRequest")' <=> postedRequest'[Other(p)] = "yes"
         /\ Reply(p, "swi")' <=> swiPc'[Other(p)] # "idle"
         /\ Reply(p, "response")' <=> event'[Other(p)] = "Response"
         /\ Reply(p, "swiResponse")' <=> postedResponse'[p] = "yes"
         /\ Reply(p, "sem")' <=> semRemoteWait'[p] > 0
BY DEF Reply

LEMMA UnderWayIs ==
  ASSUME NEW p \in Proc
  PROVE  /\ \A x : x \in UnderWay(p) <=> x \in Ways /\ Reply(p, x)
         /\ \A x : x \in UnderWay(p)' <=> x \in Ways /\ Reply(p, x)'
BY DEF UnderWay, Ways

Waiting(p) == \E t \in Thread : procOf[t] = p /\ pc[t] = "wait"

\* OneReply and SomeReply of one processor.
ReplyOK(p) ==
  /\ timedOut[p] = 0 =>
       /\ \A x, y \in Ways : Reply(p, x) /\ Reply(p, y) => x = y
       /\ semRemoteWait[p] <= 1
       /\ \A x \in Ways : Reply(p, x) => Waiting(p)
  /\ Waiting(p) => \E x \in Ways : Reply(p, x)

LEMMA RepliesAre ==
  /\ OneReply /\ SomeReply <=> \A p \in Proc : ReplyOK(p)
  /\ (OneReply /\ SomeReply)' <=> \A p \in Proc : ReplyOK(p)'
<1>1. OneReply /\ SomeReply <=> \A p \in Proc : ReplyOK(p)
  BY UnderWayIs, Places DEF OneReply, SomeReply, ReplyOK, Waiting
<1>2. (OneReply /\ SomeReply)' <=> \A p \in Proc : ReplyOK(p)'
  BY UnderWayIs, Places DEF OneReply, SomeReply, ReplyOK, Waiting
<1> QED BY <1>1, <1>2

\* Nothing moves towards p, ...
Still(p) ==
  /\ \A x \in Ways : Reply(p, x)' <=> Reply(p, x)
  /\ semRemoteWait'[p] = semRemoteWait[p] /\ timedOut'[p] = timedOut[p]

LEMMA StillKeeps ==
  ASSUME NEW p \in Proc, ReplyOK(p), Still(p), Waiting(p)' <=> Waiting(p)
  PROVE  ReplyOK(p)'
BY DEF ReplyOK, Still

\* ... or an answer to p goes from way x to way y.
Passes(p, x, y) ==
  /\ Reply(p, x)
  /\ \A z \in Ways : Reply(p, z)' <=> (Reply(p, z) /\ z # x) \/ z = y

LEMMA PassesKeeps ==
  ASSUME NEW p \in Proc, NEW x \in Ways, NEW y \in Ways, ReplyOK(p), Passes(p, x, y),
         timedOut'[p] = timedOut[p], Waiting(p)' <=> Waiting(p),
         timedOut[p] = 0 => semRemoteWait'[p] <= 1
  PROVE  ReplyOK(p)'
BY DEF ReplyOK, Passes

-----------------------------------------------------------------------------
\* The types of the remote half, and the other parts of IInv by what a step
\* does to them.
RemoteTypes ==
  /\ attached \subseteq Proc
  /\ msg \in [Proc -> [requestStatus : {"FALSE", "TRUE"}, name : Name \cup {NULL},
                       value : Value \cup {NULL}]]
  /\ event \in [Proc -> {"none", "Request", "Response"}]
  /\ postedRequest \in [Proc -> {"no", "yes"}]
  /\ postedResponse \in [Proc -> {"no", "yes"}]
  /\ swiPc \in [Proc -> {"idle", "answer", "send"}]
  /\ swiValue \in [Proc -> Value \cup {NULL}]
  /\ semMultiBlock \in [Proc -> 0..1]
  /\ semRemoteWait \in [Proc -> Nat]
  /\ timedOut \in [Proc -> Nat] /\ \A p \in Proc : timedOut[p] <= MaxTimeouts[p]

MessageOK(t) ==
  LET p == procOf[t] IN
  pc[t] \in Asking /\ timedOut[p] = 0 =>
    /\ pc[t] \in {"send", "wait"} => msg[p].name = name[t]
    /\ pc[t] = "send" \/ Asked(p) => msg[p].requestStatus = "FALSE"
    /\ swiPc[Other(p)] = "answer" => swiValue[Other(p)] \in window[t]
    /\ pc[t] = "read" \/ Answered(p) => Answer(p) \in window[t]

LEMMA IInvIs ==
  /\ IInv <=> /\ TableOK /\ RemoteTypes /\ BlockInv /\ AttachedInv /\ WindowInv
              /\ \A p \in Proc : ReplyOK(p)
              /\ \A t \in Thread : MessageOK(t)
  /\ IInv' <=> /\ TableOK' /\ RemoteTypes' /\ BlockInv' /\ AttachedInv' /\ WindowInv'
               /\ \A p \in Proc : ReplyOK(p)'
               /\ \A t \in Thread : MessageOK(t)'
<1>1. /\ TypeOK /\ TableInv <=> TableOK /\ RemoteTypes
      /\ (TypeOK /\ TableInv)' <=> TableOK' /\ RemoteTypes'
  BY DEF TypeOK, TableOK, RemoteTypes, Labels
<1>2. /\ MessageInv <=> \A t \in Thread : MessageOK(t)
      /\ MessageInv' <=> \A t \in Thread : MessageOK(t)'
  BY DEF MessageInv, MessageOK
<1> QED BY <1>1, <1>2, RepliesAre DEF IInv

\* Observe: the window of an asker has what the other table has now, and grows.
LEMMA Observed ==
  ASSUME Observe
  PROVE  /\ WindowInv'
         /\ \A t \in Thread : pc[t] \in Asking /\ pc'[t] \in Asking => window[t] \subseteq window'[t]
<1>1. WindowInv'
  BY DEF Observe, WindowInv
<1>2. ASSUME NEW t \in Thread, pc[t] \in Asking, pc'[t] \in Asking
      PROVE  window[t] \subseteq window'[t]
  BY <1>2 DEF Observe
<1> QED BY <1>1, <1>2

LEMMA BlockStays ==
  ASSUME BlockInv, semMultiBlock' = semMultiBlock,
         \A u \in Thread : pc'[u] \in Busy <=> pc[u] \in Busy
  PROVE  BlockInv'
<1>1. \A p \in Proc : BusyOn(p)' = BusyOn(p)
  BY DEF BusyOn
<1> QED BY <1>1 DEF BlockInv

LEMMA BlockLeft ==
  ASSUME BlockInv, RemoteTypes, NEW t \in Thread, pc[t] \in Busy, Moves(t, "idle"),
         semMultiBlock' = [semMultiBlock EXCEPT ![procOf[t]] = semMultiBlock[procOf[t]] + 1]
  PROVE  BlockInv' /\ semMultiBlock' \in [Proc -> 0..1]
<1> DEFINE p == procOf[t]
<1>1. p \in Proc /\ t \in BusyOn(p)
  BY Places DEF BusyOn
<1>2. semMultiBlock[p] = 0 /\ semMultiBlock \in [Proc -> 0..1]
  BY <1>1 DEF BlockInv, RemoteTypes
<1>3. /\ semMultiBlock'[p] = 1 /\ \A q \in Proc : q # p => semMultiBlock'[q] = semMultiBlock[q]
      /\ semMultiBlock' \in [Proc -> 0..1]
  BY <1>1, <1>2
<1>4. BusyOn(p)' = {}
  BY <1>1 DEF BusyOn, BlockInv, Moves, Busy
<1>5. \A q \in Proc : q # p => BusyOn(q)' = BusyOn(q)
  BY DEF BusyOn, Moves
<1> QED BY <1>3, <1>4, <1>5 DEF BlockInv

LEMMA AttachedStays ==
  ASSUME AttachedInv, attached \subseteq attached',
         \A u \in Thread : pc'[u] \in Busy \cup {"pendMulti"} =>
           pc[u] \in Busy \cup {"pendMulti"} \/ procOf[u] \in attached
  PROVE  AttachedInv'
BY DEF AttachedInv

\* The asker that is not waiting has no answer under way.
LEMMA NothingYet ==
  ASSUME BlockInv, NEW t \in Thread, pc[t] \in Busy, pc[t] # "wait",
         ReplyOK(procOf[t]), timedOut[procOf[t]] = 0
  PROVE  /\ \A x \in Ways : ~Reply(procOf[t], x)
         /\ ~Asked(procOf[t]) /\ ~Answered(procOf[t]) /\ swiPc[Other(procOf[t])] = "idle"
<1> DEFINE p == procOf[t]
<1>1. ~Waiting(p)
  BY Places DEF BlockInv, BusyOn, Waiting, Busy
<1>2. \A x \in Ways : ~Reply(p, x)
  BY <1>1 DEF ReplyOK
<1>3. swiPc[Other(p)] = "idle"
  BY <1>2, ReplyIs, Places DEF Ways
<1> QED BY <1>2, <1>3 DEF Asked, Answered, Ways

LEMMA MessageStays ==
  ASSUME NEW t \in Thread, MessageOK(t), Observe, pc'[t] = pc[t], name'[t] = name[t],
         msg'[procOf[t]] = msg[procOf[t]],
         timedOut'[procOf[t]] = 0 => timedOut[procOf[t]] = 0,
         Asked(procOf[t])' => Asked(procOf[t]),
         Answered(procOf[t])' => Answered(procOf[t]),
         swiPc'[Other(procOf[t])] = "answer" =>
           /\ swiPc[Other(procOf[t])] = "answer"
           /\ swiValue'[Other(procOf[t])] = swiValue[Other(procOf[t])]
  PROVE  MessageOK(t)'
<1>1. Answer(procOf[t])' = Answer(procOf[t])
  BY DEF Answer
<1>2. pc[t] \in Asking => window[t] \subseteq window'[t]
  BY Observed
<1> QED BY <1>1, <1>2 DEF MessageOK

\* Steps that change nothing on the way of answers.
ways == <<msg, event, postedRequest, postedResponse, swiPc, swiValue>>

LEMMA WaysStay ==
  ASSUME NEW p \in Proc, UNCHANGED <<event, postedRequest, postedResponse, swiPc>>,
         semRemoteWait'[p] = semRemoteWait[p]
  PROVE  /\ \A x \in Ways : Reply(p, x)' <=> Reply(p, x)
         /\ Asked(p)' <=> Asked(p)
         /\ Answered(p)' <=> Answered(p)
<1>1. \A x \in Ways : Reply(p, x)' <=> Reply(p, x)
  BY DEF Reply
<1> QED BY <1>1 DEF Asked, Answered, Ways

\* The steps of threads that do not ask: the table, get and PendMulti.
LEMMA BesidesKeep ==
  ASSUME IInv, Observe, TableOK', RemoteTypes', BlockInv', AttachedInv',
         UNCHANGED <<ways, semRemoteWait, timedOut>>,
         \A u \in Thread : \/ pc'[u] = pc[u] /\ (pc[u] \in Asking => name'[u] = name[u])
                           \/ pc'[u] \notin Asking /\ pc[u] # "wait"
  PROVE  IInv'
<1> USE IInvIs
<1>1. WindowInv'
  BY Observed
<1>2. UNCHANGED <<msg, event, postedRequest, postedResponse, swiPc, swiValue>>
  BY DEF ways
<1>3. ASSUME NEW p \in Proc PROVE ReplyOK(p)'
  <2>1. Waiting(p)' <=> Waiting(p)
    BY DEF Waiting, Asking
  <2> QED BY <1>2, <2>1, WaysStay, StillKeeps DEF Still
<1>4. ASSUME NEW t \in Thread PROVE MessageOK(t)'
  <2>1. CASE pc'[t] \notin Asking
    BY <2>1 DEF MessageOK
  <2>2. CASE pc'[t] = pc[t] /\ name'[t] = name[t]
    BY <1>2, <2>2, WaysStay, MessageStays, Places
  <2> QED BY <2>1, <2>2
<1> QED BY <1>1, <1>3, <1>4

LEMMA TypesStay ==
  ASSUME RemoteTypes, UNCHANGED <<remote, swi, sems, timedOut>>
  PROVE  RemoteTypes'
BY DEF RemoteTypes, remote, swi, sems

LEMMA LocalKeeps ==
  ASSUME IInv, NEW t \in Thread, Local(t), Observe
  PROVE  IInv'
<1> USE IInvIs
<1>1. /\ TableOK' /\ UNCHANGED <<remote, swi, sems, timedOut>>
      /\ \A u \in Thread : \/ pc'[u] = pc[u] /\ name'[u] = name[u]
                           \/ pc[u] \in TableLabels /\ pc'[u] \in TableLabels
  BY LocalIs
<1>2. UNCHANGED <<ways, semRemoteWait, semMultiBlock, attached>>
  BY <1>1 DEF ways, remote, swi, sems
<1>3. BlockInv'
  BY <1>1, <1>2, BlockStays DEF Busy, TableLabels
<1>4. AttachedInv'
  BY <1>1, <1>2, AttachedStays DEF Busy, TableLabels
<1>5. \A u \in Thread : \/ pc'[u] = pc[u] /\ (pc[u] \in Asking => name'[u] = name[u])
                        \/ pc'[u] \notin Asking /\ pc[u] # "wait"
  BY <1>1 DEF Asking, TableLabels
<1> QED BY <1>1, <1>2, <1>3, <1>4, <1>5, BesidesKeep, TypesStay

\* NameServer_get of a name that the local table does not have.
LEMMA GetKeeps ==
  ASSUME IInv, NEW t \in Thread, NEW n \in Name, get(t, n), Observe
  PROVE  IInv'
<1> USE IInvIs
<1>1. /\ pc[t] = "idle" /\ procOf[t] \in attached /\ pc' = [pc EXCEPT ![t] = "pendMulti"]
      /\ name' = [name EXCEPT ![t] = n] /\ UNCHANGED <<table, value, hand, remote, swi, sems, timedOut>>
  BY DEF get, At
<1>2. UNCHANGED <<ways, semRemoteWait, semMultiBlock, attached>>
  BY <1>1 DEF ways, remote, swi, sems
<1>3. Moves(t, "pendMulti")
  BY <1>1 DEF Moves, TableOK, TableTypeOK, Labels
<1>4. TableInv'
  BY <1>1, <1>3, TableStays DEF Moves
<1>5. TableOK'
  BY <1>1, <1>3, <1>4 DEF TableOK, TableTypeOK, table, Moves
<1>6. BlockInv' /\ AttachedInv'
  BY <1>1, <1>2, <1>3, BlockStays, AttachedStays DEF Moves, Busy
<1>7. \A u \in Thread : \/ pc'[u] = pc[u] /\ (pc[u] \in Asking => name'[u] = name[u])
                        \/ pc'[u] \notin Asking /\ pc[u] # "wait"
  BY <1>1, <1>3 DEF Asking, Moves
<1> QED BY <1>1, <1>2, <1>5, <1>6, <1>7, BesidesKeep, TypesStay

\* Semaphore_pend of semMultiBlock lets one thread in.
LEMMA PendMultiKeeps ==
  ASSUME IInv, NEW t \in Thread, PendMulti(t), Observe
  PROVE  IInv'
<1> USE IInvIs
<1> DEFINE p == procOf[t]
<1>1. /\ pc[t] = "pendMulti" /\ semMultiBlock[p] > 0 /\ Goto(t, "write")
      /\ semMultiBlock' = [semMultiBlock EXCEPT ![p] = semMultiBlock[p] - 1]
      /\ UNCHANGED <<table, remote, swi, semRemoteWait, timedOut>> /\ p \in Proc
  BY Places DEF PendMulti, At
<1>2. TableOK' /\ Moves(t, "write") /\ name' = name
  BY <1>1, GotoKeeps DEF Labels
<1>3. semMultiBlock[p] = 1 /\ semMultiBlock'[p] = 0 /\ semMultiBlock' \in [Proc -> 0..1]
      /\ \A q \in Proc : q # p => semMultiBlock'[q] = semMultiBlock[q]
  BY <1>1 DEF RemoteTypes
<1>4. RemoteTypes'
  BY <1>1, <1>3 DEF RemoteTypes, remote, swi
<1>5. BusyOn(p) = {} /\ BusyOn(p)' = {t}
  BY <1>1, <1>2, <1>3 DEF BlockInv, BusyOn, Moves, Busy
<1>6. \A q \in Proc : q # p => BusyOn(q)' = BusyOn(q)
  BY <1>2 DEF BusyOn, Moves
<1>7. BlockInv'
  BY <1>3, <1>5, <1>6 DEF BlockInv
<1>8. AttachedInv' /\ UNCHANGED ways
  BY <1>1, <1>2, AttachedStays DEF Moves, Busy, remote, swi, ways
<1>9. \A u \in Thread : \/ pc'[u] = pc[u] /\ (pc[u] \in Asking => name'[u] = name[u])
                        \/ pc'[u] \notin Asking /\ pc[u] # "wait"
  BY <1>1, <1>2 DEF Asking, Moves
<1> QED BY <1>1, <1>2, <1>4, <1>7, <1>8, <1>9, BesidesKeep

\* A get that ends without an answer on its way: the answer was read, or the
\* request could not be sent.
LEMMA EndsKeep ==
  ASSUME IInv, NEW t \in Thread, pc[t] \in {"send", "read"}, Return(t), Observe,
         semMultiBlock' = [semMultiBlock EXCEPT ![procOf[t]] = semMultiBlock[procOf[t]] + 1],
         UNCHANGED <<table, remote, swi, semRemoteWait, timedOut>>
  PROVE  IInv'
<1> USE IInvIs
<1>1. TableOK' /\ Moves(t, "idle")
  BY ReturnKeeps
<1>2. BlockInv' /\ semMultiBlock' \in [Proc -> 0..1]
  BY <1>1, BlockLeft DEF Busy
<1>3. RemoteTypes' /\ UNCHANGED <<ways, attached>>
  BY <1>2 DEF RemoteTypes, remote, swi, ways
<1>4. AttachedInv'
  BY <1>1, <1>3, AttachedStays DEF Moves, Busy
<1>5. \A u \in Thread : \/ pc'[u] = pc[u] /\ (pc[u] \in Asking => name'[u] = name[u])
                        \/ pc'[u] \notin Asking /\ pc[u] # "wait"
  BY <1>1 DEF Asking, Moves
<1> QED BY <1>1, <1>2, <1>3, <1>4, <1>5, BesidesKeep

LEMMA ReadAnswerKeeps ==
  ASSUME IInv, NEW t \in Thread, ReadAnswer(t), Observe
  PROVE  IInv'
BY EndsKeep DEF ReadAnswer, At

-----------------------------------------------------------------------------
\* The way of a request.  WriteRequest: nothing else is on its way then.
LEMMA WriteRequestKeeps ==
  ASSUME IInv, NEW t \in Thread, WriteRequest(t), Observe
  PROVE  IInv'
<1> USE IInvIs
<1> DEFINE p == procOf[t]
<1>1. /\ pc[t] = "write" /\ Goto(t, "send") /\ p \in Proc
      /\ msg' = [msg EXCEPT ![p].requestStatus = "FALSE", ![p].name = name[t]]
      /\ UNCHANGED <<table, attached, event, swi, sems, timedOut>>
  BY Places DEF WriteRequest, At
<1>2. TableOK' /\ Moves(t, "send") /\ name' = name
  BY <1>1, GotoKeeps DEF Labels
<1>3. /\ \A q \in Proc : q # p => msg'[q] = msg[q]
      /\ msg'[p].requestStatus = "FALSE" /\ msg'[p].name = name[t]
      /\ msg' \in [Proc -> [requestStatus : {"FALSE", "TRUE"}, name : Name \cup {NULL},
                            value : Value \cup {NULL}]]
  <2> DEFINE M == [requestStatus : {"FALSE", "TRUE"}, name : Name \cup {NULL}, value : Value \cup {NULL}]
             m == [msg[p] EXCEPT !.requestStatus = "FALSE", !.name = name[t]]
  <2>1. msg \in [Proc -> M] /\ msg[p] \in M /\ name[t] \in Name \cup {NULL}
    BY <1>1 DEF RemoteTypes, TableOK, TableTypeOK
  <2>2. m \in M /\ m.requestStatus = "FALSE" /\ m.name = name[t]
    BY <2>1
  <2>3. msg' = [msg EXCEPT ![p] = m]
    BY <1>1, <2>1
  <2> HIDE DEF m, M
  <2>4. msg'[p] = m /\ msg' \in [Proc -> M] /\ \A q \in Proc : q # p => msg'[q] = msg[q]
    BY <1>1, <2>1, <2>2, <2>3, ZenonT(40)
  <2> QED BY <2>2, <2>4 DEF M
<1>4. RemoteTypes'
  BY <1>1, <1>3 DEF RemoteTypes, swi, sems
<1>5. UNCHANGED <<event, postedRequest, postedResponse, swiPc, swiValue, semRemoteWait, semMultiBlock>>
  BY <1>1 DEF swi, sems
<1>6. BlockInv' /\ AttachedInv'
  BY <1>1, <1>2, <1>5, BlockStays, AttachedStays DEF Moves, Busy
<1>7. ASSUME NEW q \in Proc PROVE ReplyOK(q)'
  <2>1. Waiting(q)' <=> Waiting(q)
    BY <1>1, <1>2 DEF Waiting, Moves
  <2> QED BY <1>1, <1>5, <2>1, WaysStay, StillKeeps DEF Still
<1>8. ASSUME NEW u \in Thread PROVE MessageOK(u)'
  <2>1. CASE u = t
    <3> SUFFICES ASSUME timedOut[p] = 0 PROVE MessageOK(t)'
      BY <1>1, <2>1 DEF MessageOK
    <3>1. ~Asked(p) /\ ~Answered(p) /\ swiPc[Other(p)] = "idle"
      BY <1>1, NothingYet DEF Busy
    <3>2. ~Asked(p)' /\ ~Answered(p)' /\ swiPc'[Other(p)] = "idle" /\ pc'[t] = "send"
      BY <1>1, <1>2, <1>5, <3>1, WaysStay DEF Moves
    <3> QED BY <1>2, <1>3, <3>2 DEF MessageOK
  <2>2. CASE u # t /\ procOf[u] = p
    <3>1. pc[u] \notin Asking
      BY <1>1, <2>2 DEF BlockInv, BusyOn, Busy, Asking
    <3>2. pc'[u] \notin Asking
      BY <1>2, <2>2, <3>1 DEF Moves
    <3> QED BY <3>2 DEF MessageOK
  <2>3. CASE u # t /\ procOf[u] # p
    BY <1>1, <1>2, <1>3, <1>5, <2>3, WaysStay, MessageStays, Places DEF Moves
  <2> QED BY <2>1, <2>2, <2>3
<1> QED BY <1>2, <1>4, <1>6, <1>7, <1>8, Observed

\* SendRequest: the event was free and takes the request.
LEMMA SendRequestKeeps ==
  ASSUME IInv, NEW t \in Thread, SendRequest(t), Observe
  PROVE  IInv'
<1> USE IInvIs
<1> DEFINE p == procOf[t]
<1>1. CASE Other(p) \notin attached
  BY <1>1, EndsKeep DEF SendRequest, At, remote
<1>2. CASE Other(p) \in attached
  <2>1. /\ pc[t] = "send" /\ Goto(t, "wait") /\ p \in Proc /\ event[p] = "none"
        /\ event' = [event EXCEPT ![p] = "Request"]
        /\ UNCHANGED <<table, attached, msg, swi, sems, timedOut>>
    BY <1>2, Places DEF SendRequest, At, sems
  <2>2. TableOK' /\ Moves(t, "wait") /\ name' = name
    BY <2>1, GotoKeeps DEF Labels
  <2>3. event'[p] = "Request" /\ \A q \in Proc : q # p => event'[q] = event[q]
    BY <2>1 DEF RemoteTypes
  <2>4. RemoteTypes'
    BY <2>1 DEF RemoteTypes, swi, sems
  <2>5. UNCHANGED <<postedRequest, postedResponse, swiPc, swiValue, semRemoteWait, semMultiBlock>>
    BY <2>1 DEF swi, sems
  <2>6. BlockInv' /\ AttachedInv'
    BY <2>1, <2>2, <2>5, BlockStays, AttachedStays DEF Moves, Busy
  <2>7. \A x \in Ways : Reply(p, x)' <=> Reply(p, x) \/ x = "request"
    BY <2>1, <2>3, <2>5, ReplyIs, Others DEF Ways
  <2>8. \A q \in Proc : q # p => \A x \in Ways : Reply(q, x)' <=> Reply(q, x)
    BY <2>1, <2>3, <2>5, ReplyIs, Others DEF Ways
  <2>9. ASSUME NEW q \in Proc PROVE ReplyOK(q)'
    <3>1. CASE q = p
      <4>1. timedOut[p] = 0 => \A x \in Ways : ~Reply(p, x)
        BY <2>1, NothingYet DEF Busy
      <4>2. Waiting(p)'
        BY <2>2 DEF Waiting, Moves
      <4> QED BY <2>1, <2>5, <2>7, <3>1, <4>1, <4>2 DEF ReplyOK, Ways
    <3>2. CASE q # p
      <4>1. Waiting(q)' <=> Waiting(q)
        BY <2>1, <2>2, <3>2 DEF Waiting, Moves
      <4> QED BY <2>1, <2>5, <2>8, <3>2, <4>1, StillKeeps DEF Still
    <3> QED BY <3>1, <3>2
  <2>10. ASSUME NEW u \in Thread PROVE MessageOK(u)'
    <3>1. CASE u = t
      <4> SUFFICES ASSUME timedOut[p] = 0 PROVE MessageOK(t)'
        BY <2>1, <3>1 DEF MessageOK
      <4>1. ~Answered(p) /\ swiPc[Other(p)] = "idle"
        BY <2>1, NothingYet DEF Busy
      <4>2. ~Answered(p)' /\ swiPc'[Other(p)] = "idle" /\ pc'[t] = "wait"
        BY <2>2, <2>5, <2>7, <4>1 DEF Moves, Answered, Ways
      <4>3. msg[p].name = name[t] /\ msg[p].requestStatus = "FALSE"
        BY <2>1 DEF MessageOK, Asking
      <4> QED BY <2>1, <2>2, <4>2, <4>3 DEF MessageOK
    <3>2. CASE u # t /\ procOf[u] = p
      <4>1. pc[u] \notin Asking
        BY <2>1, <3>2 DEF BlockInv, BusyOn, Busy, Asking
      <4>2. pc'[u] \notin Asking
        BY <2>2, <3>2, <4>1 DEF Moves
      <4> QED BY <4>2 DEF MessageOK
    <3>3. CASE u # t /\ procOf[u] # p
      <4> DEFINE q == procOf[u]
      <4>1. q \in Proc /\ (Asked(q)' <=> Asked(q)) /\ (Answered(q)' <=> Answered(q))
        BY <2>5, <2>8, <3>3, Places DEF Asked, Answered, Ways
      <4> QED BY <2>1, <2>2, <2>5, <3>3, <4>1, MessageStays DEF Moves
    <3> QED BY <3>1, <3>2, <3>3
  <2> QED BY <2>2, <2>4, <2>6, <2>9, <2>10, Observed
<1> QED BY <1>1, <1>2

\* Instance_init: nobody of p has asked yet, so nobody misses the message.
LEMMA InstanceInitKeeps ==
  ASSUME IInv, NEW p \in Proc, Instance_init(p), Observe
  PROVE  IInv'
<1> USE IInvIs
<1>1. /\ p \notin attached /\ attached' = attached \cup {p} /\ msg' = [msg EXCEPT ![p] = NoMessage]
      /\ UNCHANGED <<table, call, event, swi, sems, timedOut>>
  BY DEF Instance_init
<1>2. UNCHANGED <<event, postedRequest, postedResponse, swiPc, swiValue, semRemoteWait, semMultiBlock,
                  pc, name, timedOut>>
  BY <1>1 DEF swi, sems, call
<1>3. TableOK'
  BY <1>1, CallStays
<1>4. RemoteTypes' /\ \A q \in Proc : q # p => msg'[q] = msg[q]
  BY <1>1, <1>2 DEF RemoteTypes, NoMessage
<1>5. BlockInv' /\ AttachedInv'
  BY <1>1, <1>2, BlockStays, AttachedStays
<1>6. ASSUME NEW q \in Proc PROVE ReplyOK(q)'
  <2>1. Waiting(q)' <=> Waiting(q)
    BY <1>2 DEF Waiting
  <2> QED BY <1>2, <2>1, WaysStay, StillKeeps DEF Still
<1>7. ASSUME NEW t \in Thread PROVE MessageOK(t)'
  <2>1. CASE procOf[t] = p
    <3>1. pc'[t] \notin Asking
      BY <1>1, <1>2, <2>1 DEF AttachedInv, Busy, Asking
    <3> QED BY <3>1 DEF MessageOK
  <2>2. CASE procOf[t] # p
    BY <1>2, <1>4, <2>2, WaysStay, MessageStays, Places
  <2> QED BY <2>1, <2>2
<1> QED BY <1>3, <1>4, <1>5, <1>6, <1>7, Observed

\* A thread of p stops waiting.  It was the only one.
LEMMA NoWaiter ==
  ASSUME BlockInv, NEW t \in Thread, pc[t] = "wait", NEW label \in Labels \ {"wait"}, Moves(t, label)
  PROVE  /\ ~Waiting(procOf[t])'
         /\ \A q \in Proc : q # procOf[t] => (Waiting(q)' <=> Waiting(q))
         /\ \A u \in Thread : u # t /\ procOf[u] = procOf[t] => pc[u] \notin Asking /\ pc'[u] \notin Asking
<1>1. \A u \in Thread : u # t /\ procOf[u] = procOf[t] => pc[u] \notin Busy
  BY Places DEF BlockInv, BusyOn, Busy
<1>2. \A u \in Thread : u # t => pc'[u] = pc[u]
  BY DEF Moves
<1>3. pc'[t] # "wait"
  BY DEF Moves
<1> QED BY <1>1, <1>2, <1>3 DEF Waiting, Busy, Asking

\* Semaphore_pend of semRemoteWait succeeds: the answer has come.
LEMMA PendRemoteKeeps ==
  ASSUME IInv, NEW t \in Thread, PendRemote(t), Observe
  PROVE  IInv'
<1> USE IInvIs
<1> DEFINE p == procOf[t]
<1>1. /\ pc[t] = "wait" /\ semRemoteWait[p] > 0 /\ Goto(t, "read") /\ p \in Proc
      /\ semRemoteWait' = [semRemoteWait EXCEPT ![p] = semRemoteWait[p] - 1]
      /\ UNCHANGED <<table, remote, swi, semMultiBlock, timedOut>>
  BY Places DEF PendRemote, At
<1>2. TableOK' /\ Moves(t, "read") /\ name' = name
  BY <1>1, GotoKeeps DEF Labels
<1>3. /\ semRemoteWait'[p] = semRemoteWait[p] - 1 /\ semRemoteWait[p] \in Nat
      /\ semRemoteWait' \in [Proc -> Nat]
      /\ \A q \in Proc : q # p => semRemoteWait'[q] = semRemoteWait[q]
  BY <1>1 DEF RemoteTypes
<1>4. UNCHANGED <<msg, attached, event, postedRequest, postedResponse, swiPc, swiValue, semMultiBlock, timedOut>>
  BY <1>1 DEF remote, swi
<1>5. RemoteTypes'
  BY <1>3, <1>4 DEF RemoteTypes
<1>6. BlockInv' /\ AttachedInv'
  BY <1>1, <1>2, <1>4, BlockStays, AttachedStays DEF Moves, Busy
<1>7. /\ ~Waiting(p)' /\ \A q \in Proc : q # p => (Waiting(q)' <=> Waiting(q))
      /\ \A u \in Thread : u # t /\ procOf[u] = p => pc[u] \notin Asking /\ pc'[u] \notin Asking
  BY <1>1, <1>2, NoWaiter DEF Labels
<1>8. Reply(p, "sem") /\ "sem" \in Ways
  BY <1>1, ReplyIs DEF Ways
<1>9. timedOut[p] = 0 => semRemoteWait'[p] = 0 /\ \A x \in Ways : ~Reply(p, x)'
  <2> SUFFICES ASSUME timedOut[p] = 0 PROVE semRemoteWait'[p] = 0 /\ \A x \in Ways : ~Reply(p, x)'
    OBVIOUS
  <2>1. semRemoteWait'[p] = 0 /\ \A x \in Ways : Reply(p, x) => x = "sem"
    BY <1>1, <1>3, <1>8 DEF ReplyOK
  <2>2. \A x \in Ways : x # "sem" => (Reply(p, x)' <=> Reply(p, x))
    BY <1>1, <1>4, ReplyIs DEF Ways
  <2>3. ~Reply(p, "sem")'
    BY <1>1, <2>1, ReplyIs
  <2> QED BY <2>1, <2>2, <2>3
<1>10. ASSUME NEW q \in Proc PROVE ReplyOK(q)'
  <2>1. CASE q = p
    BY <1>4, <1>7, <1>9, <2>1 DEF ReplyOK
  <2>2. CASE q # p
    BY <1>3, <1>4, <1>7, <2>2, WaysStay, StillKeeps DEF Still
  <2> QED BY <2>1, <2>2
<1>11. ASSUME NEW u \in Thread PROVE MessageOK(u)'
  <2>1. CASE u = t
    <3> SUFFICES ASSUME timedOut[p] = 0 PROVE MessageOK(t)'
      BY <1>4, <2>1 DEF MessageOK
    <3>1. Answer(p) \in window[t]
      BY <1>1, <1>8 DEF MessageOK, Answered, Asking
    <3>2. Answer(p)' \in window'[t] /\ pc'[t] = "read"
      BY <1>1, <1>2, <1>4, <3>1, Observed DEF Answer, Asking, Moves
    <3>3. ~Asked(p)' /\ swiPc'[Other(p)] # "answer"
      BY <1>1, <1>9, ReplyIs DEF Asked, Ways
    <3> QED BY <3>2, <3>3 DEF MessageOK
  <2>2. CASE u # t /\ procOf[u] = p
    BY <1>7, <2>2 DEF MessageOK
  <2>3. CASE u # t /\ procOf[u] # p
    BY <1>2, <1>3, <1>4, <2>3, WaysStay, MessageStays, Places DEF Moves
  <2> QED BY <2>1, <2>2, <2>3
<1> QED BY <1>2, <1>5, <1>6, <1>10, <1>11, Observed

\* E_TIMEOUT: from now on nothing is promised to the threads of p.
LEMMA TimeoutKeeps ==
  ASSUME IInv, NEW t \in Thread, Timeout(t), Observe
  PROVE  IInv'
<1> USE IInvIs
<1> DEFINE p == procOf[t]
<1>1. /\ pc[t] = "wait" /\ Return(t) /\ p \in Proc /\ timedOut[p] < MaxTimeouts[p]
      /\ semMultiBlock' = [semMultiBlock EXCEPT ![p] = semMultiBlock[p] + 1]
      /\ timedOut' = [timedOut EXCEPT ![p] = timedOut[p] + 1]
      /\ UNCHANGED <<table, remote, swi, semRemoteWait>>
  BY Places DEF Timeout, At
<1>2. TableOK' /\ Moves(t, "idle")
  BY <1>1, ReturnKeeps
<1>3. BlockInv' /\ semMultiBlock' \in [Proc -> 0..1]
  BY <1>1, <1>2, BlockLeft DEF Busy
<1>4. UNCHANGED <<msg, attached, event, postedRequest, postedResponse, swiPc, swiValue, semRemoteWait>>
  BY <1>1 DEF remote, swi
<1>5. /\ timedOut' \in [Proc -> Nat] /\ \A q \in Proc : timedOut'[q] <= MaxTimeouts[q]
      /\ \A q \in Proc : q # p => timedOut'[q] = timedOut[q]
      /\ timedOut'[p] # 0
  BY <1>1, TimeoutAssumption DEF RemoteTypes
<1>6. RemoteTypes'
  BY <1>3, <1>4, <1>5 DEF RemoteTypes
<1>7. AttachedInv'
  BY <1>2, <1>4, AttachedStays DEF Moves, Busy
<1>8. /\ ~Waiting(p)' /\ \A q \in Proc : q # p => (Waiting(q)' <=> Waiting(q))
  BY <1>1, <1>2, NoWaiter DEF Labels
<1>9. ASSUME NEW q \in Proc PROVE ReplyOK(q)'
  <2>1. CASE q = p
    BY <1>5, <1>8, <2>1 DEF ReplyOK
  <2>2. CASE q # p
    BY <1>4, <1>5, <1>8, <2>2, WaysStay, StillKeeps DEF Still
  <2> QED BY <2>1, <2>2
<1>10. ASSUME NEW u \in Thread PROVE MessageOK(u)'
  <2>1. CASE procOf[u] = p
    BY <1>5, <2>1 DEF MessageOK
  <2>2. CASE procOf[u] # p
    BY <1>2, <1>4, <1>5, <2>2, WaysStay, MessageStays, Places DEF Moves
  <2> QED BY <2>1, <2>2
<1> QED BY <1>2, <1>3, <1>6, <1>7, <1>9, <1>10, Observed

-----------------------------------------------------------------------------
\* Steps of the isr and the swis: the threads stand still.
LEMMA SystemKeeps ==
  ASSUME IInv, Observe, RemoteTypes',
         UNCHANGED <<table, call, attached, semMultiBlock, timedOut>>,
         \A p \in Proc : ReplyOK(p)',
         \A t \in Thread : MessageOK(t)'
  PROVE  IInv'
<1> USE IInvIs
<1>1. UNCHANGED <<pc, name>> /\ TableOK'
  BY CallStays DEF call
<1>2. BlockInv' /\ AttachedInv'
  BY <1>1, BlockStays, AttachedStays
<1> QED BY <1>1, <1>2, Observed

\* An answer to p passes from one way to the next; nothing moves in the other
\* direction, and no message is written.
LEMMA PassKeeps ==
  ASSUME IInv, Observe, RemoteTypes', NEW p \in Proc, NEW x \in Ways, NEW y \in Ways,
         UNCHANGED <<table, call, attached, semMultiBlock, timedOut, msg>>,
         Passes(p, x, y), timedOut[p] = 0 => semRemoteWait'[p] <= 1,
         Asked(p)' => Asked(p), Answered(p)' => Answered(p),
         swiPc'[Other(p)] = "answer" =>
           swiPc[Other(p)] = "answer" /\ swiValue'[Other(p)] = swiValue[Other(p)],
         \A z \in Ways : Reply(Other(p), z)' <=> Reply(Other(p), z),
         semRemoteWait'[Other(p)] = semRemoteWait[Other(p)],
         swiPc'[p] = swiPc[p], swiValue'[p] = swiValue[p]
  PROVE  IInv'
<1> USE IInvIs
<1>1. UNCHANGED <<pc, name>>
  BY DEF call
<1>2. \A q \in Proc : Waiting(q)' <=> Waiting(q)
  BY <1>1 DEF Waiting
<1>3. ASSUME NEW q \in Proc PROVE ReplyOK(q)'
  <2>1. CASE q = p
    BY <1>2, <2>1, PassesKeeps
  <2>2. CASE q = Other(p)
    BY <1>2, <2>2, Others, StillKeeps DEF Still
  <2> QED BY <2>1, <2>2, Others
<1>4. ASSUME NEW t \in Thread PROVE MessageOK(t)'
  <2>1. CASE procOf[t] = p
    BY <1>1, <2>1, MessageStays
  <2>2. CASE procOf[t] = Other(p)
    <3>1. Other(Other(p)) = p
      BY Others
    <3>2. (Asked(Other(p))' <=> Asked(Other(p))) /\ (Answered(Other(p))' <=> Answered(Other(p)))
      BY <3>1 DEF Asked, Answered, Ways
    <3> QED BY <1>1, <2>2, <3>1, <3>2, MessageStays
  <2> QED BY <2>1, <2>2, Others, Places
<1> QED BY <1>3, <1>4, SystemKeeps

\* cbFxn: the event of the other processor becomes a posted swi, of p for a
\* request, towards p for a response.
LEMMA CbFxnKeeps ==
  ASSUME IInv, NEW p \in Proc, cbFxn(p), Observe
  PROVE  IInv'
<1> USE IInvIs
<1> DEFINE q == Other(p)
<1>1. q \in Proc /\ q # p /\ Other(q) = p
  BY Others
<1>2. /\ event[q] # "none" /\ event' = [event EXCEPT ![q] = "none"]
      /\ UNCHANGED <<table, call, attached, msg, swiPc, swiValue, sems, timedOut>>
  BY DEF cbFxn
<1>3. /\ event'[q] = "none" /\ event'[p] = event[p]
      /\ UNCHANGED <<semMultiBlock, semRemoteWait>>
  BY <1>1, <1>2 DEF RemoteTypes, sems
<1>4. timedOut[p] = 0 => semRemoteWait[p] <= 1
  BY DEF ReplyOK
<1>5. timedOut[q] = 0 => semRemoteWait[q] <= 1
  BY <1>1 DEF ReplyOK
<1>6. CASE event[q] = "Request"
  <2>1. postedRequest' = [postedRequest EXCEPT ![p] = "yes"] /\ postedResponse' = postedResponse
    BY <1>6 DEF cbFxn
  <2>2. postedRequest'[p] = "yes" /\ postedRequest'[q] = postedRequest[q]
    BY <1>1, <2>1 DEF RemoteTypes
  <2>3. RemoteTypes'
    BY <1>1, <1>2, <1>3, <2>1 DEF RemoteTypes
  <2>4. Passes(q, "request", "swiRequest")
    BY <1>1, <1>2, <1>3, <1>6, <2>1, <2>2, ReplyIs DEF Passes, Ways
  <2>5. \A z \in Ways : Reply(p, z)' <=> Reply(p, z)
    BY <1>1, <1>2, <1>3, <1>6, <2>1, <2>2, ReplyIs DEF Ways
  <2>6. (Asked(q)' => Asked(q)) /\ (Answered(q)' => Answered(q))
    BY <1>1, <1>2, <2>4 DEF Asked, Answered, Passes, Ways
  <2> QED BY <1>1, <1>2, <1>3, <1>5, <2>3, <2>4, <2>5, <2>6, PassKeeps DEF Ways
<1>7. CASE event[q] = "Response"
  <2>1. postedResponse' = [postedResponse EXCEPT ![p] = "yes"] /\ postedRequest' = postedRequest
    BY <1>7 DEF cbFxn
  <2>2. postedResponse'[p] = "yes" /\ postedResponse'[q] = postedResponse[q]
    BY <1>1, <2>1 DEF RemoteTypes
  <2>3. RemoteTypes'
    BY <1>1, <1>2, <1>3, <2>1 DEF RemoteTypes
  <2>4. Passes(p, "response", "swiResponse")
    BY <1>1, <1>2, <1>3, <1>7, <2>1, <2>2, ReplyIs DEF Passes, Ways
  <2>5. \A z \in Ways : Reply(q, z)' <=> Reply(q, z)
    BY <1>1, <1>2, <1>3, <1>7, <2>1, <2>2, ReplyIs DEF Ways
  <2>6. (Asked(p)' => Asked(p)) /\ (Answered(p)' => Answered(p))
    BY <1>1, <1>2, <2>4 DEF Asked, Answered, Passes, Ways
  <2> QED BY <1>1, <1>2, <1>3, <1>4, <2>3, <2>4, <2>5, <2>6, PassKeeps DEF Ways
<1> QED BY <1>1, <1>2, <1>6, <1>7 DEF RemoteTypes

\* swiFxnRequest: the name of the message is that of the asker, and what the
\* table says of it now is in its window.
LEMMA SwiRequestKeeps ==
  ASSUME IInv, NEW p \in Proc, swiFxnRequest(p), Observe
  PROVE  IInv'
<1> USE IInvIs
<1> DEFINE q == Other(p)
<1>1. q \in Proc /\ q # p /\ Other(q) = p
  BY Others
<1>2. /\ swiPc[p] = "idle" /\ postedRequest[p] = "yes"
      /\ postedRequest' = [postedRequest EXCEPT ![p] = "no"]
      /\ swiValue' = [swiValue EXCEPT ![p] = getLocal(p, msg[q].name)]
      /\ swiPc' = [swiPc EXCEPT ![p] = "answer"]
      /\ UNCHANGED <<table, call, remote, postedResponse, sems, timedOut>>
  BY DEF swiFxnRequest
<1>3. UNCHANGED <<attached, msg, event, semMultiBlock, semRemoteWait, pc, name>>
  BY <1>2 DEF remote, sems, call
<1>4. getLocal(p, msg[q].name) \in Value \cup {NULL}
  BY LookedUp DEF TableOK
<1>5. /\ swiPc'[p] = "answer" /\ swiPc'[q] = swiPc[q] /\ swiValue'[q] = swiValue[q]
      /\ swiValue'[p] = getLocal(p, msg[q].name)
      /\ postedRequest'[p] = "no" /\ postedRequest'[q] = postedRequest[q] /\ RemoteTypes'
  BY <1>1, <1>2, <1>3, <1>4 DEF RemoteTypes
<1>6. Passes(q, "swiRequest", "swi") /\ \A z \in Ways : Reply(p, z)' <=> Reply(p, z)
  BY <1>1, <1>2, <1>3, <1>5, ReplyIs DEF Passes, Ways
<1>7. ASSUME NEW r \in Proc PROVE ReplyOK(r)'
  <2>1. Waiting(r)' <=> Waiting(r)
    BY <1>3 DEF Waiting
  <2>2. CASE r = q
    <3>1. timedOut[q] = 0 => semRemoteWait'[q] <= 1
      BY <1>1, <1>3 DEF ReplyOK
    <3> QED BY <1>1, <1>2, <1>6, <2>1, <2>2, <3>1, PassesKeeps DEF Ways
  <2>3. CASE r = p
    BY <1>2, <1>3, <1>6, <2>1, <2>3, StillKeeps DEF Still
  <2> QED BY <2>2, <2>3, Others
<1>8. ASSUME NEW t \in Thread PROVE MessageOK(t)'
  <2>1. CASE procOf[t] = p
    <3>1. (Asked(p)' <=> Asked(p)) /\ (Answered(p)' <=> Answered(p))
      BY <1>5, <1>6 DEF Asked, Answered, Ways
    <3> QED BY <1>2, <1>3, <1>5, <2>1, <3>1, MessageStays
  <2>2. CASE procOf[t] = q /\ pc[t] \in Asking /\ timedOut[q] = 0
    <3>1. Reply(q, "swiRequest") /\ Asked(q)
      BY <1>1, <1>2, ReplyIs DEF Asked
    <3>2. pc[t] = "wait"
      <4>1. BlockInv /\ ReplyOK(procOf[t]) /\ timedOut[procOf[t]] = 0 /\ pc[t] \in Busy
        BY <1>1, <2>2 DEF Busy, Asking
      <4>2. pc[t] # "wait" => ~Asked(procOf[t])
        BY ONLY t \in Thread, <4>1, NothingYet
      <4> QED BY <2>2, <3>1, <4>2
    <3>3. msg[q].name = name[t] /\ msg[q].requestStatus = "FALSE"
      BY <2>2, <3>1, <3>2 DEF MessageOK
    <3>4. getLocal(p, name[t])' \in window'[t]
      BY <1>1, <1>3, <2>2, Observed DEF WindowInv
    <3>5. getLocal(p, name[t])' = getLocal(p, name[t])
      BY <1>2, <1>3, SameLookup DEF table
    <3>6. swiValue'[p] \in window'[t]
      BY <1>5, <3>3, <3>4, <3>5
    <3>7. ~Answered(q)'
      <4>1. \A x \in Ways : Reply(q, x) => x = "swiRequest"
        BY <1>1, <2>2, <3>1 DEF ReplyOK, Ways
      <4> QED BY <1>1, <1>5, <1>6, <4>1 DEF Answered, Passes, Ways
    <3> QED BY <1>1, <1>3, <2>2, <3>2, <3>3, <3>6, <3>7 DEF MessageOK
  <2>3. CASE procOf[t] = q /\ (pc[t] \notin Asking \/ timedOut[q] # 0)
    BY <1>2, <1>3, <2>3 DEF MessageOK
  <2> QED BY <2>1, <2>2, <2>3, Others, Places
<1> QED BY <1>2, <1>3, <1>5, <1>7, <1>8, SystemKeeps

\* ... the value goes to the message, or nothing does: both are true answers.
LEMMA SwiAnswerKeeps ==
  ASSUME IInv, NEW p \in Proc, SwiAnswer(p), Observe
  PROVE  IInv'
<1> USE IInvIs
<1> DEFINE q == Other(p)
<1>1. q \in Proc /\ q # p /\ Other(q) = p
  BY Others
<1>2. /\ swiPc[p] = "answer" /\ swiPc' = [swiPc EXCEPT ![p] = "send"]
      /\ UNCHANGED <<table, call, attached, event, postedRequest, postedResponse, swiValue, sems, timedOut>>
      /\ swiValue[p] \in Value \cup {NULL}
  BY DEF SwiAnswer, RemoteTypes
<1>3. UNCHANGED <<semMultiBlock, semRemoteWait, pc, name>>
  BY <1>2 DEF sems, call
<1>4. swiPc'[p] = "send" /\ swiPc'[q] = swiPc[q]
  BY <1>1, <1>2 DEF RemoteTypes
<1>5. /\ RemoteTypes' /\ msg'[p] = msg[p] /\ msg'[q].name = msg[q].name
      /\ swiValue[p] = NULL => msg' = msg
      /\ swiValue[p] # NULL => msg'[q].requestStatus = "TRUE" /\ msg'[q].value = swiValue[p]
  <2>1. CASE swiValue[p] = NULL
    BY <1>2, <1>3, <1>4, <2>1 DEF SwiAnswer, RemoteTypes
  <2>2. CASE swiValue[p] # NULL
    <3>1. msg' = [msg EXCEPT ![q].requestStatus = "TRUE", ![q].value = swiValue[p]]
      BY <2>2 DEF SwiAnswer
    <3> DEFINE m == [msg[q] EXCEPT !.requestStatus = "TRUE", !.value = swiValue[p]]
               M == [requestStatus : {"FALSE", "TRUE"}, name : Name \cup {NULL}, value : Value \cup {NULL}]
    <3>2. msg \in [Proc -> M] /\ msg[q] \in M
      BY <1>1 DEF RemoteTypes
    <3>3. m \in M /\ m.requestStatus = "TRUE" /\ m.value = swiValue[p] /\ m.name = msg[q].name
      BY <1>2, <3>2
    <3>4. msg' = [msg EXCEPT ![q] = m]
      BY <1>1, <3>1, <3>2
    <3> HIDE DEF m, M
    <3>5. msg'[q] = m /\ msg'[p] = msg[p] /\ msg' \in [Proc -> M]
      BY <1>1, <3>2, <3>3, <3>4
    <3> QED BY <1>2, <1>3, <1>4, <2>2, <3>3, <3>5 DEF RemoteTypes, M
  <2> QED BY <2>1, <2>2
<1>6. ASSUME NEW r \in Proc PROVE \A z \in Ways : Reply(r, z)' <=> Reply(r, z)
  BY <1>1, <1>2, <1>3, <1>4, ReplyIs, Others DEF Ways
<1>7. ASSUME NEW r \in Proc PROVE ReplyOK(r)'
  <2>1. Waiting(r)' <=> Waiting(r)
    BY <1>3 DEF Waiting
  <2> QED BY <1>2, <1>3, <1>6, <2>1, StillKeeps DEF Still
<1>8. ASSUME NEW t \in Thread PROVE MessageOK(t)'
  <2>1. CASE procOf[t] = p
    <3>1. (Asked(p)' <=> Asked(p)) /\ (Answered(p)' <=> Answered(p))
      BY <1>4, <1>6 DEF Asked, Answered, Ways
    <3> QED BY <1>2, <1>3, <1>4, <1>5, <2>1, <3>1, MessageStays
  <2>2. CASE procOf[t] = q /\ pc[t] \in Asking /\ timedOut[q] = 0
    <3>1. Asked(q) /\ Reply(q, "swi")
      BY <1>1, <1>2, ReplyIs DEF Asked
    <3>2. pc[t] = "wait"
      <4>1. BlockInv /\ ReplyOK(procOf[t]) /\ timedOut[procOf[t]] = 0 /\ pc[t] \in Busy
        BY <1>1, <2>2 DEF Busy, Asking
      <4>2. pc[t] # "wait" => ~Asked(procOf[t])
        BY ONLY t \in Thread, <4>1, NothingYet
      <4> QED BY <2>2, <3>1, <4>2
    <3>3. /\ msg[q].name = name[t] /\ msg[q].requestStatus = "FALSE" /\ swiValue[p] \in window[t]
      BY <1>1, <1>2, <2>2, <3>1, <3>2 DEF MessageOK
    <3>4. Answer(q)' = swiValue[p]
      BY <1>2, <1>5, <3>3 DEF Answer
    <3>5. Answer(q)' \in window'[t]
      BY <1>3, <2>2, <3>3, <3>4, Observed
    <3>6. ~Asked(q)'
      <4>1. \A x \in Ways : Reply(q, x) => x = "swi"
        BY <1>1, <2>2, <3>1 DEF ReplyOK, Ways
      <4> QED BY <1>1, <1>4, <1>6, <4>1 DEF Asked, Ways
    <3> QED BY <1>1, <1>2, <1>3, <1>4, <1>5, <2>2, <3>2, <3>3, <3>5, <3>6 DEF MessageOK
  <2>3. CASE procOf[t] = q /\ (pc[t] \notin Asking \/ timedOut[q] # 0)
    BY <1>2, <1>3, <2>3 DEF MessageOK
  <2> QED BY <2>1, <2>2, <2>3, Others, Places
<1> QED BY <1>2, <1>3, <1>5, <1>7, <1>8, SystemKeeps

\* ... and the event, once it is free, announces it.
LEMMA SwiSendKeeps ==
  ASSUME IInv, NEW p \in Proc, SwiSend(p), Observe
  PROVE  IInv'
<1> USE IInvIs
<1> DEFINE q == Other(p)
<1>1. q \in Proc /\ q # p /\ Other(q) = p
  BY Others
<1>2. /\ swiPc[p] = "send" /\ event[p] = "none" /\ event' = [event EXCEPT ![p] = "Response"]
      /\ swiPc' = [swiPc EXCEPT ![p] = "idle"] /\ swiValue' = [swiValue EXCEPT ![p] = NULL]
      /\ UNCHANGED <<table, call, attached, msg, postedRequest, postedResponse, sems, timedOut>>
  BY DEF SwiSend
<1>3. /\ event'[p] = "Response" /\ event'[q] = event[q] /\ swiPc'[p] = "idle" /\ swiPc'[q] = swiPc[q]
      /\ swiValue'[q] = swiValue[q] /\ UNCHANGED <<semMultiBlock, semRemoteWait>>
  BY <1>1, <1>2 DEF RemoteTypes, sems
<1>4. RemoteTypes'
  BY <1>2, <1>3 DEF RemoteTypes
<1>5. Passes(q, "swi", "response") /\ \A z \in Ways : Reply(p, z)' <=> Reply(p, z)
  BY <1>1, <1>2, <1>3, ReplyIs DEF Passes, Ways
<1>6. (Asked(q)' => Asked(q)) /\ (Answered(q)' => Answered(q))
  BY <1>1, <1>2, <1>3, <1>5 DEF Asked, Answered, Passes, Ways
<1>7. timedOut[q] = 0 => semRemoteWait'[q] <= 1
  BY <1>1, <1>3 DEF ReplyOK
<1> QED BY <1>1, <1>2, <1>3, <1>4, <1>5, <1>6, <1>7, PassKeeps DEF Ways

\* swiFxnResponse posts semRemoteWait, which has no count then.
LEMMA SwiResponseKeeps ==
  ASSUME IInv, NEW p \in Proc, swiFxnResponse(p), Observe
  PROVE  IInv'
<1> USE IInvIs
<1> DEFINE q == Other(p)
<1>1. q \in Proc /\ q # p /\ Other(q) = p
  BY Others
<1>2. /\ postedResponse[p] = "yes" /\ postedResponse' = [postedResponse EXCEPT ![p] = "no"]
      /\ semRemoteWait' = [semRemoteWait EXCEPT ![p] = semRemoteWait[p] + 1]
      /\ UNCHANGED <<table, call, remote, postedRequest, swiPc, swiValue, semMultiBlock, timedOut>>
  BY DEF swiFxnResponse
<1>3. /\ postedResponse'[p] = "no" /\ postedResponse'[q] = postedResponse[q]
      /\ semRemoteWait[p] \in Nat /\ semRemoteWait'[p] = semRemoteWait[p] + 1
      /\ semRemoteWait'[q] = semRemoteWait[q] /\ UNCHANGED <<attached, msg, event>>
  BY <1>1, <1>2 DEF RemoteTypes, remote
<1>4. RemoteTypes'
  BY <1>2, <1>3 DEF RemoteTypes
<1>5. Passes(p, "swiResponse", "sem") /\ \A z \in Ways : Reply(q, z)' <=> Reply(q, z)
  BY <1>1, <1>2, <1>3, ReplyIs DEF Passes, Ways
<1>6. (Asked(p)' => Asked(p)) /\ (Answered(p)' => Answered(p))
  BY <1>2, <1>5 DEF Asked, Answered, Passes, Ways
<1>7. timedOut[p] = 0 => semRemoteWait'[p] <= 1
  <2>1. Reply(p, "swiResponse") /\ (Reply(p, "sem") <=> semRemoteWait[p] > 0)
    BY <1>2, ReplyIs
  <2>2. timedOut[p] = 0 => ~Reply(p, "sem")
    BY <2>1 DEF ReplyOK, Ways
  <2> QED BY <1>3, <2>1, <2>2
<1> QED BY <1>1, <1>2, <1>3, <1>4, <1>5, <1>6, <1>7, PassKeeps DEF Ways

-----------------------------------------------------------------------------
\* Everything together.
LEMMA InitIInv ==
  ASSUME Init
  PROVE  IInv
<1> USE IInvIs
<1>1. TableTypeOK /\ pc \in [Thread -> Labels]
  <2>1. [e \in Entry |-> e] \in Seq(Entry)
    BY TableAssumption DEF Entry
  <2>2. freeList \in [Proc -> Seq(Entry)]
    BY <2>1 DEF Init, TableInit
  <2>3. /\ nameList \in [Proc -> Seq(Entry)]
        /\ keys \in [Proc -> SUBSET Entry]
    BY DEF Init, TableInit
  <2>4. content \in [Proc -> [Entry -> [name : Name \cup {NULL}, value : Value \cup {NULL}]]]
    BY DEF Init, TableInit, NoContent
  <2>5. /\ name \in [Thread -> Name \cup {NULL}]
        /\ value \in [Thread -> Value \cup {NULL}]
        /\ hand \in [Thread -> Entry \cup {NULL}]
        /\ pc \in [Thread -> Labels]
    BY DEF Init, TableInit, Labels
  <2> QED BY <2>2, <2>3, <2>4, <2>5 DEF TableTypeOK
<1>2. TableInv
  <2>1. \A q \in Proc, d \in Entry :
          /\ ~InNames(q, d) /\ InFree(q, d) /\ \A t \in Thread : ~Has(t, q, d)
    BY TableAssumption DEF Init, TableInit, InNames, InFree, On, Has
  <2>2. PlaceInv
    BY <2>1, PlaceIs DEF Placed
  <2>3. ListsInv /\ HandInv /\ KeysInv
    BY DEF Init, TableInit, ListsInv, NoRepeat, HandInv, KeysInv
  <2> QED BY <2>2, <2>3 DEF TableInv
<1>3. RemoteTypes
  BY TimeoutAssumption DEF Init, RemoteTypes, NoMessage
<1>4. \A t \in Thread : pc[t] = "idle"
  BY DEF Init, TableInit
<1>5. BlockInv /\ AttachedInv /\ WindowInv
  BY <1>4 DEF BlockInv, BusyOn, Busy, AttachedInv, WindowInv, Asking, Init
<1>6. ASSUME NEW p \in Proc PROVE ReplyOK(p)
  <2>1. \A x \in Ways : ~Reply(p, x)
    BY Others, ReplyIs DEF Init, Ways
  <2> QED BY <1>4, <2>1 DEF ReplyOK, Waiting, Init
<1>7. \A t \in Thread : MessageOK(t)
  BY <1>4 DEF MessageOK, Asking
<1> QED BY <1>1, <1>2, <1>3, <1>5, <1>6, <1>7 DEF TableOK

LEMMA NextKeeps ==
  ASSUME IInv, Next
  PROVE  IInv'
<1>1. Observe
  BY DEF Next
<1>2. ASSUME NEW t \in Thread, Local(t) PROVE IInv'
  BY <1>1, <1>2, LocalKeeps
<1>3. ASSUME NEW t \in Thread, PendMulti(t) PROVE IInv'
  BY <1>1, <1>3, PendMultiKeeps
<1>4. ASSUME NEW t \in Thread, GetStep(t) PROVE IInv'
  BY <1>1, <1>4, WriteRequestKeeps, SendRequestKeeps, PendRemoteKeeps, ReadAnswerKeeps DEF GetStep
<1>5. ASSUME NEW t \in Thread, Timeout(t) PROVE IInv'
  BY <1>1, <1>5, TimeoutKeeps
<1>6. ASSUME NEW t \in Thread, NEW n \in Name, get(t, n) PROVE IInv'
  BY <1>1, <1>6, GetKeeps
<1>7. ASSUME NEW p \in Proc, Instance_init(p) PROVE IInv'
  BY <1>1, <1>7, InstanceInitKeeps
<1>8. ASSUME NEW p \in Proc, cbFxn(p) PROVE IInv'
  BY <1>1, <1>8, CbFxnKeeps
<1>9. ASSUME NEW p \in Proc, SwiStep(p) PROVE IInv'
  BY <1>1, <1>9, SwiRequestKeeps, SwiAnswerKeeps, SwiSendKeeps, SwiResponseKeeps DEF SwiStep
<1> QED BY <1>2, <1>3, <1>4, <1>5, <1>6, <1>7, <1>8, <1>9 DEF Next

LEMMA StutterKeeps ==
  ASSUME IInv, UNCHANGED vars
  PROVE  IInv'
<1> USE IInvIs
<1>1. UNCHANGED <<table, call, remote, swi, sems, timedOut, window>>
  BY DEF vars
<1>2. TableOK' /\ RemoteTypes'
  BY <1>1, CallStays, TypesStay
<1>3. UNCHANGED <<nameList, content, pc, name, msg, attached, event, postedRequest, postedResponse,
                  swiPc, swiValue, semRemoteWait, semMultiBlock>>
  BY <1>1 DEF table, call, remote, swi, sems
<1>4. BlockInv' /\ AttachedInv'
  BY <1>3, BlockStays, AttachedStays
<1>5. ASSUME NEW p \in Proc PROVE ReplyOK(p)'
  <2>1. Waiting(p)' <=> Waiting(p)
    BY <1>3 DEF Waiting
  <2> QED BY <1>1, <1>3, <2>1, WaysStay, StillKeeps DEF Still
<1>6. WindowInv'
  <2>1. \A t \in Thread : getLocal(Other(procOf[t]), name[t])' = getLocal(Other(procOf[t]), name[t])
    BY <1>3, SameLookup
  <2> QED BY <1>1, <1>3, <2>1 DEF WindowInv
<1>7. ASSUME NEW t \in Thread PROVE MessageOK(t)'
  <2>1. (Asked(procOf[t])' <=> Asked(procOf[t])) /\ (Answered(procOf[t])' <=> Answered(procOf[t]))
    BY <1>3, WaysStay, Places
  <2>2. Answer(procOf[t])' = Answer(procOf[t])
    BY <1>3 DEF Answer
  <2> QED BY <1>1, <1>3, <2>1, <2>2 DEF MessageOK
<1> QED BY <1>2, <1>4, <1>5, <1>6, <1>7

\* A set whose members are all equal.
LEMMA OneIn ==
  ASSUME NEW S, S # {}, \A x, y \in S : x = y
  PROVE  Cardinality(S) = 1
<1>1. PICK x : x \in S
  OBVIOUS
<1>2. S = {x}
  BY <1>1
<1> QED BY <1>2, FS_Singleton

\* A place instead of counts: an entry that is in one place is counted once.
LEMMA Accounted ==
  ASSUME TableTypeOK, TableInv
  PROVE  EntriesAccounted
<1> SUFFICES ASSUME NEW p \in Proc, NEW e \in Entry
             PROVE  Cardinality({i \in DOMAIN nameList[p] : nameList[p][i] = e})
                      + Cardinality({i \in DOMAIN freeList[p] : freeList[p][i] = e})
                      + Cardinality({t \in Thread : procOf[t] = p /\ hand[t] = e}) = 1
  BY DEF EntriesAccounted
<1> DEFINE N == {i \in DOMAIN nameList[p] : nameList[p][i] = e}
           F == {i \in DOMAIN freeList[p] : freeList[p][i] = e}
           H == {t \in Thread : procOf[t] = p /\ hand[t] = e}
<1>1. Cardinality({}) = 0
  BY FS_EmptySet
<1>2. \A i, j \in N : i = j
  BY DEF TableInv, ListsInv, NoRepeat
<1>3. \A i, j \in F : i = j
  BY DEF TableInv, ListsInv, NoRepeat
<1>4. \A t, u \in H : t = u
  BY DEF TableInv, PlaceInv, Has
<1>5. \/ N # {} /\ F = {} /\ H = {}
      \/ N = {} /\ F # {} /\ H = {}
      \/ N = {} /\ F = {} /\ H # {}
  BY DEF TableInv, PlaceInv, Has, On
<1> HIDE DEF N, F, H
<1>6. Cardinality(N) + Cardinality(F) + Cardinality(H) = 1
  <2>1. CASE N # {} /\ F = {} /\ H = {}
    BY <1>1, <1>2, <2>1, OneIn
  <2>2. CASE N = {} /\ F # {} /\ H = {}
    BY <1>1, <1>3, <2>2, OneIn
  <2>3. CASE N = {} /\ F = {} /\ H # {}
    BY <1>1, <1>4, <2>3, OneIn
  <2> QED BY <1>5, <2>1, <2>2, <2>3
<1> QED BY <1>6 DEF N, F, H

\* NameServer_add, remove and removeEntry of NameServer.c lose no entry of a
\* table, and the remote half keeps the invariant behind the next two theorems.
THEOREM InvHolds == Spec => []Inv
<1>1. Init => IInv
  BY InitIInv
<1>2. IInv /\ [Next]_vars => IInv'
  BY NextKeeps, StutterKeeps
<1>3. IInv => Inv
  BY Accounted DEF Inv, IInv, TypeOK
<1> QED BY <1>1, <1>2, <1>3, PTL DEF Spec

\* NameServerRemoteNotify_get: until a get of the processor times out, a get
\* returns what the other processor's table had for the name in between.
THEOREM AnswerInWindowHolds == Spec => []AnswerInWindow
<1>1. Inv => AnswerInWindow
  BY IInvIs DEF Inv, MessageOK, AnswerInWindow, Asking
<1> QED BY <1>1, InvHolds, PTL

\* NameServerRemoteNotify_get: who waits has an answer under way, also after
\* timeouts, and without them there is never a second one.
THEOREM ReplyUnderWayHolds == Spec => []ReplyUnderWay
<1>1. Inv => ReplyUnderWay
  <2> SUFFICES ASSUME Inv, NEW p \in Proc
               PROVE  /\ (\E t \in Thread : procOf[t] = p /\ pc[t] = "wait") => UnderWay(p) # {}
                      /\ timedOut[p] = 0 => Cardinality(UnderWay(p)) <= 1 /\ semRemoteWait[p] <= 1
    BY DEF ReplyUnderWay
  <2>1. OneReply /\ SomeReply
    BY DEF Inv, IInv
  <2>2. ASSUME \A x, y \in UnderWay(p) : x = y
        PROVE  Cardinality(UnderWay(p)) <= 1
    <3>1. CASE UnderWay(p) = {}
      BY <3>1, FS_EmptySet
    <3>2. CASE UnderWay(p) # {}
      <4>1. Cardinality(UnderWay(p)) = 1
        BY <2>2, <3>2, OneIn
      <4> QED BY <4>1
    <3> QED BY <3>1, <3>2
  <2> QED BY <2>1, <2>2 DEF OneReply, SomeReply
<1> QED BY <1>1, InvHolds, PTL
=============================================================================
