------------------------------- MODULE ListMP -------------------------------
(***************************************************************************)
(* packages/ti/sdo/ipc/ListMP.c: a doubly linked list in shared memory.    *)
(* Every operation works inside the list's GateMP, so it is one step; what *)
(* is hard is that each processor sees the memory through a cache of its   *)
(* own.  Only the Cache_inv and Cache_wbInv calls of the operations keep   *)
(* the caches from serving old links and from overwriting new ones.        *)
(*                                                                         *)
(* An element is a cache line: its links and the user's data.  The head of *)
(* the list is a line too.  Caches may evict a line at any time, and those *)
(* of ARM cores fetch lines on their own.                                  *)
(***************************************************************************)
EXTENDS Naturals, Sequences, FiniteSets, SequencesExt

CONSTANTS
  Proc,         \* processors
  Elem,         \* elements
  Head_,        \* attrs->head
  CachedLine,   \* lines in regions with cacheEnabled
  Arm,          \* processors whose code is compiled for v7A or v8A ...
  Speculated,   \* ... and the lines that these may fetch speculatively
  NULL

Line == Elem \cup {Head_}
Link == {"next", "prev"}

ASSUME LineAssumption ==
  /\ CachedLine \subseteq Line /\ Speculated \subseteq CachedLine
  /\ Arm \subseteq Proc
  /\ Head_ \notin Elem /\ NULL \notin Line
  /\ IsFiniteSet(Elem) /\ "list" \notin Proc

VARIABLES
  mem,      \* mem[l]: the links of a line in memory
  cache,    \* cache[p][l]: the line in a cache: links and dirty bit, or NoLine
  owner,    \* owner[e]: the processor that has an element, or "list"
  result    \* what the last call has returned

listVars == <<mem, cache, owner, result>>

NoLine == [state |-> "invalid"]

-----------------------------------------------------------------------------
\* What a processor p sees: memory and its cache.
View(p) == [mem |-> mem, line |-> cache[p]]

Val(s, l) ==
  IF s.line[l] = NoLine THEN s.mem[l] ELSE s.line[l].links

\* A line is read, or a link in it is written.
Cached(s, l, links, state) ==
  [s EXCEPT !.line[l] = [state |-> state, links |-> links]]
Read(s, l) ==
  IF l \in CachedLine /\ s.line[l] = NoLine THEN Cached(s, l, s.mem[l], "clean") ELSE s
Store(s, l, link, v) ==
  LET links == [Val(s, l) EXCEPT ![link] = v] IN
  IF l \in CachedLine THEN Cached(s, l, links, "dirty") ELSE [s EXCEPT !.mem[l] = links]

\* Cache_inv drops a line and what was written to it, Cache_wbInv writes it
\* back first.  Both are called for lines of cached regions only.
Cache_inv(s, l) == [s EXCEPT !.line[l] = NoLine]
Cache_wbInv(s, l) ==
  Cache_inv(IF s.line[l].state = "dirty" THEN [s EXCEPT !.mem[l] = Val(s, l)] ELSE s, l)

\* Mutant of InvAttrs: no processor needs it.
InvAttrsNever(s, p) == s

\* "ARM speculative execution might have pulled attrs into cache"
InvAttrs(s, p) == IF p \in Arm THEN Cache_inv(s, Head_) ELSE s

\* The links of an element that is off the list are of no interest.
Loose(s, e) ==
  LET links == [link \in Link |-> e] IN
  [s EXCEPT !.mem[e] = links,
            !.line[e] = IF @ = NoLine THEN @ ELSE [@ EXCEPT !.links = links]]

\* A call of p ends with the view s.
Become(p, s) == mem' = s.mem /\ cache' = [cache EXCEPT ![p] = s.line]

Opposite(link) == IF link = "next" THEN "prev" ELSE "next"

-----------------------------------------------------------------------------
\* Instance_init by the creator; the elements are with their owners.
ListInit ==
  /\ mem = [l \in Line |-> [link \in Link |-> l]]
  /\ cache = [p \in Proc |-> [l \in Line |-> NoLine]]
  /\ owner \in [Elem -> Proc]
  /\ result = NULL

\* ListMP_getHead follows "next", ListMP_getTail "prev".
GetEnd(p, link) ==
  LET s1 == Read(InvAttrs(View(p), p), Head_)
      elem == Val(s1, Head_)[link]
      s2 == Read(Cache_inv(s1, elem), elem)
      after == Val(s2, elem)[link]
      s3 == Store(Cache_inv(s2, after), Head_, link, after)
      s4 == Store(s3, after, Opposite(link), Val(s3, elem)[Opposite(link)])
  IN
  \/ /\ elem = Head_
     /\ Become(p, Cache_wbInv(s1, Head_))
     /\ result' = NULL
     /\ UNCHANGED owner
  \/ /\ elem # Head_
     /\ Become(p, Loose(Cache_wbInv(Cache_wbInv(s4, after), Head_), elem))
     /\ result' = elem
     /\ owner' = [owner EXCEPT ![elem] = p]

getHead(p) == GetEnd(p, "next")
getTail(p) == GetEnd(p, "prev")

\* Mutant of PutEnd: the lines of the neighbour and the element stay in the cache.
PutEndNoWriteBack(p, elem, link) ==
  LET s1 == Read(InvAttrs(View(p), p), Head_)
      neighbour == Val(s1, Head_)[link]
      s2 == Store(Cache_inv(s1, neighbour), elem, link, neighbour)
      s3 == Store(s2, elem, Opposite(link), Head_)
      s4 == Store(s3, neighbour, Opposite(link), elem)
      s5 == Store(s4, Head_, link, elem)
  IN
  /\ owner[elem] = p
  /\ Become(p, Cache_wbInv(s5, Head_))
  /\ owner' = [owner EXCEPT ![elem] = "list"]
  /\ result' = "SUCCESS"

\* ListMP_putHead and ListMP_putTail: the links of the element, of its new
\* neighbour and of the head.
PutEnd(p, elem, link) ==
  LET s1 == Read(InvAttrs(View(p), p), Head_)
      neighbour == Val(s1, Head_)[link]
      s2 == Store(Cache_inv(s1, neighbour), elem, link, neighbour)
      s3 == Store(s2, elem, Opposite(link), Head_)
      s4 == Store(s3, neighbour, Opposite(link), elem)
      s5 == Store(s4, Head_, link, elem)
  IN
  /\ owner[elem] = p
  /\ Become(p, Cache_wbInv(Cache_wbInv(Cache_wbInv(s5, neighbour), Head_), elem))
  /\ owner' = [owner EXCEPT ![elem] = "list"]
  /\ result' = "SUCCESS"

putHead(p, elem) == PutEnd(p, elem, "next")
putTail(p, elem) == PutEnd(p, elem, "prev")

\* ListMP_insert before an element of the list.
insert(p, newElem, curElem) ==
  LET s1 == Read(Cache_inv(View(p), curElem), curElem)
      before == Val(s1, curElem)["prev"]
      s2 == Store(Cache_inv(s1, before), newElem, "next", curElem)
      s3 == Store(s2, newElem, "prev", before)
      s4 == Store(s3, before, "next", newElem)
      s5 == Store(s4, curElem, "prev", newElem)
  IN
  /\ owner[newElem] = p /\ owner[curElem] = "list"
  /\ Become(p, Cache_wbInv(Cache_wbInv(Cache_wbInv(s5, before), curElem), newElem))
  /\ owner' = [owner EXCEPT ![newElem] = "list"]
  /\ result' = "SUCCESS"

\* Mutant of remove: the element after it keeps its old link.
removeOneLink(p, elem) ==
  LET s1 == Read(View(p), elem)
      before == Val(s1, elem)["prev"]
      after == Val(s1, elem)["next"]
      s2 == Store(Cache_inv(s1, before), before, "next", after)
  IN
  /\ owner[elem] = "list"
  /\ Become(p, Loose(Cache_wbInv(s2, before), elem))
  /\ owner' = [owner EXCEPT ![elem] = p]
  /\ result' = elem

\* ListMP_remove: the neighbours are invalidated, the element is not.
remove(p, elem) ==
  LET s1 == Read(View(p), elem)
      before == Val(s1, elem)["prev"]
      after == Val(s1, elem)["next"]
      s2 == Store(Cache_inv(Cache_inv(s1, before), after), before, "next", after)
      s3 == Store(s2, after, "prev", before)
  IN
  /\ owner[elem] = "list"
  /\ Become(p, Loose(Cache_wbInv(Cache_wbInv(s3, before), after), elem))
  /\ owner' = [owner EXCEPT ![elem] = p]
  /\ result' = elem

-----------------------------------------------------------------------------
\* ListMP_empty looks at the head and invalidates it afterwards.
empty(p) ==
  LET s1 == Read(InvAttrs(View(p), p), Head_) IN
  /\ result' = IF Val(s1, Head_)["next"] = Head_ THEN "TRUE" ELSE "FALSE"
  /\ Become(p, Cache_inv(s1, Head_))
  /\ UNCHANGED owner

\* ListMP_next and ListMP_prev, called inside the list's gate: from the head
\* if elem is NULL.
Neighbour(p, line, link) ==
  LET s1 == Read(Cache_inv(View(p), line), line)
      elem == Val(s1, line)[link]
  IN
  /\ line # Head_ => owner[line] = "list"
  /\ result' = IF elem = Head_ THEN NULL ELSE elem
  /\ Become(p, Cache_inv(s1, line))
  /\ UNCHANGED owner

next(p, line) == Neighbour(p, line, "next")
prev(p, line) == Neighbour(p, line, "prev")

-----------------------------------------------------------------------------
\* The owner of an element writes its own data, which share the line.
Use(p, elem) ==
  LET links == Val(View(p), elem) IN
  /\ owner[elem] = p /\ elem \in CachedLine
  /\ cache' = [cache EXCEPT ![p] = Cached(View(p), elem, links, "dirty").line]
  /\ UNCHANGED <<mem, owner, result>>

\* A cache evicts a line.
Evict(p, l) ==
  /\ cache[p][l] # NoLine
  /\ Become(p, Cache_wbInv(View(p), l))
  /\ UNCHANGED <<owner, result>>

\* The cache of an ARM core fetches a line that nobody has asked for.
Speculate(p, l) ==
  /\ p \in Arm /\ l \in Speculated /\ cache[p][l] = NoLine
  /\ Become(p, Read(View(p), l))
  /\ UNCHANGED <<owner, result>>

Call(p) ==
  \/ getHead(p) \/ getTail(p) \/ empty(p)
  \/ \E e \in Elem :
       \/ putHead(p, e) \/ putTail(p, e) \/ remove(p, e)
       \/ \E cur \in Elem : insert(p, e, cur)
  \/ \E l \in Line : next(p, l) \/ prev(p, l)

ListNext ==
  \E p \in Proc :
    \/ Call(p)
    \/ \E e \in Elem : Use(p, e)
    \/ \E l \in Line : Evict(p, l) \/ Speculate(p, l)

ListSpec == ListInit /\ [][ListNext]_listVars

-----------------------------------------------------------------------------
Links == [Link -> Line]
CacheLine == {NoLine} \cup [state : {"clean", "dirty"}, links : Links]

ListTypeOK ==
  /\ mem \in [Line -> Links]
  /\ cache \in [Proc -> [Line -> CacheLine]]
  /\ owner \in [Elem -> Proc \cup {"list"}]
  /\ result \in Elem \cup {NULL, "SUCCESS", "TRUE", "FALSE"}

OnList == {e \in Elem : owner[e] = "list"}

\* Position i of a list whose elements are numbered from 1 on: the head comes
\* before the first and after the last of them.
At(s, i) == IF i \in DOMAIN s THEN s[i] ELSE Head_

\* The links in memory go through exactly the elements on the list, once
\* around the head, in the order s forwards and in the reverse of it backwards.
Chain(s) ==
  /\ \A i \in 0..Len(s) :
       mem[At(s, i)]["next"] = At(s, i + 1) /\ mem[At(s, i + 1)]["prev"] = At(s, i)
  /\ \A i, j \in DOMAIN s : s[i] = s[j] => i = j
  /\ ToSet(s) = OnList

Chains == {s \in SeqOf(OnList, Cardinality(OnList)) : Chain(s)}

\* Both ways through the list meet the same elements, those that are on it.
LinksAgree == Chains # {}

\* Outside a call, a cache holds a line of an element only at its owner, and of
\* the head only what an ARM core has fetched on its own.
CacheInv ==
  \A p \in Proc, l \in Line : cache[p][l] # NoLine =>
    /\ l \in CachedLine
    /\ l \in Elem => owner[l] = p
    /\ l = Head_ => p \in Arm /\ cache[p][l].state = "clean"

\* Types, the links of putHead, putTail, insert and remove consistent in both
\* directions, and every call leaving the caches as the next one needs them.
ListInv == ListTypeOK /\ LinksAgree /\ CacheInv

\* No cache holds a written line of the head or of an element on the list:
\* its eviction would undo what the other processor does to the links.
NothingToWriteBack ==
  \A p \in Proc, l \in Line :
    l = Head_ \/ owner[l] = "list" => cache[p][l].state # "dirty"

\* The elements in the order of the links.
Listed ==
  LET chains == Chains IN
  IF chains = {} THEN <<>> ELSE CHOOSE s \in chains : TRUE

\* The list is a sequence that every operation changes and reports as
\* promised, whatever the caches do.
Abstract == INSTANCE IListMP WITH list <- Listed
ImplementsIListMP == Abstract!Spec
=============================================================================
