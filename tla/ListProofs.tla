----------------------------- MODULE ListProofs -----------------------------
(***************************************************************************)
(* Theorems about List, for any number of heads and nodes.  Each call is a *)
(* composition of stores on a memory; Sound says of a memory, and of who   *)
(* owns its cells, what Rings says of the state, and each lemma that one   *)
(* of the helpers keeps it.  Ordered adds which sequence of nodes each     *)
(* head's ring is (Chain), and a second row of lemmas says what each       *)
(* helper does to the sequences; from it follow the refinement of          *)
(* ListOrder and what a loop visits.                                       *)
(***************************************************************************)
EXTENDS List, TLAPS, FiniteSetTheorems, SequenceTheorems

Pointers == [Cells -> Cells \cup {NULL}]
Mem == [next : Pointers, prev : Pointers]
Owners == [Cells -> Heads \cup {NULL}]

\* A cell's neighbours in a memory.
Joined(m, o, x) ==
    /\ m.next[x] \in Cells /\ o[m.next[x]] = o[x] /\ m.prev[m.next[x]] = x
    /\ m.prev[x] \in Cells /\ o[m.prev[x]] = o[x] /\ m.next[m.prev[x]] = x

\* A head is in its own list or in none.
Sound(m, o) ==
    /\ m \in Mem /\ o \in Owners
    /\ \A x \in Cells : o[x] # NULL => Joined(m, o, x)
    /\ \A h \in Heads : o[h] \in {h, NULL}

IInv == Sound(Memory, owner)

-----------------------------------------------------------------------------
(* Helpers *)

\* What list_del() and its kin may be given.
Loose(m, o, e) == o[e] # NULL \/ (m.next[e] = e /\ m.prev[e] = e)

\* __list_del() closes the gap and leaves the entry's own pointers alone.
LEMMA Unlinked ==
    ASSUME NEW m, NEW o, Sound(m, o), NEW e \in Nodes, Loose(m, o, e)
    PROVE  Sound(unlink(m, m.prev[e], m.next[e]), [o EXCEPT ![e] = NULL])
<1> DEFINE u == unlink(m, m.prev[e], m.next[e])
           p == [o EXCEPT ![e] = NULL]
<1>1. /\ m \in Mem /\ m.next \in Pointers /\ m.prev \in Pointers /\ o \in Owners
      /\ e \in Cells /\ e \notin Heads /\ NULL \notin Cells
      /\ m.next[e] \in Cells /\ m.prev[e] \in Cells
  BY CellsAssumption DEF Sound, Loose, Joined, Mem, Cells
<1>2. /\ u.next = [m.next EXCEPT ![m.prev[e]] = m.next[e]]
      /\ u.prev = [m.prev EXCEPT ![m.next[e]] = m.prev[e]]
      /\ u = [next |-> u.next, prev |-> u.prev]
  BY DEF unlink
<1>3. u \in Mem
  BY <1>1, <1>2 DEF Mem, Pointers
<1>4. p \in Owners /\ p[e] = NULL /\ \A x \in Cells \ {e} : p[x] = o[x]
  BY <1>1 DEF Owners
<1>5. \A h \in Heads : p[h] \in {h, NULL}
  BY <1>1, <1>4 DEF Sound, Cells
<1> HIDE DEF u, p
<1>6. ASSUME NEW x \in Cells, p[x] # NULL
      PROVE  Joined(u, p, x)
  <2>1. x # e /\ o[x] = p[x] /\ Joined(m, o, x)
    BY <1>4, <1>6 DEF Sound
  <2>2. CASE o[e] = NULL
    <3>1. m.next[e] = e /\ m.prev[e] = e
      BY <2>2 DEF Loose
    <3>2. u.next = m.next /\ u.prev = m.prev
      BY <1>1, <1>2, <3>1 DEF Pointers
    <3>3. m.next[x] # e /\ m.prev[x] # e
      BY <1>6, <2>1, <2>2 DEF Joined
    <3> QED
      BY <1>4, <2>1, <3>2, <3>3 DEF Joined
  <2>3. CASE o[e] # NULL
    <3>1. Joined(m, o, e)
      BY <1>1, <2>3 DEF Sound
    <3>2. u.next[x] = IF x = m.prev[e] THEN m.next[e] ELSE m.next[x]
      BY <1>1, <1>2 DEF Pointers
    <3>3. u.prev[x] = IF x = m.next[e] THEN m.prev[e] ELSE m.prev[x]
      BY <1>1, <1>2 DEF Pointers
    <3>4. u.next[x] \in Cells /\ p[u.next[x]] = p[x] /\ u.prev[u.next[x]] = x
      <4>1. CASE x = m.prev[e]
        BY SMTT(30), <1>1, <1>2, <1>4, <2>1, <3>1, <3>2, <4>1 DEF Joined, Pointers
      <4>2. CASE x # m.prev[e]
        BY <1>1, <1>2, <1>4, <2>1, <3>1, <3>2, <4>2 DEF Joined, Pointers
      <4> QED
        BY <4>1, <4>2
    <3>5. u.prev[x] \in Cells /\ p[u.prev[x]] = p[x] /\ u.next[u.prev[x]] = x
      <4>1. CASE x = m.next[e]
        BY SMTT(30), <1>1, <1>2, <1>4, <2>1, <3>1, <3>3, <4>1 DEF Joined, Pointers
      <4>2. CASE x # m.next[e]
        BY <1>1, <1>2, <1>4, <2>1, <3>1, <3>3, <4>2 DEF Joined, Pointers
      <4> QED
        BY <4>1, <4>2
    <3> QED
      BY <3>4, <3>5 DEF Joined
  <2> QED
    BY <2>2, <2>3
<1>7. Sound(u, p)
  BY <1>3, <1>4, <1>5, <1>6 DEF Sound
<1> QED
  BY <1>7 DEF u, p

\* The pointers of a cell in no list are nobody's business.
LEMMA Written ==
    ASSUME NEW m, NEW o, Sound(m, o), NEW e \in Cells, o[e] = NULL
    PROVE  Sound(Reset(m, e), o) /\ Sound(Poison(m, e), o)
<1>1. /\ m \in Mem /\ m.next \in Pointers /\ m.prev \in Pointers /\ o \in Owners
      /\ NULL \notin Cells
  BY CellsAssumption DEF Sound, Mem, Cells
<1>2. ASSUME NEW v \in Cells \cup {NULL}, NEW w,
             w = [next |-> [m.next EXCEPT ![e] = v], prev |-> [m.prev EXCEPT ![e] = v]]
      PROVE  Sound(w, o)
  <2>1. w.next = [m.next EXCEPT ![e] = v] /\ w.prev = [m.prev EXCEPT ![e] = v]
    BY <1>2
  <2>2. w \in Mem
    BY <1>1, <1>2 DEF Mem, Pointers
  <2>3. ASSUME NEW x \in Cells, o[x] # NULL
        PROVE  Joined(w, o, x)
    <3>1. Joined(m, o, x) /\ x # e /\ m.next[x] # e /\ m.prev[x] # e
      BY <2>3 DEF Sound, Joined
    <3> QED
      BY <1>1, <2>1, <3>1 DEF Joined, Pointers
  <2> QED
    BY <2>2, <2>3 DEF Sound
<1> QED
  BY <1>2 DEF Reset, Poison

\* A head set up is a list of its own.
LEMMA SetUp ==
    ASSUME NEW m, NEW o, Sound(m, o), NEW h \in Heads, o[h] = NULL
    PROVE  Sound(Reset(m, h), [o EXCEPT ![h] = h])
<1> DEFINE r == Reset(m, h)
           p == [o EXCEPT ![h] = h]
<1>1. Sound(r, o) /\ r \in Mem /\ o \in Owners /\ h \in Cells /\ NULL \notin Cells
  BY Written, CellsAssumption DEF Sound, Cells
<1>2. r.next[h] = h /\ r.prev[h] = h
  BY <1>1 DEF Reset, Mem, Pointers, Sound
<1>3. p \in Owners /\ p[h] = h /\ \A x \in Cells \ {h} : p[x] = o[x]
  BY <1>1 DEF Owners
<1>4. ASSUME NEW x \in Cells, p[x] # NULL
      PROVE  Joined(r, p, x)
  <2>1. CASE x = h
    BY <1>1, <1>2, <1>3, <2>1 DEF Joined
  <2>2. CASE x # h
    <3>1. Joined(r, o, x) /\ r.next[x] # h /\ r.prev[x] # h
      BY <1>1, <1>3, <1>4, <2>2 DEF Sound, Joined
    <3> QED
      BY <1>3, <2>2, <3>1 DEF Joined
  <2> QED
    BY <2>1, <2>2
<1>5. \A g \in Heads : p[g] \in {g, NULL}
  BY <1>1, <1>3 DEF Sound, Cells
<1> QED
  BY <1>1, <1>3, <1>4, <1>5 DEF Sound

\* __list_add() between two neighbours.
LEMMA LinkedIn ==
    ASSUME NEW m, NEW o, Sound(m, o), NEW n \in Nodes, o[n] = NULL,
           NEW b \in Cells, o[b] # NULL
    PROVE  Sound(link(m, n, b, m.next[b]), [o EXCEPT ![n] = o[b]])
<1> DEFINE a == m.next[b]
           w == link(m, n, b, a)
           p == [o EXCEPT ![n] = o[b]]
<1>1. /\ m \in Mem /\ m.next \in Pointers /\ m.prev \in Pointers /\ o \in Owners
      /\ NULL \notin Cells /\ n \in Cells /\ n \notin Heads /\ b # n
  BY CellsAssumption DEF Sound, Mem, Cells
<1>2. Joined(m, o, b) /\ m.next[b] = a /\ a \in Cells /\ o[a] = o[b] /\ a # n /\ m.prev[a] = b
  BY DEF Sound, Joined
<1>3. /\ w.next = [m.next EXCEPT ![n] = a, ![b] = n]
      /\ w.prev = [m.prev EXCEPT ![a] = n, ![n] = b]
  BY DEF link
<1>4. w \in Mem
  BY <1>1, <1>2, <1>3 DEF Mem, Pointers, link
<1>5. p \in Owners /\ p[n] = o[b] /\ \A x \in Cells \ {n} : p[x] = o[x]
  BY <1>1 DEF Owners
<1>6. \A h \in Heads : p[h] \in {h, NULL}
  BY <1>1, <1>5 DEF Sound, Cells
<1>7. /\ w.next[n] = a /\ w.next[b] = n /\ w.prev[a] = n /\ w.prev[n] = b
      /\ \A x \in Cells \ {n, b} : w.next[x] = m.next[x]
      /\ \A x \in Cells \ {n, a} : w.prev[x] = m.prev[x]
  BY <1>1, <1>2, <1>3 DEF Pointers
<1> HIDE DEF a, w, p
<1>8. ASSUME NEW x \in Cells, p[x] # NULL
      PROVE  Joined(w, p, x)
  <2>1. CASE x = n
    BY <1>1, <1>2, <1>5, <1>7, <2>1 DEF Joined
  <2>2. CASE x # n
    <3>1. o[x] = p[x] /\ Joined(m, o, x) /\ m.next[x] # n /\ m.prev[x] # n
      BY <1>5, <1>8, <2>2 DEF Sound, Joined
    <3>2. w.next[x] \in Cells /\ p[w.next[x]] = p[x] /\ w.prev[w.next[x]] = x
      <4>1. CASE x = b
        BY <1>1, <1>5, <1>7, <3>1, <4>1
      <4>2. CASE x # b
        BY <1>2, <1>5, <1>7, <2>2, <3>1, <4>2 DEF Joined
      <4> QED
        BY <4>1, <4>2
    <3>3. w.prev[x] \in Cells /\ p[w.prev[x]] = p[x] /\ w.next[w.prev[x]] = x
      <4>1. CASE x = a
        BY <1>1, <1>2, <1>5, <1>7, <3>1, <4>1
      <4>2. CASE x # a
        BY <1>2, <1>5, <1>7, <2>2, <3>1, <4>2 DEF Joined
      <4> QED
        BY <4>1, <4>2
    <3> QED
      BY <3>2, <3>3 DEF Joined
  <2> QED
    BY <2>1, <2>2
<1>9. Sound(w, p)
  BY <1>4, <1>5, <1>6, <1>8 DEF Sound
<1> QED
  BY <1>9 DEF a, w, p

\* Who owns what once list went into head's list.
Merged(o, list, head) ==
    [x \in Cells |-> IF x = list THEN NULL ELSE IF o[x] = list THEN head ELSE o[x]]

\* __list_splice() of a list that is not empty, between two neighbours of another.
LEMMA Spliced ==
    ASSUME NEW m, NEW o, Sound(m, o), NEW list \in Heads, NEW head \in Heads, list # head,
           o[list] = list, o[head] = head, m.next[list] # list,
           NEW b \in Cells, o[b] = head
    PROVE  Sound(splice(m, list, b, m.next[b]), Merged(o, list, head))
<1> DEFINE a == m.next[b]
           first == m.next[list]
           last == m.prev[list]
           w == splice(m, list, b, a)
           p == Merged(o, list, head)
<1>1. /\ m \in Mem /\ m.next \in Pointers /\ m.prev \in Pointers /\ o \in Owners
      /\ NULL \notin Cells /\ list \in Cells /\ head \in Cells
  BY CellsAssumption DEF Sound, Mem, Cells
<1>2. /\ m.next[b] = a /\ m.next[list] = first /\ m.prev[list] = last
      /\ a \in Cells /\ o[a] = head /\ m.prev[a] = b
      /\ first \in Cells /\ o[first] = list /\ m.prev[first] = list
      /\ last \in Cells /\ o[last] = list /\ m.next[last] = list
      /\ first # list /\ last # list
  BY <1>1 DEF Sound, Joined
<1>3. /\ w.next = [m.next EXCEPT ![b] = first, ![last] = a]
      /\ w.prev = [m.prev EXCEPT ![first] = b, ![a] = last]
  BY DEF splice
<1>4. w \in Mem
  BY <1>1, <1>2, <1>3 DEF Mem, Pointers, splice
<1>5. /\ p \in Owners /\ p[list] = NULL
      /\ \A x \in Cells \ {list} : p[x] = IF o[x] = list THEN head ELSE o[x]
  BY <1>1 DEF Owners, Merged
<1>6. \A h \in Heads : p[h] \in {h, NULL}
  BY <1>1, <1>5 DEF Sound, Cells
<1>7. /\ w.next[b] = first /\ w.next[last] = a /\ w.prev[first] = b /\ w.prev[a] = last
      /\ \A x \in Cells \ {b, last} : w.next[x] = m.next[x]
      /\ \A x \in Cells \ {first, a} : w.prev[x] = m.prev[x]
  BY <1>1, <1>2, <1>3 DEF Pointers
<1> HIDE DEF a, first, last, w, p
<1>8. ASSUME NEW x \in Cells, p[x] # NULL
      PROVE  Joined(w, p, x)
  <2>1. x # list /\ o[x] # NULL /\ Joined(m, o, x)
    BY <1>1, <1>5, <1>8 DEF Sound
  <2>2. w.next[x] \in Cells /\ p[w.next[x]] = p[x] /\ w.prev[w.next[x]] = x
    <3>1. CASE x = b
      <4>1. p[first] = head /\ p[b] = head
        BY <1>1, <1>2, <1>5, <2>1, <3>1
      <4> QED
        BY <1>2, <1>7, <3>1, <4>1
    <3>2. CASE x = last
      <4>1. p[a] = head /\ p[last] = head
        BY <1>1, <1>2, <1>5
      <4> QED
        BY <1>2, <1>7, <3>2, <4>1
    <3>3. CASE x # b /\ x # last
      BY <1>1, <1>2, <1>5, <1>7, <2>1, <3>3 DEF Joined
    <3> QED
      BY <3>1, <3>2, <3>3
  <2>3. w.prev[x] \in Cells /\ p[w.prev[x]] = p[x] /\ w.next[w.prev[x]] = x
    <3>1. CASE x = first
      BY <1>1, <1>2, <1>5, <1>7, <2>1, <3>1
    <3>2. CASE x = a
      BY <1>1, <1>2, <1>5, <1>7, <2>1, <3>2
    <3>3. CASE x # first /\ x # a
      BY <1>1, <1>2, <1>5, <1>7, <2>1, <3>3 DEF Joined
    <3> QED
      BY <3>1, <3>2, <3>3
  <2> QED
    BY <2>2, <2>3 DEF Joined
<1>9. Sound(w, p)
  BY <1>4, <1>5, <1>6, <1>8 DEF Sound
<1> QED
  BY <1>9 DEF a, first, last, w, p

\* Who owns what once node is in old's place.
Taken(o, old, node) ==
    [x \in Cells |->
        IF x = old THEN NULL
        ELSE IF x = node THEN (IF old \in Heads THEN node ELSE o[old])
        ELSE IF old \in Heads /\ o[x] = old THEN node ELSE o[x]]

\* list_replace(): also for the only cell of its ring, where the second pair of
\* stores reads what the first one wrote.
LEMMA Replaced ==
    ASSUME NEW m, NEW o, Sound(m, o), NEW old \in Cells, NEW node \in Cells, old # node,
           o[node] = NULL, Loose(m, o, old),
           \/ old \in Nodes /\ node \in Nodes
           \/ old \in Heads /\ node \in Heads /\ o[old] = old
    PROVE  Sound(replaced(m, old, node), Taken(o, old, node))
<1> DEFINE succ == m.next[old]
           pred == m.prev[old]
           w == replaced(m, old, node)
           p == Taken(o, old, node)
<1>1. /\ m \in Mem /\ m.next \in Pointers /\ m.prev \in Pointers /\ o \in Owners
      /\ NULL \notin Cells /\ Heads \cap Nodes = {}
  BY CellsAssumption DEF Sound, Mem, Cells
<1>2. /\ m.next[old] = succ /\ m.prev[old] = pred
      /\ succ \in Cells /\ pred \in Cells /\ succ # node /\ pred # node
      /\ (succ = old) <=> (pred = old)
      /\ m.prev[succ] = old /\ m.next[pred] = old
      /\ o[succ] = o[old] /\ o[pred] = o[old]
  BY <1>1 DEF Sound, Joined, Loose
<1>3. /\ w.next = [[m.next EXCEPT ![node] = succ] EXCEPT
                     ![[m.prev EXCEPT ![succ] = node][old]] = node]
      /\ w.prev = [[m.prev EXCEPT ![succ] = node] EXCEPT
                     ![node] = [m.prev EXCEPT ![succ] = node][old]]
      /\ w = [next |-> w.next, prev |-> w.prev]
  BY DEF replaced
<1>4. [m.prev EXCEPT ![succ] = node][old] = IF succ = old THEN node ELSE pred
  BY <1>1, <1>2 DEF Pointers
<1>5. /\ w.next \in Pointers /\ w.prev \in Pointers
      /\ succ # old => w.next[node] = succ /\ w.next[pred] = node /\ w.prev[succ] = node /\ w.prev[node] = pred
      /\ succ = old => w.next[node] = node /\ w.prev[node] = node
      /\ \A x \in Cells \ {node, pred} : w.next[x] = m.next[x]
      /\ \A x \in Cells \ {node, succ} : w.prev[x] = m.prev[x]
  <2>1. CASE succ = old
    BY <1>1, <1>2, <1>3, <1>4, <2>1 DEF Pointers
  <2>2. CASE succ # old
    BY SMTT(30), <1>1, <1>2, <1>3, <1>4, <2>2 DEF Pointers
  <2> QED
    BY <2>1, <2>2
<1>6. w \in Mem
  BY SMTT(30), <1>3, <1>5 DEF Mem
<1>7. /\ p \in Owners /\ p[old] = NULL /\ p[node] = IF old \in Heads THEN node ELSE o[old]
      /\ \A x \in Cells \ {old, node} : p[x] = IF old \in Heads /\ o[x] = old THEN node ELSE o[x]
  BY <1>1 DEF Owners, Taken, Cells
<1>8. \A h \in Heads : p[h] \in {h, NULL}
  BY <1>1, <1>7 DEF Sound, Cells
<1> HIDE DEF succ, pred, w, p
<1>9. \A x \in Cells \ {old, node} : o[x] = o[old] => p[x] = p[node]
  BY <1>1, <1>7
<1>10. ASSUME NEW x \in Cells, p[x] # NULL
       PROVE  Joined(w, p, x)
  <2>1. CASE x = node
    <3>1. CASE succ = old
      BY <1>5, <2>1, <3>1 DEF Joined
    <3>2. CASE succ # old
      BY <1>2, <1>5, <1>9, <2>1, <3>2 DEF Joined
    <3> QED
      BY <3>1, <3>2
  <2>2. CASE x # node
    <3>1. x # old /\ o[x] # NULL /\ Joined(m, o, x) /\ m.next[x] # node /\ m.prev[x] # node
      BY <1>1, <1>7, <1>10, <2>2 DEF Sound, Joined
    <3>2. w.next[x] \in Cells /\ p[w.next[x]] = p[x] /\ w.prev[w.next[x]] = x
      <4>1. CASE x = pred
        BY <1>2, <1>5, <1>9, <2>2, <3>1, <4>1
      <4>2. CASE x # pred
        <5>1. w.next[x] = m.next[x] /\ m.next[x] # old /\ m.next[x] # succ
          BY <1>2, <1>5, <2>2, <3>1, <4>2 DEF Joined
        <5> QED
          BY <1>5, <1>7, <2>2, <3>1, <5>1 DEF Joined
      <4> QED
        BY <4>1, <4>2
    <3>3. w.prev[x] \in Cells /\ p[w.prev[x]] = p[x] /\ w.next[w.prev[x]] = x
      <4>1. CASE x = succ
        BY <1>2, <1>5, <1>9, <2>2, <3>1, <4>1
      <4>2. CASE x # succ
        <5>1. w.prev[x] = m.prev[x] /\ m.prev[x] # old /\ m.prev[x] # pred
          BY <1>2, <1>5, <2>2, <3>1, <4>2 DEF Joined
        <5> QED
          BY <1>5, <1>7, <2>2, <3>1, <5>1 DEF Joined
      <4> QED
        BY <4>1, <4>2
    <3> QED
      BY <3>2, <3>3 DEF Joined
  <2> QED
    BY <2>1, <2>2
<1>11. Sound(w, p)
  BY <1>6, <1>7, <1>8, <1>10 DEF Sound
<1> QED
  BY <1>11 DEF succ, pred, w, p

-----------------------------------------------------------------------------
(* Calls *)

\* The call stores memory m and leaves the owners o.
LEMMA Stored ==
    ASSUME NEW m, NEW o, Becomes(m), owner' = o, Sound(m, o)
    PROVE  IInv'
<1>1. m = [next |-> m.next, prev |-> m.prev]
  BY DEF Sound, Mem
<1>2. Memory' = m
  BY <1>1 DEF Becomes, Memory
<1> QED
  BY <1>2 DEF IInv

\* A head in use has a neighbour to insert before and one to insert behind.
LEMMA Ends ==
    ASSUME NEW m, NEW o, Sound(m, o), NEW h \in Heads, o[h] = h
    PROVE  /\ h \in Cells /\ h # NULL /\ m.next[m.prev[h]] = h
           /\ m.prev[h] \in Cells /\ o[m.prev[h]] = h
BY CellsAssumption DEF Sound, Joined, Cells

\* An entry that may be removed is loose.
LEMMA MayGo == ASSUME IInv, NEW e \in Removable PROVE e \in Nodes /\ Loose(Memory, owner, e)
BY DEF Removable, Listed, Free, Loose, Memory

\* A head made empty, in use or not, leaves every ring closed.
LEMMA InitKeeps == ASSUME IInv, NEW list \in Cells, INIT_LIST_HEAD(list) PROVE IInv'
<1>1. owner[list] = NULL
  BY DEF INIT_LIST_HEAD, Free, InUse, IInv, Sound
<1>2. CASE list \in Heads
  <2>1. owner' = [owner EXCEPT ![list] = list] /\ Becomes(Reset(Memory, list))
    BY <1>2 DEF INIT_LIST_HEAD
  <2> QED
    BY <1>1, <1>2, <2>1, SetUp, Stored DEF IInv
<1>3. CASE list \notin Heads
  <2>1. owner' = owner /\ Becomes(Reset(Memory, list))
    BY <1>3 DEF INIT_LIST_HEAD
  <2> QED
    BY <1>1, <2>1, Written, Stored DEF IInv
<1> QED
  BY <1>2, <1>3

\* Additions and moves end in a memory where the node is put between neighbours.
LEMMA Added ==
    ASSUME NEW m, NEW o, Sound(m, o), NEW n \in Nodes, o[n] = NULL, NEW h \in Heads, o[h] = h
    PROVE  /\ Sound(added(m, n, h), [o EXCEPT ![n] = h])
           /\ Sound(added_tail(m, n, h), [o EXCEPT ![n] = h])
<1>1. h \in Cells /\ h # NULL
  BY Ends
<1>2. Sound(link(m, n, h, m.next[h]), [o EXCEPT ![n] = o[h]])
  BY <1>1, LinkedIn
<1>3. m.prev[h] \in Cells /\ o[m.prev[h]] = h /\ m.next[m.prev[h]] = h
  BY Ends
<1>4. Sound(link(m, n, m.prev[h], m.next[m.prev[h]]), [o EXCEPT ![n] = o[m.prev[h]]])
  BY <1>1, <1>3, LinkedIn
<1> QED
  BY <1>2, <1>3, <1>4 DEF added, added_tail

\* list_add() and list_add_tail() put a loose node next to the head.
LEMMA AddKeeps ==
    ASSUME IInv, NEW n \in Nodes, NEW h \in InUse, list_add(n, h) \/ list_add_tail(n, h)
    PROVE  IInv'
<1>1. owner[n] = NULL /\ h \in Heads /\ owner[h] = h /\ owner' = [owner EXCEPT ![n] = h]
  BY DEF list_add, list_add_tail, Free, InUse, Enters
<1>2. Becomes(added(Memory, n, h)) \/ Becomes(added_tail(Memory, n, h))
  BY DEF list_add, list_add_tail
<1>3. Sound(added(Memory, n, h), owner') /\ Sound(added_tail(Memory, n, h), owner')
  BY <1>1, Added DEF IInv
<1> QED
  BY <1>2, <1>3, Stored

\* What __list_del() leaves, as the owners of the state see it.
LEMMA Gone ==
    ASSUME IInv, NEW e \in Removable
    PROVE  LET o == [owner EXCEPT ![e] = NULL] IN
           /\ Sound(unlink(Memory, prev[e], next[e]), o)
           /\ o[e] = NULL /\ \A h \in Heads : o[h] = owner[h]
<1>1. e \in Nodes /\ Loose(Memory, owner, e)
  BY MayGo
<1>2. Sound(unlink(Memory, Memory.prev[e], Memory.next[e]), [owner EXCEPT ![e] = NULL])
  BY <1>1, Unlinked DEF IInv
<1>3. owner \in Owners /\ e \in Cells /\ \A h \in Heads : h # e /\ h \in Cells
  BY <1>1, CellsAssumption DEF IInv, Sound, Cells
<1> QED
  BY <1>2, <1>3 DEF Memory, Owners

\* list_del() and list_del_init() take a node out of its ring.
LEMMA DelKeeps == ASSUME IInv, NEW e, list_del(e) \/ list_del_init(e) PROVE IInv'
<1>1. e \in Removable /\ e \in Cells /\ owner' = [owner EXCEPT ![e] = NULL]
  BY MayGo DEF list_del, list_del_init, Leaves, Cells
<1> DEFINE u == unlink(Memory, prev[e], next[e])
<1>2. Becomes(Poison(u, e)) \/ Becomes(Reset(u, e))
  BY DEF list_del, list_del_init
<1>3. Sound(u, owner') /\ owner'[e] = NULL
  BY <1>1, Gone
<1>4. Sound(Poison(u, e), owner') /\ Sound(Reset(u, e), owner')
  BY <1>1, <1>3, Written
<1> QED
  BY <1>2, <1>4, Stored

\* A moved node leaves one ring and enters another, or the same one.
LEMMA MoveKeeps ==
    ASSUME IInv, NEW e, NEW h \in InUse, list_move(e, h) \/ list_move_tail(e, h)
    PROVE  IInv'
<1>1. e \in Removable /\ e \in Nodes /\ h \in Heads /\ owner[h] = h /\ owner' = [owner EXCEPT ![e] = h]
  BY MayGo DEF list_move, list_move_tail, Enters, InUse
<1> DEFINE u == unlink(Memory, prev[e], next[e])
           o == [owner EXCEPT ![e] = NULL]
<1>2. Becomes(added(u, e, h)) \/ Becomes(added_tail(u, e, h))
  BY DEF list_move, list_move_tail, moved, moved_tail, Memory
<1>3. Sound(u, o) /\ o[e] = NULL /\ o[h] = h
  BY <1>1, Gone
<1>4. [o EXCEPT ![e] = h] = owner'
  BY <1>1, CellsAssumption DEF IInv, Sound, Owners, Cells
<1>5. Sound(added(u, e, h), owner') /\ Sound(added_tail(u, e, h), owner')
  <2> HIDE DEF u, o
  <2> QED
    BY <1>1, <1>3, <1>4, Added
<1> QED
  BY <1>2, <1>5, Stored

\* list_replace() and list_replace_init() put a loose node where another was.
LEMMA ReplaceKeeps ==
    ASSUME IInv, NEW old \in Cells, NEW node \in Cells,
           list_replace(old, node) \/ list_replace_init(old, node)
    PROVE  IInv'
<1> DEFINE w == replaced(Memory, old, node)
           o == Taken(owner, old, node)
<1>1. /\ old # node /\ owner[node] = NULL /\ Loose(Memory, owner, old)
      /\ \/ old \in Nodes /\ node \in Nodes
         \/ old \in Heads /\ node \in Heads /\ owner[old] = old
  <2>1. Replaceable(old, node)
    BY DEF list_replace, list_replace_init
  <2>2. CASE old \in Removable /\ node \in Free \ {old}
    BY <2>2, MayGo DEF Free
  <2>3. CASE old \in InUse /\ node \in Heads \ InUse
    BY <2>3, CellsAssumption DEF InUse, Loose, IInv, Sound, Cells
  <2> QED
    BY <2>1, <2>2, <2>3 DEF Replaceable
<1>2. Sound(w, o)
  BY <1>1, Replaced DEF IInv
<1>3. o[old] = NULL
  BY DEF Taken
<1>4. CASE list_replace(old, node)
  <2>1. Becomes(w) /\ owner' = o
    BY <1>4 DEF list_replace, TakesOver, Taken
  <2> QED
    BY <1>2, <2>1, Stored
<1>5. CASE list_replace_init(old, node)
  <2>1. Becomes(Reset(w, old))
    BY <1>5 DEF list_replace_init
  <2>2. CASE old \in Heads
    <3>1. owner' = [o EXCEPT ![old] = old]
      BY <1>5, <2>2 DEF list_replace_init, TakesOver, Taken
    <3> HIDE DEF w, o
    <3> QED
      BY <1>2, <1>3, <2>1, <2>2, <3>1, SetUp, Stored
  <2>3. CASE old \notin Heads
    <3>1. owner' = o
      BY <1>5, <2>3 DEF list_replace_init, TakesOver, Taken
    <3> HIDE DEF w, o
    <3> QED
      BY <1>2, <1>3, <2>1, <3>1, Written, Stored
  <2> QED
    BY <2>2, <2>3
<1> QED
  BY <1>4, <1>5

\* What the splices of a list that is not empty store, and who owns its cells then.
SpliceFirst(list, head) ==
    Becomes(splice(Memory, list, head, next[head])) /\ Joins(list, head, NULL)

SpliceLast(list, head) ==
    Becomes(splice(Memory, list, prev[head], head)) /\ Joins(list, head, NULL)

SpliceReset(list, head) ==
    Becomes(Reset(splice(Memory, list, head, next[head]), list)) /\ Joins(list, head, list)

\* The splices empty one list into another, and do nothing to an empty one.
LEMMA SpliceStores ==
    ASSUME NEW list, NEW head,
           \/ list_splice(list, head) \/ list_splice_tail(list, head)
           \/ list_splice_init(list, head)
    PROVE  /\ list # head /\ list \in InUse
           /\ next[list] = list => UNCHANGED <<next, prev, owner>>
           /\ next[list] # list => \/ list_splice(list, head) /\ SpliceFirst(list, head)
                                   \/ list_splice_tail(list, head) /\ SpliceLast(list, head)
                                   \/ list_splice_init(list, head) /\ SpliceReset(list, head)
<1>1. CASE list_splice(list, head)
  BY <1>1 DEF list_splice, Spliceable, NothingToSplice, list_empty, SpliceFirst
<1>2. CASE list_splice_tail(list, head)
  BY <1>2 DEF list_splice_tail, Spliceable, NothingToSplice, list_empty, SpliceLast
<1>3. CASE list_splice_init(list, head)
  BY <1>3 DEF list_splice_init, Spliceable, NothingToSplice, list_empty, SpliceReset
<1> QED
  BY <1>1, <1>2, <1>3

\* Either way every ring stays closed.
LEMMA SpliceKeeps ==
    ASSUME IInv, NEW list \in Heads, NEW head \in InUse,
           \/ list_splice(list, head) \/ list_splice_tail(list, head)
           \/ list_splice_init(list, head)
    PROVE  IInv'
<1> DEFINE first == splice(Memory, list, head, next[head])
           last == splice(Memory, list, prev[head], head)
           o == Merged(owner, list, head)
<1>1. /\ head \in Heads /\ owner[head] = head /\ list # head /\ owner[list] = list
      /\ next[list] = list => UNCHANGED <<next, prev, owner>>
      /\ next[list] # list => \/ SpliceFirst(list, head) \/ SpliceLast(list, head)
                              \/ SpliceReset(list, head)
  BY SpliceStores DEF InUse
<1>2. CASE next[list] = list
  BY <1>1, <1>2 DEF IInv, Memory
<1>3. ASSUME next[list] # list PROVE Sound(first, o)
  <2>1. head \in Cells
    BY <1>1 DEF Cells
  <2>2. Sound(splice(Memory, list, head, Memory.next[head]), o)
    BY <1>1, <1>3, <2>1, Spliced DEF IInv, Memory
  <2> QED
    BY <2>2 DEF Memory
<1>4. ASSUME next[list] # list PROVE Sound(last, o)
  <2>1. Memory.prev[head] \in Cells /\ owner[Memory.prev[head]] = head
        /\ Memory.next[Memory.prev[head]] = head
    BY <1>1, Ends DEF IInv
  <2>2. Sound(splice(Memory, list, Memory.prev[head], Memory.next[Memory.prev[head]]), o)
    BY <1>1, <1>4, <2>1, Spliced DEF IInv, Memory
  <2> QED
    BY <2>1, <2>2 DEF Memory
<1>5. o[list] = NULL /\ list \in Cells
  BY DEF Merged, Cells
<1>6. CASE next[list] # list /\ (SpliceFirst(list, head) \/ SpliceLast(list, head))
  <2>1. owner' = o /\ (Becomes(first) \/ Becomes(last))
    BY <1>6 DEF SpliceFirst, SpliceLast, Joins, Merged
  <2> QED
    BY <1>3, <1>4, <1>6, <2>1, Stored
<1>7. CASE next[list] # list /\ SpliceReset(list, head)
  <2>1. Becomes(Reset(first, list)) /\ owner' = [o EXCEPT ![list] = list]
    BY <1>7 DEF SpliceReset, Joins, Merged
  <2> HIDE DEF first, o
  <2> QED
    BY <1>3, <1>5, <1>7, <2>1, SetUp, Stored
<1> QED
  BY <1>1, <1>2, <1>6, <1>7

-----------------------------------------------------------------------------
(* The whole *)

\* Before the first call no cell points anywhere or belongs to a list.
LEMMA InitInv == Init => IInv
BY CellsAssumption DEF Init, IInv, Memory, Sound, Mem, Pointers, Owners, Cells

\* Every call of the interface keeps the rings, whatever came before.
LEMMA NextInv == ASSUME IInv, [Next]_vars PROVE IInv'
<1>1. CASE UNCHANGED <<next, prev, owner>>
  BY <1>1 DEF IInv, Memory
<1>2. CASE Operation
  BY <1>2, InitKeeps, AddKeeps, DelKeeps, MoveKeeps, ReplaceKeeps, SpliceKeeps DEF Operation
<1>3. CASE LoopTurn
  BY <1>1, <1>3, DelKeeps, MoveKeeps DEF LoopTurn
<1> QED
  BY <1>1, <1>2, <1>3 DEF Next, vars, LoopStart, LoopEnd

\* Sound of the variables is what the run checks.
LEMMA Consequence == IInv => Rings
BY DEF IInv, Sound, Mem, Pointers, Owners, Memory, Joined, Rings, TypeOK, Linked

\* Through any history of legal calls, a loop's included, the two directions of every
\* list agree and no pointer leads out of it.
THEOREM RingsKept == Spec => []Rings
BY InitInv, NextInv, Consequence, PTL DEF Spec

-----------------------------------------------------------------------------
(* The lists as sequences *)

\* The places of a ring: the head, then the nodes in order, then the head again.
Cell(h, s, i) == IF i = 0 THEN h ELSE s[i]
Follower(h, s, i) == IF i = Len(s) THEN h ELSE s[i + 1]

\* The list of h is the sequence s: the nodes h owns, each once, as next leads through them.
Chain(m, o, h, s) ==
    /\ s \in Seq(Nodes)
    /\ \A i, j \in 1 .. Len(s) : s[i] = s[j] => i = j
    /\ \A n \in Nodes : o[n] = h <=> \E i \in 1 .. Len(s) : s[i] = n
    /\ \A i \in 0 .. Len(s) : m.next[Cell(h, s, i)] = Follower(h, s, i)

\* A function on 1 .. k is a sequence of length k.
LEMMA MakeSeq ==
    ASSUME NEW S, NEW k \in Nat, NEW t \in [1 .. k -> S]
    PROVE  t \in Seq(S) /\ Len(t) = k /\ DOMAIN t = 1 .. k
<1>1. t \in Seq(S)
  BY SeqDef
<1> QED
  BY <1>1, LenProperties

\* Where the cells of a chain are, and that it has all its head owns.
LEMMA ChainFacts ==
    ASSUME NEW m, NEW o, Sound(m, o), NEW h \in Heads, o[h] = h, NEW s, Chain(m, o, h, s)
    PROVE  /\ Len(s) \in Nat /\ s \in [1 .. Len(s) -> Nodes] /\ DOMAIN s = 1 .. Len(s)
           /\ \A i \in 1 .. Len(s) : s[i] \in Nodes
           /\ \A i \in 0 .. Len(s) :
                 /\ Cell(h, s, i) \in Cells /\ o[Cell(h, s, i)] = h
                 /\ Follower(h, s, i) \in Cells
                 /\ m.next[Cell(h, s, i)] = Follower(h, s, i)
                 /\ m.prev[Follower(h, s, i)] = Cell(h, s, i)
           /\ \A i, j \in 0 .. Len(s) : Cell(h, s, i) = Cell(h, s, j) => i = j
           /\ \A c \in Cells : o[c] = h => \E i \in 0 .. Len(s) : c = Cell(h, s, i)
<1>1. /\ Len(s) \in Nat /\ s \in [1 .. Len(s) -> Nodes] /\ DOMAIN s = 1 .. Len(s)
  BY LenProperties DEF Chain
<1>2. \A i \in 1 .. Len(s) : s[i] \in Nodes /\ o[s[i]] = h
  BY <1>1 DEF Chain
<1>3. h \in Cells /\ h \notin Nodes /\ NULL \notin Heads /\ Nodes \subseteq Cells
  BY CellsAssumption DEF Cells
<1>4. ASSUME NEW i \in 0 .. Len(s)
      PROVE  /\ Cell(h, s, i) \in Cells /\ o[Cell(h, s, i)] = h
             /\ Follower(h, s, i) \in Cells
             /\ m.next[Cell(h, s, i)] = Follower(h, s, i)
             /\ m.prev[Follower(h, s, i)] = Cell(h, s, i)
  <2>1. Cell(h, s, i) \in Cells /\ o[Cell(h, s, i)] = h
    <3>1. i = 0 \/ i \in 1 .. Len(s)
      BY <1>1
    <3> QED
      BY <1>2, <1>3, <3>1 DEF Cell
  <2>2. m.next[Cell(h, s, i)] = Follower(h, s, i)
    BY DEF Chain
  <2>3. Joined(m, o, Cell(h, s, i))
    BY <1>3, <2>1 DEF Sound
  <2> QED
    BY <2>1, <2>2, <2>3 DEF Joined
<1>5. ASSUME NEW i \in 0 .. Len(s), NEW j \in 0 .. Len(s), Cell(h, s, i) = Cell(h, s, j)
      PROVE  i = j
  <2>1. (i = 0 \/ i \in 1 .. Len(s)) /\ (j = 0 \/ j \in 1 .. Len(s))
    BY <1>1
  <2> QED
    BY <1>2, <1>3, <1>5, <2>1 DEF Cell, Chain
<1>6. ASSUME NEW c \in Cells, o[c] = h
      PROVE  \E i \in 0 .. Len(s) : c = Cell(h, s, i)
  <2>1. CASE c \in Nodes
    <3>1. PICK i \in 1 .. Len(s) : s[i] = c
      BY <1>6, <2>1 DEF Chain
    <3>2. i \in 0 .. Len(s) /\ i # 0
      BY <1>1
    <3> QED
      BY <3>1, <3>2 DEF Cell
  <2>2. CASE c \in Heads
    <3>1. c = h
      BY <1>3, <1>6, <2>2 DEF Sound
    <3>2. 0 \in 0 .. Len(s)
      BY <1>1
    <3> QED
      BY <3>1, <3>2 DEF Cell
  <2> QED
    BY <2>1, <2>2 DEF Cells
<1> QED
  BY <1>1, <1>2, <1>4, <1>5, <1>6

\* Stores that go to other cells than a list's leave it as it is.
LEMMA Elsewhere ==
    ASSUME NEW m, NEW o, Sound(m, o), NEW h \in Heads, o[h] = h, NEW s, Chain(m, o, h, s),
           NEW w, NEW p,
           \A c \in Cells : o[c] = h => w.next[c] = m.next[c],
           \A n \in Nodes : p[n] = h <=> o[n] = h
    PROVE  Chain(w, p, h, s)
<1>1. \A i \in 0 .. Len(s) : w.next[Cell(h, s, i)] = Follower(h, s, i)
  BY ChainFacts
<1> QED
  BY <1>1 DEF Chain

\* The first and the last place.
LEMMA ChainEnds ==
    ASSUME NEW m, NEW o, Sound(m, o), NEW h \in Heads, o[h] = h, NEW s, Chain(m, o, h, s)
    PROVE  /\ 0 \in 0 .. Len(s) /\ Cell(h, s, 0) = h
           /\ Len(s) \in 0 .. Len(s) /\ Cell(h, s, Len(s)) = m.prev[h]
           /\ m.next[h] = h <=> Len(s) = 0
<1>1. Len(s) \in Nat /\ 0 \in 0 .. Len(s) /\ Len(s) \in 0 .. Len(s)
  BY ChainFacts
<1>2. Cell(h, s, 0) = h /\ Follower(h, s, Len(s)) = h
  BY DEF Cell, Follower
<1>3. m.prev[Follower(h, s, Len(s))] = Cell(h, s, Len(s))
      /\ m.next[Cell(h, s, 0)] = Follower(h, s, 0)
  BY <1>1, ChainFacts
<1>4. ASSUME Len(s) # 0 PROVE Follower(h, s, 0) # h
  <2>1. 1 \in 1 .. Len(s) /\ Follower(h, s, 0) = s[1]
    BY <1>1, <1>4 DEF Follower
  <2>2. s[1] \in Nodes
    BY <2>1, ChainFacts
  <2> QED
    BY <2>1, <2>2, CellsAssumption
<1> QED
  BY <1>1, <1>2, <1>3, <1>4 DEF Follower

\* A sequence without its k-th element.
Cut(s, k) == [i \in 1 .. Len(s) - 1 |-> IF i < k THEN s[i] ELSE s[i + 1]]

\* A node taken out of a list is cut out of its sequence.
LEMMA CutChain ==
    ASSUME NEW m, NEW o, Sound(m, o), NEW h \in Heads, o[h] = h, NEW s, Chain(m, o, h, s),
           NEW k \in 1 .. Len(s), NEW e, e = s[k], NEW w, NEW p,
           w = unlink(m, m.prev[e], m.next[e]), p = [o EXCEPT ![e] = NULL]
    PROVE  Chain(w, p, h, Cut(s, k))
<1> DEFINE t == Cut(s, k)
<1>1. /\ Len(s) \in Nat /\ k \in Nat /\ k > 0 /\ k <= Len(s)
      /\ k \in 0 .. Len(s) /\ k - 1 \in 0 .. Len(s) /\ Len(s) - 1 \in Nat
      /\ \A i \in 1 .. Len(s) : s[i] \in Nodes
  BY ChainFacts
<1>2. /\ \A i \in 0 .. Len(s) :
            /\ Cell(h, s, i) \in Cells
            /\ m.next[Cell(h, s, i)] = Follower(h, s, i)
            /\ m.prev[Follower(h, s, i)] = Cell(h, s, i)
      /\ \A i, j \in 0 .. Len(s) : Cell(h, s, i) = Cell(h, s, j) => i = j
  BY ChainFacts
<1>3. /\ m.next \in Pointers /\ o \in Owners /\ e \in Nodes /\ e \in Cells
      /\ NULL \notin Cells /\ h \in Cells /\ h # NULL
  BY <1>1, CellsAssumption DEF Sound, Mem, Cells
<1>4. m.prev[e] = Cell(h, s, k - 1) /\ m.next[e] = Follower(h, s, k)
  <2>1. Follower(h, s, k - 1) = e
    BY <1>1 DEF Follower
  <2>2. Cell(h, s, k) = e
    BY <1>1 DEF Cell
  <2> QED
    BY <1>1, <1>2, <2>1, <2>2
<1>5. w.next = [m.next EXCEPT ![Cell(h, s, k - 1)] = Follower(h, s, k)]
  BY <1>4 DEF unlink
<1>6. t \in Seq(Nodes) /\ Len(t) = Len(s) - 1
      /\ \A i \in 1 .. Len(t) : t[i] = IF i < k THEN s[i] ELSE s[i + 1]
  <2>1. \A i \in 1 .. Len(s) - 1 : (IF i < k THEN s[i] ELSE s[i + 1]) \in Nodes
    BY <1>1
  <2>2. t \in [1 .. Len(s) - 1 -> Nodes]
    BY <2>1 DEF Cut
  <2> QED
    BY <1>1, <2>2, MakeSeq DEF Cut
<1> HIDE DEF t
<1>7. ASSUME NEW i \in 1 .. Len(t), NEW j \in 1 .. Len(t), t[i] = t[j] PROVE i = j
  <2>1. \A a, b \in 1 .. Len(s) : s[a] = s[b] => a = b
    BY DEF Chain
  <2>2. /\ i \in 1 .. Len(s) /\ j \in 1 .. Len(s) /\ i + 1 \in 1 .. Len(s) /\ j + 1 \in 1 .. Len(s)
        /\ i \in Nat /\ j \in Nat
    BY <1>1, <1>6
  <2> DEFINE a == IF i < k THEN i ELSE i + 1
             b == IF j < k THEN j ELSE j + 1
  <2>3. t[i] = s[a] /\ t[j] = s[b]
    BY <1>6
  <2>4. a \in 1 .. Len(s) /\ b \in 1 .. Len(s)
    BY <2>2
  <2>5. a = b
    <3> HIDE DEF a, b
    <3> QED
      BY <1>7, <2>1, <2>3, <2>4
  <2> QED
    BY <1>1, <2>2, <2>5
<1>8. ASSUME NEW n \in Nodes
      PROVE  p[n] = h <=> \E i \in 1 .. Len(t) : t[i] = n
  <2>1. /\ o[n] = h <=> \E i \in 1 .. Len(s) : s[i] = n
        /\ p[n] = IF n = e THEN NULL ELSE o[n]
        /\ \A a, b \in 1 .. Len(s) : s[a] = s[b] => a = b
    BY <1>3 DEF Chain, Owners, Cells
  <2>2. ASSUME NEW i \in 1 .. Len(t), t[i] = n PROVE p[n] = h
    <3>2. i \in 1 .. Len(s) /\ i + 1 \in 1 .. Len(s) /\ i \in Nat
      BY <1>1, <1>6
    <3>3. CASE i < k
      <4>1. s[i] = n /\ i # k
        BY <1>6, <2>2, <3>2, <3>3
      <4> QED
        BY <2>1, <3>2, <4>1
    <3>4. CASE ~(i < k)
      <4>1. s[i + 1] = n /\ i + 1 # k
        BY <1>1, <1>6, <2>2, <3>2, <3>4
      <4> QED
        BY <2>1, <3>2, <4>1
    <3> QED
      BY <3>3, <3>4
  <2>3. ASSUME p[n] = h PROVE \E i \in 1 .. Len(t) : t[i] = n
    <3>1. n # e /\ o[n] = h
      BY <1>3, <2>1, <2>3
    <3>2. PICK a \in 1 .. Len(s) : s[a] = n
      BY <2>1, <3>1
    <3>3. a \in Nat /\ a # k
      BY <1>1, <3>1, <3>2
    <3>4. CASE a < k
      <4>1. a \in 1 .. Len(t) /\ t[a] = n
        BY <1>1, <1>6, <3>2, <3>3, <3>4
      <4> QED
        BY <4>1
    <3>5. CASE ~(a < k)
      <4>1. a - 1 \in 1 .. Len(t) /\ ~(a - 1 < k) /\ (a - 1) + 1 = a
        BY <1>1, <1>6, <3>2, <3>3, <3>5
      <4>2. t[a - 1] = n
        BY <1>6, <3>2, <4>1
      <4> QED
        BY <4>1, <4>2
    <3> QED
      BY <3>4, <3>5
  <2> QED
    BY <2>2, <2>3
<1>9. ASSUME NEW i \in 0 .. Len(t)
      PROVE  w.next[Cell(h, t, i)] = Follower(h, t, i)
  <2>1. i \in Nat /\ i \in 0 .. Len(s) /\ i + 1 \in 0 .. Len(s)
    BY <1>1, <1>6
  <2>2. \A j \in 0 .. Len(s) :
           w.next[Cell(h, s, j)] = IF j = k - 1 THEN Follower(h, s, k) ELSE Follower(h, s, j)
    BY SMTT(30), <1>1, <1>2, <1>3, <1>5 DEF Pointers
  <2>3. CASE i < k - 1
    <3>1. Cell(h, t, i) = Cell(h, s, i) /\ Follower(h, t, i) = Follower(h, s, i)
      BY <1>1, <1>6, <2>1, <2>3 DEF Cell, Follower
    <3> QED
      BY SMTT(30), <1>1, <2>1, <2>2, <2>3, <3>1
  <2>4. CASE i = k - 1
    <3>1. Cell(h, t, i) = Cell(h, s, i) /\ Follower(h, t, i) = Follower(h, s, k)
      BY <1>1, <1>6, <2>1, <2>4 DEF Cell, Follower
    <3> QED
      BY <1>1, <2>1, <2>2, <2>4, <3>1
  <2>5. CASE i > k - 1
    <3>1. i \in 1 .. Len(t) /\ i # 0 /\ i + 1 # 0 /\ ~(i < k) /\ i + 1 # k - 1
      BY <1>1, <1>6, <2>1, <2>5
    <3>2. Cell(h, t, i) = Cell(h, s, i + 1)
      BY <1>6, <3>1 DEF Cell
    <3>3. Follower(h, t, i) = Follower(h, s, i + 1)
      <4>1. Len(t) = Len(s) - 1
        BY <1>6
      <4>2. i = Len(t) <=> i + 1 = Len(s)
        BY <1>1, <2>1, <4>1
      <4>3. i # Len(t) => i + 1 \in 1 .. Len(t) /\ ~(i + 1 < k)
        BY <1>1, <2>1, <2>5, <4>1
      <4> QED
        BY <1>6, <4>2, <4>3 DEF Follower
    <3> QED
      BY <2>1, <2>2, <3>1, <3>2, <3>3
  <2> QED
    BY SMTT(30), <1>1, <2>1, <2>3, <2>4, <2>5
<1> QED
  BY <1>6, <1>7, <1>8, <1>9 DEF Chain, t

\* A sequence with those of another behind its k-th element.
Insert(s, k, r) ==
    [i \in 1 .. Len(s) + Len(r) |->
        IF i <= k THEN s[i] ELSE IF i <= k + Len(r) THEN r[i - k] ELSE s[i - Len(r)]]

\* What such a sequence is made of.
Contains(t, s, k, r) ==
    /\ t \in Seq(Nodes) /\ Len(t) = Len(s) + Len(r)
    /\ \A i \in 1 .. k : t[i] = s[i]
    /\ \A i \in 1 .. Len(r) : t[k + i] = r[i]
    /\ \A i \in k + 1 .. Len(s) : t[i + Len(r)] = s[i]

\* The definition says so.
LEMMA InsertFacts ==
    ASSUME NEW s \in Seq(Nodes), NEW r \in Seq(Nodes), NEW k \in 0 .. Len(s)
    PROVE  Contains(Insert(s, k, r), s, k, r)
<1> DEFINE t == Insert(s, k, r)
<1>1. /\ Len(s) \in Nat /\ Len(r) \in Nat /\ k \in Nat /\ k <= Len(s)
      /\ \A i \in 1 .. Len(s) : s[i] \in Nodes
      /\ \A i \in 1 .. Len(r) : r[i] \in Nodes
  <2>1. Len(s) \in Nat /\ Len(r) \in Nat /\ s \in [1 .. Len(s) -> Nodes] /\ r \in [1 .. Len(r) -> Nodes]
    BY LenProperties
  <2> QED
    BY <2>1
<1>2. Len(s) + Len(r) \in Nat
  BY <1>1
<1>3. t \in [1 .. Len(s) + Len(r) -> Nodes]
  <2>1. ASSUME NEW i \in 1 .. Len(s) + Len(r)
        PROVE  (IF i <= k THEN s[i] ELSE IF i <= k + Len(r) THEN r[i - k] ELSE s[i - Len(r)]) \in Nodes
    <3>1. /\ i <= k => i \in 1 .. Len(s)
          /\ ~(i <= k) /\ i <= k + Len(r) => i - k \in 1 .. Len(r)
          /\ ~(i <= k) /\ ~(i <= k + Len(r)) => i - Len(r) \in 1 .. Len(s)
      BY <1>1
    <3> QED
      BY <1>1, <3>1
  <2> QED
    BY <2>1 DEF Insert
<1>4. t \in Seq(Nodes) /\ Len(t) = Len(s) + Len(r)
  BY <1>2, <1>3, MakeSeq
<1>5. \A i \in 1 .. Len(s) + Len(r) :
         t[i] = IF i <= k THEN s[i] ELSE IF i <= k + Len(r) THEN r[i - k] ELSE s[i - Len(r)]
  BY DEF Insert
<1>6. \A i \in 1 .. k : t[i] = s[i]
  BY <1>1, <1>5
<1>7. ASSUME NEW i \in 1 .. Len(r) PROVE t[k + i] = r[i]
  <2>1. k + i \in 1 .. Len(s) + Len(r) /\ ~(k + i <= k) /\ k + i <= k + Len(r) /\ (k + i) - k = i
    BY <1>1
  <2> QED
    BY <1>5, <2>1
<1>8. ASSUME NEW i \in k + 1 .. Len(s) PROVE t[i + Len(r)] = s[i]
  <2>1. /\ i + Len(r) \in 1 .. Len(s) + Len(r) /\ ~(i + Len(r) <= k) /\ ~(i + Len(r) <= k + Len(r))
        /\ (i + Len(r)) - Len(r) = i
    BY <1>1
  <2> QED
    BY <1>5, <2>1
<1> HIDE DEF t
<1>9. Contains(t, s, k, r)
  BY <1>4, <1>6, <1>7, <1>8 DEF Contains
<1> QED
  BY <1>9 DEF t

\* A node put behind the k-th place of a list is behind the k-th element of its sequence.
LEMMA LinkChain ==
    ASSUME NEW m, NEW o, Sound(m, o), NEW h \in Heads, o[h] = h, NEW s, Chain(m, o, h, s),
           NEW n \in Nodes, o[n] = NULL, NEW k \in 0 .. Len(s), NEW b, b = Cell(h, s, k),
           NEW w, NEW p, w = link(m, n, b, m.next[b]), p = [o EXCEPT ![n] = h]
    PROVE  Chain(w, p, h, Insert(s, k, <<n>>))
<1> DEFINE t == Insert(s, k, <<n>>)
<1>1. /\ Len(s) \in Nat /\ k \in Nat /\ k <= Len(s)
      /\ \A i \in 0 .. Len(s) :
            /\ Cell(h, s, i) \in Cells
            /\ m.next[Cell(h, s, i)] = Follower(h, s, i)
            /\ o[Cell(h, s, i)] = h
      /\ \A i, j \in 0 .. Len(s) : Cell(h, s, i) = Cell(h, s, j) => i = j
  BY ChainFacts
<1>2. /\ m.next \in Pointers /\ o \in Owners /\ n \in Cells
      /\ NULL \notin Cells /\ h # NULL /\ h # n
  BY CellsAssumption DEF Sound, Mem, Cells
<1>3. w.next = [m.next EXCEPT ![n] = Follower(h, s, k), ![b] = n]
  BY <1>1 DEF link
<1>4. /\ t \in Seq(Nodes) /\ Len(t) = Len(s) + 1
      /\ \A i \in 1 .. k : t[i] = s[i]
      /\ t[k + 1] = n
      /\ \A i \in k + 1 .. Len(s) : t[i + 1] = s[i]
  <2>1. PICK r : r = <<n>>
    OBVIOUS
  <2>2. r \in Seq(Nodes) /\ Len(r) = 1 /\ r[1] = n /\ 1 \in 1 .. 1
    BY <2>1
  <2>3. s \in Seq(Nodes)
    BY DEF Chain
  <2>4. Contains(Insert(s, k, r), s, k, r)
    BY <2>2, <2>3, InsertFacts
  <2>5. t = Insert(s, k, r)
    BY <2>1
  <2> HIDE DEF t
  <2> QED
    BY <2>2, <2>4, <2>5 DEF Contains
<1> HIDE DEF t
<1>5. Len(t) = Len(s) + 1
  BY <1>4
<1>6. /\ \A a, c \in 1 .. Len(s) : s[a] = s[c] => a = c
      /\ \A x \in Nodes : o[x] = h <=> \E i \in 1 .. Len(s) : s[i] = x
      /\ \A i \in 1 .. Len(s) : s[i] # n
  BY <1>2 DEF Chain
<1> DEFINE Old(i) == IF i <= k THEN i ELSE i - 1
<1>7. ASSUME NEW i \in 1 .. Len(t)
      PROVE  i \in Nat /\ (i # k + 1 => Old(i) \in 1 .. Len(s) /\ t[i] = s[Old(i)])
  <2>1. i \in Nat /\ i > 0 /\ i <= Len(s) + 1
    BY <1>1, <1>5
  <2>2. CASE i <= k
    BY <1>1, <1>4, <2>1, <2>2
  <2>3. CASE i > k + 1
    <3>1. i - 1 \in k + 1 .. Len(s) /\ (i - 1) + 1 = i /\ i - 1 \in 1 .. Len(s) /\ ~(i <= k)
      BY <1>1, <2>1, <2>3
    <3> QED
      BY <1>4, <2>1, <3>1
  <2> QED
    BY <1>1, <2>1, <2>2, <2>3
<1>8. ASSUME NEW i \in 1 .. Len(t), NEW j \in 1 .. Len(t), t[i] = t[j] PROVE i = j
  <2>1. CASE i = k + 1 \/ j = k + 1
    BY <1>4, <1>6, <1>7, <1>8, <2>1
  <2>2. CASE i # k + 1 /\ j # k + 1
    <3>1. Old(i) = Old(j)
      BY <1>6, <1>7, <1>8, <2>2
    <3> QED
      BY <1>1, <1>7, <2>2, <3>1
  <2> QED
    BY <2>1, <2>2
<1>9. ASSUME NEW x \in Nodes
      PROVE  p[x] = h <=> \E i \in 1 .. Len(t) : t[i] = x
  <2>1. p[x] = IF x = n THEN h ELSE o[x]
    BY <1>2 DEF Owners, Cells
  <2>2. ASSUME NEW i \in 1 .. Len(t), t[i] = x PROVE p[x] = h
    <3>1. CASE i = k + 1
      BY <1>4, <2>1, <2>2, <3>1
    <3>2. CASE i # k + 1
      BY <1>6, <1>7, <2>1, <2>2, <3>2
    <3> QED
      BY <3>1, <3>2
  <2>3. ASSUME p[x] = h PROVE \E i \in 1 .. Len(t) : t[i] = x
    <3>1. CASE x = n
      <4>1. k + 1 \in 1 .. Len(t)
        BY <1>1, <1>5
      <4> QED
        BY <1>4, <3>1, <4>1
    <3>2. CASE x # n
      <4>1. PICK a \in 1 .. Len(s) : s[a] = x
        BY <1>6, <2>1, <2>3, <3>2
      <4>2. CASE a <= k
        <5>1. a \in 1 .. k /\ a \in 1 .. Len(t)
          BY <1>1, <1>5, <4>2
        <5> QED
          BY <1>4, <4>1, <5>1
      <4>3. CASE a > k
        <5>1. a \in k + 1 .. Len(s) /\ a + 1 \in 1 .. Len(t)
          BY <1>1, <1>5, <4>3
        <5> QED
          BY <1>4, <4>1, <5>1
      <4> QED
        BY <1>1, <4>2, <4>3
    <3> QED
      BY <3>1, <3>2
  <2> QED
    BY <2>2, <2>3
<1>10. ASSUME NEW i \in 0 .. Len(t)
       PROVE  w.next[Cell(h, t, i)] = Follower(h, t, i)
  <2>1. /\ w.next[n] = Follower(h, s, k)
        /\ \A j \in 0 .. Len(s) :
              w.next[Cell(h, s, j)] = IF j = k THEN n ELSE Follower(h, s, j)
    <3>1. \A j \in 0 .. Len(s) : Cell(h, s, j) # n /\ (Cell(h, s, j) = b <=> j = k)
      BY <1>1, <1>2
    <3>2. b \in Cells /\ b # n
      BY <1>1, <3>1
    <3> QED
      BY <1>1, <1>2, <1>3, <3>1, <3>2 DEF Pointers
  <2>2. i \in Nat /\ i <= Len(s) + 1
    BY <1>1, <1>5
  <2>3. CASE i < k
    <3>1. i \in 0 .. Len(s) /\ i + 1 \in 1 .. k /\ i # Len(t) /\ i # Len(s) /\ i # k /\ (i # 0 => i \in 1 .. k)
      BY <1>1, <1>5, <2>2, <2>3
    <3>2. Cell(h, t, i) = Cell(h, s, i) /\ Follower(h, t, i) = Follower(h, s, i)
      BY <1>4, <3>1 DEF Cell, Follower
    <3> QED
      BY <2>1, <3>1, <3>2
  <2>4. CASE i = k
    <3>1. i \in 0 .. Len(s) /\ i # Len(t) /\ (i # 0 => i \in 1 .. k)
      BY <1>1, <1>5, <2>2, <2>4
    <3>2. Cell(h, t, i) = Cell(h, s, i) /\ Follower(h, t, i) = n
      BY <1>4, <2>4, <3>1 DEF Cell, Follower
    <3> QED
      BY <2>1, <2>4, <3>1, <3>2
  <2>5. CASE i = k + 1
    <3>1. i # 0 /\ (i = Len(t) <=> k = Len(s)) /\ (k # Len(s) => k + 1 \in k + 1 .. Len(s))
      BY <1>1, <1>5, <2>2, <2>5
    <3>2. Cell(h, t, i) = n /\ Follower(h, t, i) = Follower(h, s, k)
      BY <1>4, <2>5, <3>1 DEF Cell, Follower
    <3> QED
      BY <2>1, <3>2
  <2>6. CASE i > k + 1
    <3>1. /\ i - 1 \in k + 1 .. Len(s) /\ (i - 1) + 1 = i /\ i - 1 \in 0 .. Len(s) /\ i # 0 /\ i - 1 # 0
          /\ i - 1 # k /\ (i = Len(t) <=> i - 1 = Len(s)) /\ (i # Len(t) => i \in k + 1 .. Len(s))
      BY <1>1, <1>5, <2>2, <2>6
    <3>2. Cell(h, t, i) = Cell(h, s, i - 1)
      BY <1>4, <3>1 DEF Cell
    <3>3. Follower(h, t, i) = Follower(h, s, i - 1)
      BY <1>4, <3>1 DEF Follower
    <3> QED
      BY <2>1, <3>1, <3>2, <3>3
  <2> QED
    BY <1>1, <2>2, <2>3, <2>4, <2>5, <2>6
<1> QED
  BY <1>4, <1>8, <1>9, <1>10 DEF Chain, t

\* A list that goes into another behind its k-th place is behind the k-th element.
LEMMA SpliceChain ==
    ASSUME NEW m, NEW o, Sound(m, o), NEW list \in Heads, NEW head \in Heads, list # head,
           o[list] = list, o[head] = head, NEW s, Chain(m, o, head, s), NEW r, Chain(m, o, list, r),
           Len(r) # 0, NEW k \in 0 .. Len(s), NEW b, b = Cell(head, s, k),
           NEW w, NEW p, w = splice(m, list, b, m.next[b]), p = Merged(o, list, head)
    PROVE  Chain(w, p, head, Insert(s, k, r))
<1> DEFINE t == Insert(s, k, r)
<1>1. /\ Len(s) \in Nat /\ k \in Nat /\ k <= Len(s)
      /\ \A i \in 0 .. Len(s) :
            /\ Cell(head, s, i) \in Cells
            /\ m.next[Cell(head, s, i)] = Follower(head, s, i)
            /\ o[Cell(head, s, i)] = head
      /\ \A i, j \in 0 .. Len(s) : Cell(head, s, i) = Cell(head, s, j) => i = j
  BY ChainFacts
<1>2. /\ Len(r) \in Nat /\ Len(r) > 0
      /\ \A i \in 0 .. Len(r) :
            /\ Cell(list, r, i) \in Cells
            /\ m.next[Cell(list, r, i)] = Follower(list, r, i)
            /\ o[Cell(list, r, i)] = list
      /\ \A i, j \in 0 .. Len(r) : Cell(list, r, i) = Cell(list, r, j) => i = j
  BY ChainFacts
<1>3. /\ m.next \in Pointers /\ o \in Owners /\ list \notin Nodes /\ head \notin Nodes
      /\ NULL \notin Cells /\ NULL \notin Heads
  BY CellsAssumption DEF Sound, Mem, Cells
<1>4. /\ m.next[list] = r[1] /\ m.prev[list] = r[Len(r)]
      /\ m.next[b] = Follower(head, s, k)
  <2>1. Cell(list, r, 0) = list /\ Follower(list, r, 0) = r[1] /\ Cell(list, r, Len(r)) = r[Len(r)]
    BY <1>2 DEF Cell, Follower
  <2>2. 0 \in 0 .. Len(r) /\ Cell(list, r, Len(r)) = m.prev[list]
    BY ChainEnds
  <2> QED
    BY <1>1, <1>2, <2>1, <2>2
<1>5. w.next = [m.next EXCEPT ![b] = r[1], ![r[Len(r)]] = Follower(head, s, k)]
  BY <1>4 DEF splice
<1>6. /\ t \in Seq(Nodes) /\ Len(t) = Len(s) + Len(r)
      /\ \A i \in 1 .. k : t[i] = s[i]
      /\ \A i \in 1 .. Len(r) : t[k + i] = r[i]
      /\ \A i \in k + 1 .. Len(s) : t[i + Len(r)] = s[i]
  <2>1. s \in Seq(Nodes) /\ r \in Seq(Nodes)
    BY DEF Chain
  <2>2. Contains(t, s, k, r)
    BY <2>1, InsertFacts
  <2> HIDE DEF t
  <2> QED
    BY <2>2 DEF Contains
<1> HIDE DEF t
<1>7. Len(t) = Len(s) + Len(r)
  BY <1>6
<1>8. /\ \A a, c \in 1 .. Len(s) : s[a] = s[c] => a = c
      /\ \A a, c \in 1 .. Len(r) : r[a] = r[c] => a = c
      /\ \A x \in Nodes : o[x] = head <=> \E i \in 1 .. Len(s) : s[i] = x
      /\ \A x \in Nodes : o[x] = list <=> \E i \in 1 .. Len(r) : r[i] = x
      /\ \A i \in 1 .. Len(s) : s[i] \in Nodes
      /\ \A i \in 1 .. Len(r) : r[i] \in Nodes
  BY ChainFacts DEF Chain
<1>9. ASSUME NEW a \in 1 .. Len(s), NEW c \in 1 .. Len(r) PROVE s[a] # r[c]
  <2>1. s[a] \in Nodes /\ r[c] \in Nodes
    BY <1>8
  <2>2. o[s[a]] = head /\ o[r[c]] = list
    BY <1>8, <2>1
  <2> QED
    BY <2>2
<1> DEFINE Old(i) == IF i <= k THEN i ELSE i - Len(r)
           New(i) == k < i /\ i <= k + Len(r)
<1>10. ASSUME NEW i \in 1 .. Len(t)
       PROVE  /\ i \in Nat
              /\ New(i) => i - k \in 1 .. Len(r) /\ t[i] = r[i - k]
              /\ ~New(i) => Old(i) \in 1 .. Len(s) /\ t[i] = s[Old(i)]
  <2>1. i \in Nat /\ i > 0 /\ i <= Len(s) + Len(r)
    BY <1>1, <1>2, <1>7
  <2>2. CASE i <= k
    BY <1>1, <1>6, <2>1, <2>2
  <2>3. CASE New(i)
    <3>1. i - k \in 1 .. Len(r) /\ k + (i - k) = i
      BY <1>1, <1>2, <2>1, <2>3
    <3> QED
      BY <1>6, <2>1, <2>3, <3>1
  <2>4. CASE i > k + Len(r)
    <3>1. /\ i - Len(r) \in k + 1 .. Len(s) /\ (i - Len(r)) + Len(r) = i
          /\ i - Len(r) \in 1 .. Len(s) /\ ~(i <= k) /\ ~New(i)
      BY <1>1, <1>2, <2>1, <2>4
    <3> QED
      BY SMTT(30), <1>6, <2>1, <3>1
  <2> QED
    BY <1>1, <1>2, <2>1, <2>2, <2>3, <2>4
<1>11. ASSUME NEW i \in 1 .. Len(t), NEW j \in 1 .. Len(t), t[i] = t[j] PROVE i = j
  <2>1. CASE New(i) /\ New(j)
    <3>1. i - k = j - k
      BY SMTT(30), <1>8, <1>10, <1>11, <2>1
    <3> QED
      BY <1>1, <1>10, <3>1
  <2>2. CASE ~New(i) /\ ~New(j)
    <3>1. Old(i) = Old(j)
      <4> HIDE DEF Old, New
      <4> QED
        BY SMTT(30), <1>8, <1>10, <1>11, <2>2
    <3> QED
      BY <1>1, <1>2, <1>10, <2>2, <3>1
  <2> HIDE DEF Old, New
  <2>3. CASE New(i) /\ ~New(j)
    <3>1. i - k \in 1 .. Len(r) /\ t[i] = r[i - k] /\ Old(j) \in 1 .. Len(s) /\ t[j] = s[Old(j)]
      BY <1>10, <2>3
    <3> QED
      BY <1>9, <1>11, <3>1
  <2>4. CASE ~New(i) /\ New(j)
    <3>1. j - k \in 1 .. Len(r) /\ t[j] = r[j - k] /\ Old(i) \in 1 .. Len(s) /\ t[i] = s[Old(i)]
      BY <1>10, <2>4
    <3> QED
      BY <1>9, <1>11, <3>1
  <2> QED
    BY <2>1, <2>2, <2>3, <2>4
<1>12. ASSUME NEW x \in Nodes
       PROVE  p[x] = head <=> \E i \in 1 .. Len(t) : t[i] = x
  <2>1. p[x] = IF o[x] = list THEN head ELSE o[x]
    BY <1>3 DEF Merged, Cells
  <2>2. ASSUME NEW i \in 1 .. Len(t), t[i] = x PROVE p[x] = head
    BY ZenonT(30), <1>8, <1>10, <2>1, <2>2
  <2>3. ASSUME p[x] = head PROVE \E i \in 1 .. Len(t) : t[i] = x
    <3>1. CASE o[x] = list
      <4>1. PICK a \in 1 .. Len(r) : r[a] = x
        BY <1>8, <3>1
      <4>2. k + a \in 1 .. Len(t)
        BY <1>1, <1>2, <1>7
      <4> QED
        BY <1>6, <4>1, <4>2
    <3>2. CASE o[x] # list
      <4>1. PICK a \in 1 .. Len(s) : s[a] = x
        BY <1>8, <2>1, <2>3, <3>2
      <4>2. CASE a <= k
        <5>1. a \in 1 .. k /\ a \in 1 .. Len(t)
          BY <1>1, <1>2, <1>7, <4>2
        <5> QED
          BY <1>6, <4>1, <5>1
      <4>3. CASE a > k
        <5>1. a \in k + 1 .. Len(s) /\ a + Len(r) \in 1 .. Len(t)
          BY <1>1, <1>2, <1>7, <4>3
        <5> QED
          BY <1>6, <4>1, <5>1
      <4> QED
        BY <1>1, <4>2, <4>3
    <3> QED
      BY <3>1, <3>2
  <2> QED
    BY <2>2, <2>3
<1>13. ASSUME NEW i \in 0 .. Len(t)
       PROVE  w.next[Cell(head, t, i)] = Follower(head, t, i)
  <2>1. /\ \A j \in 0 .. Len(s) :
              w.next[Cell(head, s, j)] = IF j = k THEN r[1] ELSE Follower(head, s, j)
        /\ \A j \in 1 .. Len(r) :
              w.next[r[j]] = IF j = Len(r) THEN Follower(head, s, k) ELSE r[j + 1]
    <3>1. ASSUME NEW j \in 1 .. Len(r)
          PROVE  /\ r[j] \in Cells /\ o[r[j]] = list /\ (r[j] = r[Len(r)] <=> j = Len(r))
                 /\ m.next[r[j]] = IF j = Len(r) THEN list ELSE r[j + 1]
      <4>1. j \in 0 .. Len(r) /\ j # 0 /\ Len(r) \in 1 .. Len(r)
        BY <1>2
      <4>2. Cell(list, r, j) = r[j]
        BY <4>1 DEF Cell
      <4> QED
        BY SMTT(30), <1>2, <1>8, <4>1, <4>2 DEF Follower
    <3>2. Len(r) \in 1 .. Len(r)
      BY <1>2
    <3>3. \A j \in 0 .. Len(s) : Cell(head, s, j) # r[Len(r)] /\ (Cell(head, s, j) = b <=> j = k)
      BY SMTT(30), <1>1, <3>1, <3>2
    <3>4. \A j \in 1 .. Len(r) : r[j] # b
      BY <1>1, <3>1
    <3>5. b \in Cells /\ r[Len(r)] \in Cells
      BY <1>1, <3>1, <3>2
    <3>6. \A c \in Cells : w.next[c] = IF c = r[Len(r)] THEN Follower(head, s, k)
                                       ELSE IF c = b THEN r[1] ELSE m.next[c]
      BY <1>3, <1>5, <3>5 DEF Pointers
    <3>7. ASSUME NEW j \in 0 .. Len(s)
          PROVE  w.next[Cell(head, s, j)] = IF j = k THEN r[1] ELSE Follower(head, s, j)
      BY <1>1, <3>3, <3>6
    <3>8. ASSUME NEW j \in 1 .. Len(r)
          PROVE  w.next[r[j]] = IF j = Len(r) THEN Follower(head, s, k) ELSE r[j + 1]
      BY <3>1, <3>4, <3>6
    <3> QED
      BY <3>7, <3>8
  <2>2. i \in Nat /\ i <= Len(s) + Len(r)
    BY <1>1, <1>2, <1>7
  <2>3. CASE i < k
    <3>1. i \in 0 .. Len(s) /\ i + 1 \in 1 .. k /\ i # Len(t) /\ i # Len(s) /\ i # k /\ (i # 0 => i \in 1 .. k)
      BY <1>1, <1>2, <1>7, <2>2, <2>3
    <3>2. Cell(head, t, i) = Cell(head, s, i) /\ Follower(head, t, i) = Follower(head, s, i)
      BY <1>6, <3>1 DEF Cell, Follower
    <3> QED
      BY <2>1, <3>1, <3>2
  <2>4. CASE i = k
    <3>1. i \in 0 .. Len(s) /\ i # Len(t) /\ (i # 0 => i \in 1 .. k) /\ 1 \in 1 .. Len(r)
      BY <1>1, <1>2, <1>7, <2>2, <2>4
    <3>2. Cell(head, t, i) = Cell(head, s, i) /\ Follower(head, t, i) = r[1]
      BY <1>6, <2>4, <3>1 DEF Cell, Follower
    <3> QED
      BY <2>1, <2>4, <3>1, <3>2
  <2>5. CASE k < i /\ i < k + Len(r)
    <3>1. /\ i - k \in 1 .. Len(r) /\ k + (i - k) = i /\ i # 0 /\ i - k # Len(r) /\ i # Len(t)
          /\ (i - k) + 1 \in 1 .. Len(r) /\ k + ((i - k) + 1) = i + 1
      BY <1>1, <1>2, <1>7, <2>2, <2>5
    <3>2. Cell(head, t, i) = r[i - k]
      BY <1>6, <3>1 DEF Cell
    <3>3. Follower(head, t, i) = r[(i - k) + 1]
      BY <1>6, <3>1 DEF Follower
    <3> QED
      BY <2>1, <3>1, <3>2, <3>3
  <2>6. CASE i = k + Len(r)
    <3>1. /\ Len(r) \in 1 .. Len(r) /\ i # 0 /\ (i = Len(t) <=> k = Len(s))
          /\ (k # Len(s) => k + 1 \in k + 1 .. Len(s)) /\ (k + 1) + Len(r) = i + 1
      BY <1>1, <1>2, <1>7, <2>2, <2>6
    <3>2. Cell(head, t, i) = r[Len(r)]
      BY <1>6, <2>6, <3>1 DEF Cell
    <3>3. Follower(head, t, i) = Follower(head, s, k)
      BY <1>6, <3>1 DEF Follower
    <3> QED
      BY <2>1, <3>1, <3>2, <3>3
  <2>7. CASE i > k + Len(r)
    <3> DEFINE j == i - Len(r)
    <3>1. /\ j \in k + 1 .. Len(s) /\ j + Len(r) = i /\ j \in 0 .. Len(s) /\ i # 0 /\ j # 0
          /\ j # k /\ (i = Len(t) <=> j = Len(s))
          /\ (j # Len(s) => j + 1 \in k + 1 .. Len(s)) /\ (j + 1) + Len(r) = i + 1
      BY <1>1, <1>2, <1>7, <2>2, <2>7
    <3> HIDE DEF j
    <3>2. Cell(head, t, i) = Cell(head, s, j)
      BY <1>6, <3>1 DEF Cell
    <3>3. Follower(head, t, i) = Follower(head, s, j)
      BY <1>6, <3>1 DEF Follower
    <3> QED
      BY <2>1, <3>1, <3>2, <3>3
  <2> QED
    BY <1>1, <1>2, <2>2, <2>3, <2>4, <2>5, <2>6, <2>7
<1> QED
  BY <1>6, <1>11, <1>12, <1>13 DEF Chain, t

\* A node that takes another's place has its place in the sequence.
LEMMA ReplaceChain ==
    ASSUME NEW m, NEW o, Sound(m, o), NEW h \in Heads, o[h] = h, NEW s, Chain(m, o, h, s),
           NEW k \in 1 .. Len(s), NEW old, old = s[k], NEW node \in Nodes, o[node] = NULL,
           NEW t, t = [i \in 1 .. Len(s) |-> IF i = k THEN node ELSE s[i]]
    PROVE  Chain(replaced(m, old, node), Taken(o, old, node), h, t)
<1> DEFINE w == replaced(m, old, node)
           p == Taken(o, old, node)
<1>1. /\ Len(s) \in Nat /\ k \in Nat /\ k > 0 /\ k <= Len(s)
      /\ k \in 0 .. Len(s) /\ k - 1 \in 0 .. Len(s)
      /\ \A i \in 1 .. Len(s) : s[i] \in Nodes
      /\ \A i \in 0 .. Len(s) :
            /\ Cell(h, s, i) \in Cells /\ o[Cell(h, s, i)] = h /\ Follower(h, s, i) \in Cells
            /\ m.next[Cell(h, s, i)] = Follower(h, s, i)
            /\ m.prev[Follower(h, s, i)] = Cell(h, s, i)
      /\ \A i, j \in 0 .. Len(s) : Cell(h, s, i) = Cell(h, s, j) => i = j
  BY ChainFacts
<1>2. /\ m.next \in Pointers /\ m.prev \in Pointers /\ o \in Owners /\ old \in Nodes /\ old \notin Heads
      /\ node \in Cells /\ node # h /\ NULL \notin Cells /\ h # NULL /\ NULL \notin Heads
  BY <1>1, CellsAssumption DEF Sound, Mem, Cells
<1>3. Cell(h, s, k) = old /\ Follower(h, s, k - 1) = old
  BY <1>1 DEF Cell, Follower
<1>4. m.next[old] = Follower(h, s, k) /\ m.prev[old] = Cell(h, s, k - 1)
  BY <1>1, <1>3
<1>5. Follower(h, s, k) # old
  <2>1. Cell(h, s, k) # Cell(h, s, k - 1)
    BY <1>1
  <2>2. m.prev[Follower(h, s, k)] # m.prev[old]
    BY <1>1, <1>3, <1>4, <2>1
  <2> QED
    BY <2>2
<1>6. w.next = [m.next EXCEPT ![node] = Follower(h, s, k), ![Cell(h, s, k - 1)] = node]
  <2>1. [m.prev EXCEPT ![Follower(h, s, k)] = node][old] = Cell(h, s, k - 1)
    BY <1>2, <1>4, <1>5 DEF Pointers, Cells
  <2> QED
    BY <1>4, <2>1 DEF replaced
<1> HIDE DEF w
<1>7. t \in Seq(Nodes) /\ Len(t) = Len(s)
  <2>1. t \in [1 .. Len(s) -> Nodes]
    BY <1>1
  <2> QED
    BY <1>1, <2>1, MakeSeq
<1>8. \A i \in 1 .. Len(s) : t[i] = IF i = k THEN node ELSE s[i]
  OBVIOUS
<1>9. /\ \A i, j \in 1 .. Len(s) : s[i] = s[j] => i = j
      /\ \A n \in Nodes : o[n] = h <=> \E i \in 1 .. Len(s) : s[i] = n
  BY DEF Chain
<1>10. \A i \in 1 .. Len(s) : s[i] # node
  BY <1>2, <1>9
<1>11. ASSUME NEW i \in 1 .. Len(t), NEW j \in 1 .. Len(t), t[i] = t[j] PROVE i = j
  BY SMTT(30), <1>7, <1>8, <1>9, <1>10, <1>11
<1>12. ASSUME NEW n \in Nodes
       PROVE  p[n] = h <=> \E i \in 1 .. Len(t) : t[i] = n
  <2>1. p[n] = IF n = old THEN NULL ELSE IF n = node THEN o[old] ELSE o[n]
    BY <1>2 DEF Taken, Cells
  <2>2. o[old] = h /\ old # node
    BY <1>1, <1>2, <1>3, <1>10
  <2>3. ASSUME NEW i \in 1 .. Len(s), t[i] = n PROVE p[n] = h
    <3>1. CASE i = k
      BY <1>8, <2>1, <2>2, <2>3, <3>1
    <3>2. CASE i # k
      <4>1. s[i] = n /\ n # old /\ n # node
        BY <1>8, <1>9, <1>10, <2>3, <3>2
      <4> QED
        BY <1>9, <2>1, <4>1
    <3> QED
      BY <3>1, <3>2
  <2>4. ASSUME p[n] = h PROVE \E i \in 1 .. Len(s) : t[i] = n
    <3>1. n # old
      BY <1>2, <2>1, <2>4
    <3>2. CASE n = node
      BY <1>8, <3>2
    <3>3. CASE n # node
      <4>1. PICK i \in 1 .. Len(s) : s[i] = n
        BY <1>9, <2>1, <2>4, <3>1, <3>3
      <4>2. t[i] = n
        BY <1>8, <3>1, <4>1
      <4> QED
        BY <4>2
    <3> QED
      BY <3>2, <3>3
  <2> QED
    BY <1>7, <2>3, <2>4
<1>13. ASSUME NEW i \in 0 .. Len(s)
       PROVE  w.next[Cell(h, t, i)] = Follower(h, t, i)
  <2>1. /\ w.next[node] = Follower(h, s, k)
        /\ \A j \in 0 .. Len(s) :
              w.next[Cell(h, s, j)] = IF j = k - 1 THEN node ELSE Follower(h, s, j)
    <3>1. \A j \in 0 .. Len(s) : Cell(h, s, j) # node
      BY <1>1, <1>2
    <3>2. \A c \in Cells : w.next[c] = IF c = Cell(h, s, k - 1) THEN node
                                       ELSE IF c = node THEN Follower(h, s, k) ELSE m.next[c]
      BY <1>1, <1>2, <1>6 DEF Pointers
    <3> QED
      BY <1>1, <1>2, <3>1, <3>2
  <2>2. i = 0 \/ i \in 1 .. Len(s)
    BY <1>1
  <2>3. Cell(h, t, i) = IF i = k THEN node ELSE Cell(h, s, i)
    BY <1>1, <1>8, <2>2 DEF Cell
  <2>4. Follower(h, t, i) = IF i = k - 1 THEN node ELSE Follower(h, s, i)
    <3>1. CASE i = Len(s)
      <4>1. i # k - 1
        BY <1>1, <3>1
      <4> QED
        BY <1>7, <3>1, <4>1 DEF Follower
    <3>2. CASE i # Len(s)
      <4>1. i + 1 \in 1 .. Len(s) /\ (i + 1 = k <=> i = k - 1)
        BY <1>1, <3>2
      <4> QED
        BY <1>7, <1>8, <3>2, <4>1 DEF Follower
    <3> QED
      BY <3>1, <3>2
  <2>5. k # k - 1
    BY <1>1
  <2> QED
    BY <2>1, <2>3, <2>4, <2>5
<1> HIDE DEF p
<1>14. Chain(w, p, h, t)
  BY <1>7, <1>11, <1>12, <1>13 DEF Chain
<1> QED
  BY <1>14 DEF w, p

\* A head that takes another's place has its list, in the same order.
LEMMA ReheadChain ==
    ASSUME NEW m, NEW o, Sound(m, o), NEW old \in Heads, o[old] = old, NEW s, Chain(m, o, old, s),
           NEW head \in Heads, o[head] = NULL, \A n \in Nodes : o[n] # head
    PROVE  Chain(replaced(m, old, head), Taken(o, old, head), head, s)
<1> DEFINE w == replaced(m, old, head)
           p == Taken(o, old, head)
<1>1. /\ Len(s) \in Nat /\ 0 \in 0 .. Len(s) /\ Len(s) \in 0 .. Len(s)
      /\ \A i \in 1 .. Len(s) : s[i] \in Nodes
      /\ \A i \in 0 .. Len(s) :
            /\ Cell(old, s, i) \in Cells /\ o[Cell(old, s, i)] = old /\ Follower(old, s, i) \in Cells
            /\ m.next[Cell(old, s, i)] = Follower(old, s, i)
            /\ m.prev[Follower(old, s, i)] = Cell(old, s, i)
      /\ \A i, j \in 0 .. Len(s) : Cell(old, s, i) = Cell(old, s, j) => i = j
  BY ChainFacts
<1>2. /\ m.next \in Pointers /\ m.prev \in Pointers /\ o \in Owners /\ old \in Cells /\ old \notin Nodes
      /\ head \in Cells /\ head # old /\ head \notin Nodes /\ NULL \notin Cells /\ NULL \notin Heads
  BY CellsAssumption DEF Sound, Mem, Cells
<1>3. m.next[old] = Follower(old, s, 0) /\ m.prev[old] = Cell(old, s, Len(s))
  BY <1>1, ChainEnds DEF Cell
<1>4. Len(s) # 0 => Follower(old, s, 0) # old /\ Cell(old, s, Len(s)) # old
  <2>1. ASSUME Len(s) # 0 PROVE Cell(old, s, 0) # Cell(old, s, Len(s))
    BY <1>1, <2>1
  <2>2. Len(s) # 0 => m.next[old] # old
    BY ChainEnds
  <2> QED
    BY <1>3, <2>1, <2>2 DEF Cell
<1>5. CASE Len(s) = 0
  <2>1. m.next[old] = old /\ m.prev[old] = old
    BY <1>3, <1>5 DEF Cell, Follower
  <2>2. w.next[head] = head
    <3>1. [m.prev EXCEPT ![old] = head][old] = head
      BY <1>2 DEF Pointers
    <3>2. w.next = [m.next EXCEPT ![head] = old, ![head] = head]
      BY <2>1, <3>1 DEF replaced
    <3> QED
      BY <1>2, <3>2 DEF Pointers
  <2>3. ASSUME NEW n \in Nodes PROVE p[n] # head
    <3>1. o[n] # old
      BY <1>5 DEF Chain
    <3> QED
      BY <1>2, <3>1 DEF Taken, Cells
  <2>4. \A i \in 0 .. Len(s) : w.next[Cell(head, s, i)] = Follower(head, s, i)
    <3>1. \A i \in 0 .. Len(s) : i = 0
      BY <1>5
    <3> QED
      BY <1>5, <2>2, <3>1 DEF Cell, Follower
  <2>5. 1 .. Len(s) = {}
    BY <1>5
  <2> HIDE DEF w, p
  <2>6. Chain(w, p, head, s)
    BY <2>3, <2>4, <2>5 DEF Chain
  <2> QED
    BY <2>6 DEF w, p
<1>6. CASE Len(s) # 0
  <2>1. w.next = [m.next EXCEPT ![head] = Follower(old, s, 0), ![Cell(old, s, Len(s))] = head]
    <3>1. [m.prev EXCEPT ![Follower(old, s, 0)] = head][old] = Cell(old, s, Len(s))
      BY <1>2, <1>3, <1>4, <1>6 DEF Pointers
    <3> QED
      BY <1>3, <3>1 DEF replaced
  <2> HIDE DEF w
  <2>2. /\ w.next[head] = Follower(old, s, 0)
        /\ \A j \in 0 .. Len(s) : j # 0 =>
              w.next[Cell(old, s, j)] = IF j = Len(s) THEN head ELSE Follower(old, s, j)
    <3>1. \A j \in 0 .. Len(s) : Cell(old, s, j) # head
      BY <1>1, <1>2
    <3>2. \A c \in Cells : w.next[c] = IF c = Cell(old, s, Len(s)) THEN head
                                       ELSE IF c = head THEN Follower(old, s, 0) ELSE m.next[c]
      BY <1>1, <1>2, <2>1 DEF Pointers
    <3> QED
      BY <1>1, <1>2, <3>1, <3>2
  <2>3. ASSUME NEW i \in 0 .. Len(s)
        PROVE  w.next[Cell(head, s, i)] = Follower(head, s, i)
    <3>1. CASE i = 0
      BY <1>6, <2>2, <3>1 DEF Cell, Follower
    <3>2. CASE i # 0
      BY <2>2, <3>2 DEF Cell, Follower
    <3> QED
      BY <3>1, <3>2
  <2>4. ASSUME NEW n \in Nodes
        PROVE  p[n] = head <=> \E i \in 1 .. Len(s) : s[i] = n
    <3>1. p[n] = IF o[n] = old THEN head ELSE o[n]
      BY <1>2 DEF Taken, Cells
    <3> QED
      BY <3>1 DEF Chain
  <2> HIDE DEF p
  <2>5. Chain(w, p, head, s)
    BY <2>3, <2>4 DEF Chain
  <2> QED
    BY <2>5 DEF w, p
<1> QED
  BY <1>5, <1>6

-----------------------------------------------------------------------------
(* All lists at once *)

Uses(o) == {h \in Heads : o[h] = h}

\* f says what the list of every head in use is, and every node that has an owner is in one.
Ordered(m, o, f) ==
    /\ Sound(m, o)
    /\ \A n \in Nodes : o[n] # NULL => o[n] \in Uses(o)
    /\ f = [h \in Uses(o) |-> f[h]]
    /\ \A h \in Uses(o) : Chain(m, o, h, f[h])

\* What is taken out of a chain, where it is in it.
LEMMA RemovedFacts ==
    ASSUME NEW m, NEW o, NEW h, NEW s, Chain(m, o, h, s), NEW e \in Nodes
    PROVE  /\ o[e] # h => Abstract!Removed(s, e) = s
           /\ o[e] = h => \E k \in 1 .. Len(s) : e = s[k] /\ Abstract!Removed(s, e) = Cut(s, k)
<1>1. DOMAIN s = 1 .. Len(s)
  BY LenProperties DEF Chain
<1>2. CASE o[e] # h
  <2>1. ~ \E i \in DOMAIN s : s[i] = e
    BY <1>1, <1>2 DEF Chain
  <2> QED
    BY <1>2, <2>1 DEF Abstract!Removed
<1>3. CASE o[e] = h
  <2>1. PICK k \in DOMAIN s : s[k] = e
    BY <1>1, <1>3 DEF Chain
  <2>2. (CHOOSE i \in DOMAIN s : s[i] = e) = k
    BY <1>1, <2>1 DEF Chain
  <2>3. Abstract!Removed(s, e) = Cut(s, k)
    BY <2>1, <2>2 DEF Abstract!Removed, Cut
  <2> QED
    BY <1>1, <1>3, <2>1, <2>3
<1> QED
  BY <1>2, <1>3

\* Taking a loose node out takes it out of the one list it is in, if any.
LEMMA OrderUnlinked ==
    ASSUME NEW m, NEW o, NEW f, Ordered(m, o, f), NEW e \in Nodes, Loose(m, o, e)
    PROVE  Ordered(unlink(m, m.prev[e], m.next[e]), [o EXCEPT ![e] = NULL],
                   [h \in Uses(o) |-> Abstract!Removed(f[h], e)])
<1> DEFINE w == unlink(m, m.prev[e], m.next[e])
           p == [o EXCEPT ![e] = NULL]
           g == [h \in Uses(o) |-> Abstract!Removed(f[h], e)]
<1>1. Sound(m, o) /\ Sound(w, p)
  BY Unlinked DEF Ordered
<1>2. /\ o \in Owners /\ e \in Cells /\ e \notin Heads /\ NULL \notin Cells /\ m.next \in Pointers
      /\ Heads \subseteq Cells /\ Nodes \subseteq Cells
  BY <1>1, CellsAssumption DEF Sound, Cells, Mem
<1>3. p[e] = NULL /\ \A x \in Cells \ {e} : p[x] = o[x]
  BY <1>2 DEF Owners
<1>4. Uses(p) = Uses(o)
  BY <1>2, <1>3 DEF Uses
<1>5. \A n \in Nodes : p[n] # NULL => p[n] \in Uses(p)
  BY <1>2, <1>3, <1>4 DEF Ordered
<1>6. ASSUME NEW h \in Uses(o) PROVE Chain(w, p, h, g[h])
  <2>1. h \in Heads /\ o[h] = h /\ Chain(m, o, h, f[h]) /\ g[h] = Abstract!Removed(f[h], e)
    BY DEF Ordered, Uses
  <2>2. CASE o[e] = h
    <3>1. PICK k \in 1 .. Len(f[h]) : e = f[h][k] /\ g[h] = Cut(f[h], k)
      BY <2>1, <2>2, RemovedFacts
    <3> QED
      BY SMTT(30), <1>1, <2>1, <3>1, CutChain
  <2>3. CASE o[e] # h
    <3>1. g[h] = f[h]
      BY <2>1, <2>3, RemovedFacts
    <3>2. m.prev[e] \in Cells /\ o[m.prev[e]] # h
      BY ZenonT(30), <1>1, <1>2, <2>3 DEF Loose, Sound, Joined
    <3>3. w.next = [m.next EXCEPT ![m.prev[e]] = m.next[e]]
      BY DEF unlink
    <3>4. \A c \in Cells : o[c] = h => w.next[c] = m.next[c]
      BY <1>2, <3>2, <3>3 DEF Pointers
    <3>5. \A n \in Nodes : p[n] = h <=> o[n] = h
      BY <1>2, <1>3, <2>1, <2>3
    <3> HIDE DEF w, p, g
    <3>6. Chain(w, p, h, f[h])
      BY <1>1, <2>1, <3>4, <3>5, Elsewhere
    <3> QED
      BY <3>1, <3>6
  <2> QED
    BY <2>2, <2>3
<1>7. g = [h \in Uses(p) |-> g[h]]
  BY <1>4
<1> HIDE DEF w, p, g
<1>8. Ordered(w, p, g)
  BY <1>1, <1>4, <1>5, <1>6, <1>7 DEF Ordered
<1> QED
  BY <1>8 DEF w, p, g

\* What is stored in a cell that is in no list changes none.
LEMMA OrderWritten ==
    ASSUME NEW m, NEW o, NEW f, Ordered(m, o, f), NEW e \in Cells, o[e] = NULL
    PROVE  Ordered(Reset(m, e), o, f) /\ Ordered(Poison(m, e), o, f)
<1>1. Sound(m, o) /\ m.next \in Pointers /\ NULL \notin Heads
  BY CellsAssumption DEF Ordered, Sound, Mem
<1>2. ASSUME NEW v, NEW w, w.next = [m.next EXCEPT ![e] = v], Sound(w, o)
      PROVE  Ordered(w, o, f)
  <2>1. ASSUME NEW h \in Uses(o) PROVE Chain(w, o, h, f[h])
    <3>1. h \in Heads /\ o[h] = h /\ Chain(m, o, h, f[h])
      BY DEF Ordered, Uses
    <3>2. \A c \in Cells : o[c] = h => w.next[c] = m.next[c]
      BY <1>1, <1>2, <3>1 DEF Pointers
    <3> QED
      BY <1>1, <3>1, <3>2, Elsewhere
  <2> QED
    BY <1>2, <2>1 DEF Ordered
<1>3. Sound(Reset(m, e), o) /\ Sound(Poison(m, e), o)
  BY <1>1, Written
<1>4. Reset(m, e).next = [m.next EXCEPT ![e] = e] /\ Poison(m, e).next = [m.next EXCEPT ![e] = NULL]
  BY DEF Reset, Poison
<1> QED
  BY <1>2, <1>3, <1>4

\* The heads and the sequences once h is a list of its own.
Opened(f, o, h) == [g \in Uses(o) \cup {h} |-> IF g = h THEN <<>> ELSE f[g]]

\* A head that is set up has the empty list.
LEMMA OrderSetUp ==
    ASSUME NEW m, NEW o, NEW f, Ordered(m, o, f), NEW h \in Heads, o[h] = NULL
    PROVE  Ordered(Reset(m, h), [o EXCEPT ![h] = h],
                   Opened(f, o, h))
<1> DEFINE w == Reset(m, h)
           p == [o EXCEPT ![h] = h]
           q == Opened(f, o, h)
<1>1. Sound(m, o) /\ Sound(w, p)
  BY SetUp DEF Ordered
<1>2. /\ o \in Owners /\ h \in Cells /\ h \notin Nodes /\ NULL \notin Heads /\ m.next \in Pointers
      /\ Heads \subseteq Cells /\ Nodes \subseteq Cells
  BY <1>1, CellsAssumption DEF Sound, Cells, Mem
<1>3. p[h] = h /\ \A x \in Cells \ {h} : p[x] = o[x]
  BY <1>2 DEF Owners
<1>4. Uses(p) = Uses(o) \cup {h}
  BY <1>2, <1>3 DEF Uses
<1>5. \A n \in Nodes : p[n] # NULL => p[n] \in Uses(p)
  BY <1>2, <1>3, <1>4 DEF Ordered
<1>6. w.next = [m.next EXCEPT ![h] = h]
  BY DEF Reset
<1>7. ASSUME NEW g \in Uses(p) PROVE Chain(w, p, g, q[g])
  <2>1. CASE g = h
    <3>1. q[g] = <<>> /\ <<>> \in Seq(Nodes) /\ Len(<<>>) = 0
      BY <1>4, <2>1 DEF Opened
    <3>2. ASSUME NEW n \in Nodes PROVE p[n] # h
      <4>1. o[n] # h
        BY <1>2 DEF Ordered, Uses
      <4> QED
        BY <1>2, <1>3, <4>1
    <3>3. w.next[h] = h
      BY <1>2, <1>6 DEF Pointers
    <3>4. 1 .. 0 = {} /\ \A i \in 0 .. 0 : i = 0
      OBVIOUS
    <3> HIDE DEF w, p, q
    <3> QED
      BY <2>1, <3>1, <3>2, <3>3, <3>4 DEF Chain, Cell, Follower
  <2>2. CASE g # h
    <3>1. g \in Heads /\ o[g] = g /\ Chain(m, o, g, f[g]) /\ q[g] = f[g]
      BY <1>4, <2>2 DEF Ordered, Uses, Opened
    <3>2. \A c \in Cells : o[c] = g => w.next[c] = m.next[c]
      BY <1>2, <1>6, <3>1 DEF Pointers
    <3>3. \A n \in Nodes : p[n] = g <=> o[n] = g
      BY <1>2, <1>3
    <3> HIDE DEF w, p, q
    <3> QED
      BY <1>1, <3>1, <3>2, <3>3, Elsewhere
  <2> QED
    BY <2>1, <2>2
<1>8. q = [g \in Uses(p) |-> q[g]]
  BY <1>4 DEF Opened
<1> HIDE DEF w, p, q
<1>9. Ordered(w, p, q)
  BY <1>1, <1>5, <1>7, <1>8 DEF Ordered
<1> QED
  BY <1>9 DEF w, p, q

\* What goes in at the ends.
LEMMA InsertEnds ==
    ASSUME NEW s \in Seq(Nodes), NEW r \in Seq(Nodes)
    PROVE  Insert(s, 0, r) = r \o s /\ Insert(s, Len(s), r) = s \o r
<1>1. Len(s) \in Nat /\ Len(r) \in Nat /\ 0 \in 0 .. Len(s) /\ Len(s) \in 0 .. Len(s)
  <2>1. Len(s) \in Nat /\ Len(r) \in Nat
    BY LenProperties
  <2> QED
    BY <2>1
<1>2. Insert(s, 0, r) \in Seq(Nodes) /\ Insert(s, Len(s), r) \in Seq(Nodes)
  BY <1>1, InsertFacts DEF Contains
<1>3. /\ r \o s \in Seq(Nodes) /\ Len(r \o s) = Len(r) + Len(s)
      /\ \A i \in 1 .. Len(r) + Len(s) : (r \o s)[i] = IF i <= Len(r) THEN r[i] ELSE s[i - Len(r)]
      /\ s \o r \in Seq(Nodes) /\ Len(s \o r) = Len(s) + Len(r)
      /\ \A i \in 1 .. Len(s) + Len(r) : (s \o r)[i] = IF i <= Len(s) THEN s[i] ELSE r[i - Len(s)]
  BY ConcatProperties
<1>4. Insert(s, 0, r) = [i \in 1 .. Len(r) + Len(s) |-> (r \o s)[i]]
  <2>1. ASSUME NEW i \in 1 .. Len(s) + Len(r)
        PROVE  (IF i <= 0 THEN s[i] ELSE IF i <= 0 + Len(r) THEN r[i - 0] ELSE s[i - Len(r)]) = (r \o s)[i]
    <3>1. ~(i <= 0) /\ 0 + Len(r) = Len(r) /\ i - 0 = i /\ i \in 1 .. Len(r) + Len(s)
      BY <1>1
    <3> QED
      BY <1>3, <3>1
  <2>2. Len(s) + Len(r) = Len(r) + Len(s)
    BY <1>1
  <2> QED
    BY <2>1, <2>2 DEF Insert
<1>5. Insert(s, Len(s), r) = [i \in 1 .. Len(s) + Len(r) |-> (s \o r)[i]]
  <2>1. ASSUME NEW i \in 1 .. Len(s) + Len(r)
        PROVE  (IF i <= Len(s) THEN s[i] ELSE IF i <= Len(s) + Len(r) THEN r[i - Len(s)]
                ELSE s[i - Len(r)]) = (s \o r)[i]
    <3>1. i <= Len(s) + Len(r)
      BY <1>1
    <3> QED
      BY <1>3, <3>1
  <2> QED
    BY <2>1 DEF Insert
<1>6. r \o s = [i \in 1 .. Len(r) + Len(s) |-> (r \o s)[i]]
  <2>1. r \o s \in [1 .. Len(r) + Len(s) -> Nodes]
    BY <1>3, LenProperties
  <2> QED
    BY <2>1
<1>7. s \o r = [i \in 1 .. Len(s) + Len(r) |-> (s \o r)[i]]
  <2>1. s \o r \in [1 .. Len(s) + Len(r) -> Nodes]
    BY <1>3, LenProperties
  <2> QED
    BY <2>1
<1> QED
  BY <1>4, <1>5, <1>6, <1>7

\* A node in no list enters one at its front or at its end.
LEMMA OrderAdded ==
    ASSUME NEW m, NEW o, NEW f, Ordered(m, o, f), NEW n \in Nodes, o[n] = NULL,
           NEW h \in Heads, o[h] = h
    PROVE  /\ Ordered(added(m, n, h), [o EXCEPT ![n] = h], [f EXCEPT ![h] = <<n>> \o f[h]])
           /\ Ordered(added_tail(m, n, h), [o EXCEPT ![n] = h], [f EXCEPT ![h] = Append(f[h], n)])
<1> DEFINE p == [o EXCEPT ![n] = h]
           s == f[h]
<1>1. /\ Sound(m, o) /\ Sound(added(m, n, h), p) /\ Sound(added_tail(m, n, h), p)
      /\ h \in Uses(o) /\ Chain(m, o, h, s) /\ f = [g \in Uses(o) |-> f[g]]
  BY Added DEF Ordered, Uses
<1>2. /\ o \in Owners /\ n \in Cells /\ n \notin Heads /\ NULL \notin Heads /\ m.next \in Pointers
      /\ h \in Cells /\ Heads \subseteq Cells /\ Nodes \subseteq Cells
  BY <1>1, CellsAssumption DEF Sound, Cells, Mem
<1>3. p[n] = h /\ \A x \in Cells \ {n} : p[x] = o[x]
  BY <1>2 DEF Owners
<1>4. Uses(p) = Uses(o)
  BY <1>2, <1>3 DEF Uses
<1>5. \A x \in Nodes : p[x] # NULL => p[x] \in Uses(p)
  BY <1>1, <1>2, <1>3, <1>4 DEF Ordered
<1>6. /\ 0 \in 0 .. Len(s) /\ Cell(h, s, 0) = h
      /\ Len(s) \in 0 .. Len(s) /\ Cell(h, s, Len(s)) = m.prev[h]
      /\ m.prev[h] \in Cells /\ o[m.prev[h]] = h /\ m.next[m.prev[h]] = h
  BY SMTT(30), <1>1, <1>2, ChainEnds DEF Sound, Joined
<1>7. s \in Seq(Nodes) /\ <<n>> \in Seq(Nodes)
  BY <1>1 DEF Chain
<1>8. Insert(s, 0, <<n>>) = <<n>> \o s /\ Insert(s, Len(s), <<n>>) = Append(s, n)
  <2>1. Insert(s, 0, <<n>>) = <<n>> \o s /\ Insert(s, Len(s), <<n>>) = s \o <<n>>
    BY <1>7, InsertEnds
  <2>2. Append(s, n) = s \o <<n>>
    BY <1>7, AppendIsConcat
  <2> QED
    BY <2>1, <2>2
<1>9. ASSUME NEW b \in Cells, o[b] = h, NEW w, w = link(m, n, b, m.next[b]), Sound(w, p),
             NEW t, Chain(w, p, h, t)
      PROVE  Ordered(w, p, [f EXCEPT ![h] = t])
  <2> DEFINE q == [f EXCEPT ![h] = t]
  <2>1. q = [g \in Uses(p) |-> q[g]] /\ q[h] = t /\ \A g \in Uses(o) \ {h} : q[g] = f[g]
    BY <1>1, <1>4
  <2>2. w.next = [m.next EXCEPT ![n] = m.next[b], ![b] = n]
    BY <1>9 DEF link
  <2>3. ASSUME NEW g \in Uses(o), g # h PROVE Chain(w, p, g, f[g])
    <3>1. g \in Heads /\ o[g] = g /\ Chain(m, o, g, f[g])
      BY DEF Ordered, Uses
    <3>2. \A c \in Cells : o[c] = g => w.next[c] = m.next[c]
      BY <1>2, <1>9, <2>2, <2>3, <3>1 DEF Pointers
    <3>3. \A x \in Nodes : p[x] = g <=> o[x] = g
      BY <1>2, <1>3, <2>3, <3>1
    <3> HIDE DEF p
    <3> QED
      BY <1>1, <3>1, <3>2, <3>3, Elsewhere
  <2> HIDE DEF q, p
  <2>4. \A g \in Uses(p) : Chain(w, p, g, q[g])
    BY <1>4, <1>9, <2>1, <2>3
  <2>5. Ordered(w, p, q)
    BY <1>5, <1>9, <2>1, <2>4 DEF Ordered
  <2> QED
    BY <2>5 DEF q
<1>10. ASSUME NEW k \in 0 .. Len(s), NEW b, b = Cell(h, s, k), NEW w, w = link(m, n, b, m.next[b])
       PROVE  Chain(w, p, h, Insert(s, k, <<n>>))
  <2> HIDE DEF s
  <2> QED
    BY <1>1, <1>10, LinkChain
<1>11. Ordered(added(m, n, h), p, [f EXCEPT ![h] = <<n>> \o s])
  <2>1. added(m, n, h) = link(m, n, h, m.next[h])
    BY DEF added
  <2>2. Chain(added(m, n, h), p, h, <<n>> \o s)
    BY <1>6, <1>8, <1>10, <2>1
  <2> HIDE DEF p, s
  <2> QED
    BY <1>1, <1>2, <1>9, <2>1, <2>2
<1>12. Ordered(added_tail(m, n, h), p, [f EXCEPT ![h] = Append(s, n)])
  <2>1. added_tail(m, n, h) = link(m, n, m.prev[h], m.next[m.prev[h]])
    BY <1>6 DEF added_tail
  <2>2. Chain(added_tail(m, n, h), p, h, Append(s, n))
    BY <1>6, <1>8, <1>10, <2>1
  <2> HIDE DEF p, s
  <2> QED
    BY <1>1, <1>6, <1>9, <2>1, <2>2
<1> QED
  BY <1>11, <1>12

\* The heads and the sequences once list went into head's list at one of its ends.
Absorbed(f, o, list, head, joined) ==
    [g \in Uses(o) \ {list} |-> IF g = head THEN joined ELSE f[g]]

\* A list that is not empty goes into another one at its front or at its end.
LEMMA OrderSpliced ==
    ASSUME NEW m, NEW o, NEW f, Ordered(m, o, f), NEW list \in Heads, NEW head \in Heads,
           list # head, o[list] = list, o[head] = head, m.next[list] # list
    PROVE  /\ f[list] # <<>>
           /\ Ordered(splice(m, list, head, m.next[head]), Merged(o, list, head),
                      Absorbed(f, o, list, head, f[list] \o f[head]))
           /\ Ordered(splice(m, list, m.prev[head], head), Merged(o, list, head),
                      Absorbed(f, o, list, head, f[head] \o f[list]))
<1> DEFINE p == Merged(o, list, head)
           s == f[head]
           r == f[list]
<1>1. Sound(m, o) /\ Chain(m, o, head, s) /\ Chain(m, o, list, r) /\ s \in Seq(Nodes) /\ r \in Seq(Nodes)
  BY DEF Ordered, Uses, Chain
<1>2. /\ o \in Owners /\ NULL \notin Heads /\ m.next \in Pointers
      /\ head \in Cells /\ list \in Cells /\ Heads \subseteq Cells /\ Nodes \subseteq Cells
      /\ \A n \in Nodes : n \notin Heads
  BY <1>1, CellsAssumption DEF Sound, Cells, Mem
<1>3. Len(r) # 0
  BY <1>1, ChainEnds
<1>4. p[list] = NULL /\ \A x \in Cells \ {list} : p[x] = IF o[x] = list THEN head ELSE o[x]
  BY <1>2 DEF Merged
<1>5. Uses(p) = Uses(o) \ {list}
  <2>1. \A g \in Heads \ {list} : o[g] # list
    BY <1>1, <1>2 DEF Sound
  <2>2. \A g \in Heads \ {list} : p[g] = o[g]
    BY <1>2, <1>4, <2>1
  <2> QED
    BY <1>2, <1>4, <2>2 DEF Uses
<1>6. ASSUME NEW n \in Nodes, p[n] # NULL PROVE p[n] \in Uses(p)
  <2>1. n \in Cells \ {list} /\ (o[n] # NULL => o[n] \in Uses(o)) /\ head \in Uses(p)
    BY <1>2, <1>5 DEF Ordered, Uses
  <2> QED
    BY <1>4, <1>5, <1>6, <2>1
<1>7. /\ 0 \in 0 .. Len(s) /\ Cell(head, s, 0) = head
      /\ Len(s) \in 0 .. Len(s) /\ Cell(head, s, Len(s)) = m.prev[head]
      /\ m.prev[head] \in Cells /\ o[m.prev[head]] = head /\ m.next[m.prev[head]] = head
  BY <1>1, <1>2, ChainEnds DEF Sound, Joined
<1>8. Insert(s, 0, r) = r \o s /\ Insert(s, Len(s), r) = s \o r
  BY <1>1, InsertEnds
<1>9. ASSUME NEW k \in 0 .. Len(s), NEW b \in Cells, b = Cell(head, s, k), o[b] = head,
             NEW w, w = splice(m, list, b, m.next[b])
      PROVE  Ordered(w, p, Absorbed(f, o, list, head, Insert(s, k, r)))
  <2> DEFINE t == Insert(s, k, r)
             q == Absorbed(f, o, list, head, t)
  <2>1. q = [g \in Uses(p) |-> q[g]] /\ q[head] = t /\ \A g \in Uses(p) \ {head} : q[g] = f[g]
    <3>1. head \in Uses(o) \ {list}
      BY DEF Uses
    <3> HIDE DEF t
    <3> QED
      BY <1>5, <3>1 DEF Absorbed
  <2>2. Chain(w, p, head, t)
    <3> HIDE DEF s, r
    <3> QED
      BY <1>1, <1>3, <1>9, SpliceChain
  <2>3. Sound(w, p)
    BY <1>1, <1>9, Spliced
  <2>4. w.next = [m.next EXCEPT ![b] = m.next[list], ![m.prev[list]] = m.next[b]]
    BY <1>9 DEF splice
  <2>5. m.prev[list] \in Cells /\ o[m.prev[list]] = list
    BY <1>1, <1>2 DEF Sound, Joined
  <2>6. ASSUME NEW g \in Uses(p), g # head PROVE Chain(w, p, g, f[g])
    <3>1. g \in Heads /\ o[g] = g /\ Chain(m, o, g, f[g]) /\ g # list
      BY <1>5 DEF Ordered, Uses
    <3>2. \A c \in Cells : o[c] = g => w.next[c] = m.next[c]
      BY <1>2, <1>9, <2>4, <2>5, <2>6, <3>1 DEF Pointers
    <3>3. \A x \in Nodes : p[x] = g <=> o[x] = g
      BY <1>2, <1>4, <2>6, <3>1
    <3> HIDE DEF p
    <3> QED
      BY <1>1, <3>1, <3>2, <3>3, Elsewhere
  <2> HIDE DEF q, p, t
  <2>7. \A g \in Uses(p) : Chain(w, p, g, q[g])
    BY <2>1, <2>2, <2>6
  <2>8. Ordered(w, p, q)
    BY <1>6, <2>1, <2>3, <2>7 DEF Ordered
  <2> QED
    BY <2>8 DEF q, t
<1>10. Ordered(splice(m, list, head, m.next[head]), p, Absorbed(f, o, list, head, r \o s))
  <2> HIDE DEF p, s, r
  <2> QED
    BY <1>2, <1>7, <1>8, <1>9
<1>11. Ordered(splice(m, list, m.prev[head], head), p, Absorbed(f, o, list, head, s \o r))
  <2> HIDE DEF p, s, r
  <2> QED
    BY <1>7, <1>8, <1>9
<1>12. r # <<>>
  BY <1>3
<1> QED
  BY <1>10, <1>11, <1>12

\* The sequences once node is in old's place.
Renaming(f, o, old, node) == [h \in Uses(o) |-> Abstract!Renamed(f[h], old, node)]

\* A node in no list takes the place of a loose one, in the list that one is in, if any.
LEMMA OrderReplaced ==
    ASSUME NEW m, NEW o, NEW f, Ordered(m, o, f), NEW old \in Nodes, NEW node \in Nodes, old # node,
           o[node] = NULL, Loose(m, o, old)
    PROVE  Ordered(replaced(m, old, node), Taken(o, old, node),
                   Renaming(f, o, old, node))
<1> DEFINE w == replaced(m, old, node)
           p == Taken(o, old, node)
           g == Renaming(f, o, old, node)
<1>1. /\ o \in Owners /\ NULL \notin Heads /\ m.next \in Pointers /\ m.prev \in Pointers
      /\ old \in Cells /\ node \in Cells /\ Heads \subseteq Cells /\ Nodes \subseteq Cells
      /\ \A n \in Nodes : n \notin Heads
  BY CellsAssumption DEF Ordered, Sound, Cells, Mem
<1>2. Sound(m, o) /\ Sound(w, p)
  BY <1>1, Replaced DEF Ordered
<1>3. /\ p[old] = NULL /\ p[node] = o[old]
      /\ \A x \in Cells \ {old, node} : p[x] = o[x]
  BY <1>1 DEF Taken
<1>4. Uses(p) = Uses(o)
  BY <1>1, <1>3 DEF Uses
<1>5. \A n \in Nodes : p[n] # NULL => p[n] \in Uses(p)
  BY <1>1, <1>3, <1>4 DEF Ordered
<1>6. w.next = [m.next EXCEPT ![node] = m.next[old],
                              ![[m.prev EXCEPT ![m.next[old]] = node][old]] = node]
  BY DEF replaced
<1>7. ASSUME NEW h \in Uses(o) PROVE Chain(w, p, h, g[h])
  <2>1. /\ h \in Heads /\ o[h] = h /\ Chain(m, o, h, f[h])
        /\ g[h] = [i \in DOMAIN f[h] |-> IF f[h][i] = old THEN node ELSE f[h][i]]
    BY DEF Ordered, Uses, Abstract!Renamed, Renaming
  <2>2. f[h] = [i \in 1 .. Len(f[h]) |-> f[h][i]] /\ DOMAIN f[h] = 1 .. Len(f[h])
    <3>1. f[h] \in [1 .. Len(f[h]) -> Nodes]
      BY <1>2, <2>1, ChainFacts
    <3> QED
      BY <3>1
  <2>3. CASE o[old] = h
    <3>1. PICK k \in 1 .. Len(f[h]) : old = f[h][k]
      BY <2>1, <2>3 DEF Chain
    <3>2. \A i \in 1 .. Len(f[h]) : f[h][i] = old <=> i = k
      BY <2>1, <3>1 DEF Chain
    <3>3. g[h] = [i \in 1 .. Len(f[h]) |-> IF i = k THEN node ELSE f[h][i]]
      BY <2>1, <2>2, <3>2
    <3> QED
      BY <1>2, <2>1, <3>1, <3>3, ReplaceChain
  <2>4. CASE o[old] # h
    <3>1. \A i \in 1 .. Len(f[h]) : f[h][i] # old
      BY <2>1, <2>4 DEF Chain
    <3>2. g[h] = f[h]
      BY <2>1, <2>2, <3>1
    <3>3. ASSUME NEW c \in Cells, o[c] = h PROVE w.next[c] = m.next[c]
      <4> DEFINE back == [m.prev EXCEPT ![m.next[old]] = node][old]
      <4>1. back = IF m.next[old] = old THEN node ELSE m.prev[old]
        BY <1>1 DEF Pointers
      <4>2. c # node /\ c # back
        BY <1>1, <1>2, <2>1, <2>4, <3>3, <4>1 DEF Loose, Sound, Joined
      <4> HIDE DEF back
      <4> QED
        BY <1>1, <1>6, <4>2 DEF Pointers, back
    <3>4. \A n \in Nodes : p[n] = h <=> o[n] = h
      BY <1>1, <1>3, <2>1, <2>4
    <3> HIDE DEF w, p, g
    <3>5. Chain(w, p, h, f[h])
      BY <1>2, <2>1, <3>3, <3>4, Elsewhere
    <3> QED
      BY <3>2, <3>5
  <2> QED
    BY <2>3, <2>4
<1>8. g = [h \in Uses(p) |-> g[h]]
  BY <1>4 DEF Renaming
<1> HIDE DEF w, p, g
<1>9. Ordered(w, p, g)
  BY <1>2, <1>4, <1>5, <1>7, <1>8 DEF Ordered
<1> QED
  BY <1>9 DEF w, p, g

\* The heads and the sequences once head has old's list.
Given(f, o, old, head) == [g \in (Uses(o) \ {old}) \cup {head} |-> IF g = head THEN f[old] ELSE f[g]]

\* A head out of use takes over a list.
LEMMA OrderReheaded ==
    ASSUME NEW m, NEW o, NEW f, Ordered(m, o, f), NEW old \in Heads, NEW head \in Heads, o[old] = old,
           o[head] = NULL
    PROVE  Ordered(replaced(m, old, head), Taken(o, old, head),
                   Given(f, o, old, head))
<1> DEFINE w == replaced(m, old, head)
           p == Taken(o, old, head)
           q == Given(f, o, old, head)
<1>1. /\ o \in Owners /\ NULL \notin Heads /\ m.next \in Pointers /\ m.prev \in Pointers /\ old # head
      /\ old \in Cells /\ head \in Cells /\ Heads \subseteq Cells /\ Nodes \subseteq Cells
      /\ \A n \in Nodes : n \notin Heads
  BY CellsAssumption DEF Ordered, Sound, Cells, Mem
<1>2. Sound(m, o) /\ Sound(w, p)
  <2>1. Sound(m, o) /\ Loose(m, o, old)
    BY <1>1 DEF Ordered, Loose
  <2> QED
    BY <1>1, <2>1, Replaced
<1>3. /\ p[old] = NULL /\ p[head] = head
      /\ \A x \in Cells \ {old, head} : p[x] = IF o[x] = old THEN head ELSE o[x]
  BY <1>1 DEF Taken
<1>4. Uses(p) = (Uses(o) \ {old}) \cup {head}
  <2>1. \A g \in Heads \ {old} : o[g] # old
    BY <1>1, <1>2 DEF Sound
  <2>2. \A g \in Heads \ {old, head} : p[g] = o[g]
    BY <1>1, <1>3, <2>1
  <2> QED
    BY <1>1, <1>3, <2>2 DEF Uses
<1>5. \A n \in Nodes : o[n] # head
  BY <1>1 DEF Ordered, Uses
<1>6. ASSUME NEW n \in Nodes, p[n] # NULL PROVE p[n] \in Uses(p)
  <2>1. n \in Cells \ {old, head} /\ (o[n] # NULL => o[n] \in Uses(o))
    BY <1>1 DEF Ordered
  <2> QED
    BY <1>3, <1>4, <1>6, <2>1
<1>7. w.next = [m.next EXCEPT ![head] = m.next[old],
                              ![[m.prev EXCEPT ![m.next[old]] = head][old]] = head]
  BY DEF replaced
<1>8. ASSUME NEW g \in Uses(p) PROVE Chain(w, p, g, q[g])
  <2>1. CASE g = head
    <3>1. Chain(m, o, old, f[old]) /\ q[g] = f[old]
      BY <1>4, <2>1 DEF Ordered, Uses, Given
    <3> QED
      BY <1>2, <1>5, <2>1, <3>1, ReheadChain
  <2>2. CASE g # head
    <3>1. g \in Heads /\ o[g] = g /\ Chain(m, o, g, f[g]) /\ q[g] = f[g] /\ g # old
      BY <1>4, <2>2 DEF Ordered, Uses, Given
    <3>2. ASSUME NEW c \in Cells, o[c] = g PROVE w.next[c] = m.next[c]
      <4> DEFINE back == [m.prev EXCEPT ![m.next[old]] = head][old]
      <4>1. back = IF m.next[old] = old THEN head ELSE m.prev[old]
        BY <1>1 DEF Pointers
      <4>2. c # head /\ c # back
        BY <1>1, <1>2, <3>1, <3>2, <4>1 DEF Sound, Joined
      <4> HIDE DEF back
      <4> QED
        BY <1>1, <1>7, <4>2 DEF Pointers, back
    <3>3. \A n \in Nodes : p[n] = g <=> o[n] = g
      BY <1>1, <1>3, <2>2, <3>1
    <3> HIDE DEF w, p, q
    <3> QED
      BY <1>2, <3>1, <3>2, <3>3, Elsewhere
  <2> QED
    BY <2>1, <2>2
<1>9. q = [g \in Uses(p) |-> q[g]]
  BY <1>4 DEF Given
<1> HIDE DEF w, p, q
<1>10. Ordered(w, p, q)
  BY <1>2, <1>6, <1>8, <1>9 DEF Ordered
<1> QED
  BY <1>10 DEF w, p, q

-----------------------------------------------------------------------------
(* A reader of next finds the sequence *)

\* A non-empty set of naturals has a least element.
LEMMA LeastIndex ==
    ASSUME NEW S, S \subseteq Nat, S # {}
    PROVE  \E x \in S : \A y \in S : x <= y
<1>1. \E x \in S : \A y \in S : ~ (<<y, x>> \in OpToRel(<, Nat))
  BY NatLessThanWellFounded, WFMin, Zenon
<1>2. PICK x \in S : \A y \in S : ~ (<<y, x>> \in OpToRel(<, Nat))
  BY <1>1
<1>3. \A y \in S : x <= y
  <2> SUFFICES ASSUME NEW y \in S PROVE x <= y
    OBVIOUS
  <2>1. ~(y < x)
    BY <1>2 DEF OpToRel
  <2> QED
    BY <2>1
<1> QED
  BY <1>3

\* What was found after k nodes.
WalkTurn(head, so_far) ==
    LET last == IF so_far = <<>> THEN head ELSE so_far[Len(so_far)] IN
    IF next[last] \in {head, NULL} THEN so_far ELSE Append(so_far, next[last])
WalkStage(head, f, k) == IF k = 0 THEN <<>> ELSE WalkTurn(head, f[k - 1])

\* A function with the stages of the walk exists for every number of them.
LEMMA WalkExists ==
    ASSUME NEW head, NEW n \in Nat
    PROVE  \E f : f = [k \in 0 .. n |-> WalkStage(head, f, k)]
<1> DEFINE Some(i) == \E f : f = [k \in 0 .. i |-> WalkStage(head, f, k)]
           bad == {i \in Nat : ~Some(i)}
<1>1. ASSUME bad # {} PROVE FALSE
  <2>1. bad \subseteq Nat
    OBVIOUS
  <2>2. PICK i \in bad : \A y \in bad : i <= y
    <3> HIDE DEF bad
    <3> QED
      BY <1>1, <2>1, LeastIndex
  <2>3. i \in Nat /\ ~Some(i)
    BY <2>2
  <2>4. CASE i = 0
    <3> DEFINE f == [k \in 0 .. 0 |-> <<>>]
    <3>1. f = [k \in 0 .. 0 |-> WalkStage(head, f, k)]
      <4>1. \A k \in 0 .. 0 : WalkStage(head, f, k) = <<>>
        BY DEF WalkStage
      <4> QED
        BY <4>1
    <3> QED
      BY <2>3, <2>4, <3>1
  <2>5. CASE i # 0
    <3>1. i - 1 \in Nat /\ i - 1 \notin bad
      BY <2>1, <2>2, <2>3, <2>5
    <3>2. PICK f : f = [k \in 0 .. i - 1 |-> WalkStage(head, f, k)]
      BY <3>1
    <3> DEFINE g == [k \in 0 .. i |-> IF k = i THEN WalkStage(head, f, i) ELSE f[k]]
    <3>3. ASSUME NEW k \in 0 .. i PROVE g[k] = WalkStage(head, g, k)
      <4>1. CASE k = 0
        <5>1. g[0] = f[0] /\ 0 \in 0 .. i - 1
          BY <2>3, <2>5
        <5>2. f[0] = WalkStage(head, f, 0)
          BY <3>2, <5>1
        <5> QED
          BY <4>1, <5>1, <5>2 DEF WalkStage
      <4>2. CASE k # 0
        <5>1. k - 1 \in 0 .. i - 1 /\ k - 1 \in 0 .. i /\ k - 1 # i
          BY <2>3, <3>3, <4>2
        <5>2. g[k - 1] = f[k - 1]
          BY <5>1
        <5> HIDE DEF g
        <5>3. WalkStage(head, g, k) = WalkStage(head, f, k)
          BY <4>2, <5>2 DEF WalkStage
        <5>4. g[k] = IF k = i THEN WalkStage(head, f, i) ELSE f[k]
          BY <3>3 DEF g
        <5>5. k # i => k \in 0 .. i - 1
          BY <2>3, <3>3
        <5>6. k # i => f[k] = WalkStage(head, f, k)
          BY <3>2, <5>5
        <5> QED
          BY <5>3, <5>4, <5>6
      <4> QED
        BY <4>1, <4>2
    <3>4. g = [k \in 0 .. i |-> WalkStage(head, g, k)]
      <4>1. g = [k \in 0 .. i |-> g[k]]
        OBVIOUS
      <4> HIDE DEF g
      <4> QED
        BY <3>3, <4>1
    <3> HIDE DEF g
    <3> QED
      BY <2>3, <3>4
  <2> QED
    BY <2>4, <2>5
<1> QED
  BY <1>1

\* The first k nodes of a sequence.
Prefix(s, k) == [i \in 1 .. k |-> s[i]]

\* One more node is one more at the end.
LEMMA PrefixFacts ==
    ASSUME NEW s \in Seq(Nodes), NEW k \in 0 .. Len(s)
    PROVE  /\ Prefix(s, k) \in Seq(Nodes) /\ Len(Prefix(s, k)) = k
           /\ k # 0 => Prefix(s, k)[k] = s[k]
           /\ k < Len(s) => Append(Prefix(s, k), s[k + 1]) = Prefix(s, k + 1)
           /\ Prefix(s, Len(s)) = s
<1>1. Len(s) \in Nat /\ k \in Nat /\ k <= Len(s) /\ s \in [1 .. Len(s) -> Nodes]
  <2>1. Len(s) \in Nat /\ s \in [1 .. Len(s) -> Nodes]
    BY LenProperties
  <2> QED
    BY <2>1
<1>2. ASSUME NEW j \in Nat, j <= Len(s)
      PROVE  Prefix(s, j) \in Seq(Nodes) /\ Len(Prefix(s, j)) = j /\ \A i \in 1 .. j : Prefix(s, j)[i] = s[i]
  <2>1. \A i \in 1 .. j : s[i] \in Nodes
    BY <1>1, <1>2
  <2>2. Prefix(s, j) \in [1 .. j -> Nodes] /\ \A i \in 1 .. j : Prefix(s, j)[i] = s[i]
    BY <2>1 DEF Prefix
  <2> QED
    BY <1>2, <2>2, MakeSeq
<1>3. k # 0 => Prefix(s, k)[k] = s[k]
  BY <1>1 DEF Prefix
<1>4. ASSUME k < Len(s) PROVE Append(Prefix(s, k), s[k + 1]) = Prefix(s, k + 1)
  <2> DEFINE t == Prefix(s, k)
             u == Prefix(s, k + 1)
  <2>1. k + 1 \in Nat /\ k + 1 <= Len(s) /\ s[k + 1] \in Nodes
    BY <1>1, <1>4
  <2>2. t \in Seq(Nodes) /\ Len(t) = k /\ \A i \in 1 .. k : t[i] = s[i]
    BY <1>1, <1>2
  <2>3. u \in Seq(Nodes) /\ Len(u) = k + 1 /\ \A i \in 1 .. k + 1 : u[i] = s[i]
    BY <1>2, <2>1
  <2> HIDE DEF t, u
  <2>4. /\ Append(t, s[k + 1]) \in Seq(Nodes) /\ Len(Append(t, s[k + 1])) = k + 1
        /\ \A i \in 1 .. k : Append(t, s[k + 1])[i] = t[i]
        /\ Append(t, s[k + 1])[k + 1] = s[k + 1]
    <3> HIDE <1>4
    <3> QED
      BY <2>1, <2>2, AppendProperties
  <2>5. ASSUME NEW i \in 1 .. k + 1 PROVE Append(t, s[k + 1])[i] = u[i]
    <3>1. i \in 1 .. k \/ i = k + 1
      BY <1>1
    <3> QED
      BY <2>2, <2>3, <2>4, <3>1
  <2>6. Append(t, s[k + 1]) = u
    <3> DEFINE v == Append(t, s[k + 1])
    <3>1. v \in Seq(Nodes) /\ Len(v) = Len(u) /\ \A i \in 1 .. Len(v) : v[i] = u[i]
      BY <2>3, <2>4, <2>5
    <3> HIDE DEF v
    <3>2. v = u
      BY <2>3, <3>1, SeqEqual
    <3> QED
      BY <3>2 DEF v
  <2> QED
    BY <2>6 DEF t, u
<1>5. Prefix(s, Len(s)) = s
  BY <1>1 DEF Prefix
<1> QED
  BY <1>1, <1>2, <1>3, <1>4, <1>5

\* No list is longer than there are nodes.
LEMMA ChainShort ==
    ASSUME NEW m, NEW o, NEW h, NEW s, Chain(m, o, h, s)
    PROVE  Len(s) <= Cardinality(Nodes) /\ Cardinality(Nodes) \in Nat /\ Len(s) \in Nat
<1>1. Len(s) \in Nat /\ s \in [1 .. Len(s) -> Nodes]
  BY LenProperties DEF Chain
<1>2. s \in Injection(1 .. Len(s), Nodes)
  <2>1. DOMAIN s = 1 .. Len(s)
    BY <1>1
  <2> QED
    BY <1>1, <2>1 DEF Chain, Injection, IsInjective
<1>3. Cardinality(1 .. Len(s)) <= Cardinality(Nodes)
  BY <1>2, NodesAssumption, FS_Injection
<1>4. Cardinality(1 .. Len(s)) = Len(s)
  <2>1. 1 \in Int /\ Len(s) \in Int /\ (1 > Len(s) <=> Len(s) = 0) /\ Len(s) - 1 + 1 = Len(s)
    BY <1>1
  <2> QED
    BY <2>1, FS_Interval
<1> QED
  BY <1>1, <1>3, <1>4, NodesAssumption, FS_CardinalityType

\* The walk along next finds the chain.
LEMMA ElementsAre ==
    ASSUME NEW h \in Heads, NEW s, Sound(Memory, owner), owner[h] = h, Chain(Memory, owner, h, s)
    PROVE  Elements(h) = s
<1> DEFINE n == Cardinality(Nodes)
           walk == CHOOSE f : f = [k \in 0 .. n |-> WalkStage(h, f, k)]
<1>1. n \in Nat /\ Len(s) \in Nat /\ Len(s) <= n /\ s \in Seq(Nodes)
  <2>1. Len(s) <= Cardinality(Nodes) /\ Cardinality(Nodes) \in Nat /\ Len(s) \in Nat
    BY ChainShort
  <2>2. s \in Seq(Nodes)
    BY DEF Chain
  <2> QED
    BY <2>1, <2>2
<1>2. walk = [k \in 0 .. n |-> WalkStage(h, walk, k)]
  BY <1>1, WalkExists
<1>3. Elements(h) = walk[n]
  BY DEF Elements, WalkStage, WalkTurn
<1> HIDE DEF walk
<1>4. \A k \in 0 .. n : walk[k] = WalkStage(h, walk, k)
  BY <1>2
<1> HIDE DEF n
<1>5. ASSUME NEW k \in 0 .. Len(s)
      PROVE  WalkTurn(h, Prefix(s, k)) = Prefix(s, IF k < Len(s) THEN k + 1 ELSE k)
  <2> DEFINE p == Prefix(s, k)
  <2>1. /\ p \in Seq(Nodes) /\ Len(p) = k /\ (k # 0 => p[k] = s[k])
        /\ k < Len(s) => Append(p, s[k + 1]) = Prefix(s, k + 1)
    BY <1>1, PrefixFacts
  <2> HIDE DEF p
  <2>2. (IF p = <<>> THEN h ELSE p[Len(p)]) = Cell(h, s, k)
    <3>1. p = <<>> <=> k = 0
      BY <2>1
    <3> QED
      BY <2>1, <3>1 DEF Cell
  <2>3. next[Cell(h, s, k)] = Follower(h, s, k)
    BY DEF Chain, Memory
  <2>4. CASE k = Len(s)
    <3>1. Follower(h, s, k) = h /\ ~(k < Len(s))
      BY <1>1, <2>4 DEF Follower
    <3>2. WalkTurn(h, p) = p
      BY <2>2, <2>3, <3>1 DEF WalkTurn
    <3> QED
      BY <3>1, <3>2 DEF p
  <2>5. CASE k < Len(s)
    <3>1. k + 1 \in 1 .. Len(s) /\ k # Len(s)
      BY <1>1, <2>5
    <3>2. s[k + 1] \in Nodes /\ s[k + 1] \notin {h, NULL}
      BY <3>1, CellsAssumption, ChainFacts
    <3>3. Follower(h, s, k) = s[k + 1]
      BY <3>1 DEF Follower
    <3>4. WalkTurn(h, p) = Append(p, s[k + 1])
      BY <2>2, <2>3, <3>2, <3>3 DEF WalkTurn
    <3> QED
      BY <2>1, <2>5, <3>4 DEF p
  <2> QED
    BY <1>1, <2>4, <2>5
<1> DEFINE Found(k) == walk[k] = Prefix(s, IF k <= Len(s) THEN k ELSE Len(s))
           bad == {k \in 0 .. n : ~Found(k)}
<1>6. ASSUME bad # {} PROVE FALSE
  <2>1. bad \subseteq Nat
    BY <1>1
  <2>2. PICK k \in bad : \A j \in bad : k <= j
    <3> HIDE DEF bad
    <3> QED
      BY <1>6, <2>1, LeastIndex
  <2>3. k \in 0 .. n /\ ~Found(k) /\ walk[k] = WalkStage(h, walk, k)
    BY <1>4, <2>2
  <2>4. CASE k = 0
    <3>1. Prefix(s, 0) = <<>>
      <4>1. Prefix(s, 0) \in Seq(Nodes) /\ Len(Prefix(s, 0)) = 0
        <5>1. 0 \in 0 .. Len(s)
          BY <1>1
        <5> QED
          BY <1>1, <5>1, PrefixFacts
      <4> QED
        BY <4>1
    <3>2. 0 <= Len(s)
      BY <1>1
    <3> QED
      BY <2>3, <2>4, <3>1, <3>2 DEF WalkStage
  <2>5. CASE k # 0
    <3>1. k - 1 \in 0 .. n /\ k - 1 \notin bad
      BY <1>1, <2>1, <2>2, <2>3, <2>5
    <3>2. Found(k - 1)
      BY <3>1
    <3>3. walk[k] = WalkTurn(h, walk[k - 1])
      BY <2>3, <2>5 DEF WalkStage
    <3> DEFINE j == IF k - 1 <= Len(s) THEN k - 1 ELSE Len(s)
    <3>4. /\ j \in 0 .. Len(s)
          /\ (IF j < Len(s) THEN j + 1 ELSE j) = (IF k <= Len(s) THEN k ELSE Len(s))
      BY <1>1, <2>3, <3>1
    <3>5. walk[k] = Prefix(s, IF j < Len(s) THEN j + 1 ELSE j)
      <4>1. walk[k - 1] = Prefix(s, j)
        BY <3>2
      <4> HIDE DEF j
      <4> QED
        BY <1>5, <3>3, <3>4, <4>1
    <3> HIDE DEF j
    <3> QED
      BY <2>3, <3>4, <3>5
  <2> QED
    BY <2>4, <2>5
<1>7. Found(n)
  <2>1. n \in 0 .. n
    BY <1>1
  <2> QED
    BY <1>6, <2>1
<1>8. (IF n <= Len(s) THEN n ELSE Len(s)) = Len(s)
  BY <1>1
<1>9. Prefix(s, Len(s)) = s
  <2>1. Len(s) \in 0 .. Len(s)
    BY <1>1
  <2> QED
    BY <1>1, <2>1, PrefixFacts
<1> QED
  BY <1>3, <1>7, <1>8, <1>9

\* The sequences the refinement speaks of.
Order == [h \in InUse |-> Elements(h)]

\* They are the chains there are.
LEMMA OrderIs == \A f : Ordered(Memory, owner, f) => f = Order
<1> SUFFICES ASSUME NEW f, Ordered(Memory, owner, f) PROVE f = Order
  OBVIOUS
<1>1. Uses(owner) = InUse /\ f = [h \in InUse |-> f[h]]
  BY DEF Ordered, Uses, InUse
<1>2. \A h \in InUse : f[h] = Elements(h)
  BY <1>1, ElementsAre DEF Ordered, InUse
<1> QED
  BY <1>1, <1>2 DEF Order


OInv == Ordered(Memory, owner, Order)

\* The same of the state after a step.
LEMMA OrderIsNext == (\A f : Ordered(Memory, owner, f) => f = Order)'
BY OrderIs, PTL

\* What the abstract lists are of a state whose lists are in order.
LEMMA InOrder ==
    ASSUME OInv
    PROVE  /\ IInv /\ Uses(owner) = InUse /\ DOMAIN Order = InUse /\ NULL \notin Heads
           /\ Order = [h \in InUse |-> Order[h]]
           /\ \A h \in InUse : h \in Heads /\ owner[h] = h /\ Chain(Memory, owner, h, Order[h])
           /\ \A h \in Heads \ InUse : owner[h] = NULL
           /\ \A n \in Nodes : owner[n] = NULL \/ owner[n] \in InUse
<1>1. Uses(owner) = InUse
  BY DEF Uses, InUse
<1>2. Sound(Memory, owner) /\ \A h \in Uses(owner) : Chain(Memory, owner, h, Order[h])
  BY DEF OInv, Ordered
<1>3. \A n \in Nodes : owner[n] = NULL \/ owner[n] \in Uses(owner)
  BY DEF OInv, Ordered
<1> QED
  BY <1>1, <1>2, <1>3, CellsAssumption DEF IInv, Sound, InUse, Order

\* The abstract sets of nodes and heads are the ones of the pointers.
LEMMA ListedIs == ASSUME OInv PROVE Abstract!Listed = Listed /\ Abstract!InUse = InUse
<1>1. Abstract!InUse = InUse
  BY DEF Abstract!InUse
<1>2. Abstract!Listed = UNION {{Order[h][i] : i \in DOMAIN Order[h]} : h \in InUse}
  BY <1>1 DEF Abstract!Listed, Order
<1>3. \A h \in InUse : DOMAIN Order[h] = 1 .. Len(Order[h])
                       /\ \A i \in 1 .. Len(Order[h]) : Order[h][i] \in Nodes
  <2> SUFFICES ASSUME NEW h \in InUse
               PROVE  DOMAIN Order[h] = 1 .. Len(Order[h])
                      /\ \A i \in 1 .. Len(Order[h]) : Order[h][i] \in Nodes
    OBVIOUS
  <2>1. Order[h] \in Seq(Nodes)
    BY InOrder DEF Chain
  <2> QED
    BY <2>1, LenProperties
<1>4. \A h \in InUse, n \in Nodes : owner[n] = h <=> \E i \in 1 .. Len(Order[h]) : Order[h][i] = n
  BY InOrder DEF Chain
<1>5. \A n \in Nodes : n \in Listed <=> owner[n] # NULL
  BY DEF Listed, Free
<1>6. Listed \subseteq Nodes
  BY DEF Listed
<1>7. \A h \in InUse : h # NULL
  BY InOrder
<1>8. \A n \in Nodes : owner[n] = NULL \/ owner[n] \in InUse
  BY InOrder
<1> QED
  BY <1>1, <1>2, <1>3, <1>4, <1>5, <1>6, <1>7, <1>8

\* The lists without the node e.
Taking(e) == [h \in InUse |-> Abstract!Removed(Order[h], e)]

\* Taking a node out of the lists comes to nothing when it is in none.
LEMMA TakingFacts ==
    ASSUME OInv, NEW e \in Nodes
    PROVE  Abstract!Without(e) = Taking(e) /\ (owner[e] = NULL => Taking(e) = Order)
<1>1. Abstract!Without(e) = Taking(e)
  BY ListedIs DEF Abstract!Without, Taking, Order
<1>2. ASSUME owner[e] = NULL PROVE Taking(e) = Order
  <2>1. \A h \in InUse : Abstract!Removed(Order[h], e) = Order[h]
    <3> SUFFICES ASSUME NEW h \in InUse PROVE Abstract!Removed(Order[h], e) = Order[h]
      OBVIOUS
    <3>1. Chain(Memory, owner, h, Order[h]) /\ owner[e] # h
      BY <1>2, InOrder
    <3> QED
      BY <3>1, RemovedFacts
  <2>2. Order = [h \in InUse |-> Order[h]]
    BY InOrder
  <2> QED
    BY <2>1, <2>2 DEF Taking
<1> QED
  BY <1>1, <1>2

\* The call stores memory m and leaves the owners o, of the lists g.
LEMMA StoredOrder ==
    ASSUME NEW m, NEW o, NEW g, Becomes(m), owner' = o, Ordered(m, o, g)
    PROVE  OInv' /\ Order' = g
<1>1. m = [next |-> m.next, prev |-> m.prev]
  BY DEF Ordered, Sound, Mem
<1>2. Memory' = m
  BY <1>1 DEF Becomes, Memory
<1>3. Ordered(Memory', owner', g)
  BY <1>2
<1>4. g = Order'
  BY <1>3, OrderIsNext
<1> QED
  BY <1>3, <1>4 DEF OInv

\* INIT_LIST_HEAD() of a head is a new list; of a node, which is in no list, nothing.
LEMMA InitOrder ==
    ASSUME OInv, NEW list \in Cells, INIT_LIST_HEAD(list)
    PROVE  OInv' /\ Abstract!INIT_LIST_HEAD(list)
<1>1. owner[list] = NULL /\ call' = <<"INIT_LIST_HEAD", list>>
  BY InOrder DEF INIT_LIST_HEAD, Free
<1>2. CASE list \in Heads
  <2>1. owner' = [owner EXCEPT ![list] = list] /\ Becomes(Reset(Memory, list))
    BY <1>2 DEF INIT_LIST_HEAD
  <2>2. Ordered(Reset(Memory, list), owner', Opened(Order, owner, list))
    BY <1>1, <1>2, <2>1, OrderSetUp DEF OInv
  <2>3. OInv' /\ Order' = Opened(Order, owner, list)
    BY <2>1, <2>2, StoredOrder
  <2>4. Order' = [h \in InUse \cup {list} |-> IF h = list THEN <<>> ELSE Order[h]]
    BY <2>3, InOrder DEF Opened
  <2>5. list \notin InUse
    BY <1>1, <1>2, InOrder
  <2>6. Abstract!New(list)
    BY <1>2, <2>4, <2>5, ListedIs DEF Abstract!New, Order
  <2> QED
    BY <1>1, <2>3, <2>6 DEF Abstract!INIT_LIST_HEAD
<1>3. CASE list \notin Heads
  <2>1. owner' = owner /\ Becomes(Reset(Memory, list))
    BY <1>3 DEF INIT_LIST_HEAD
  <2>2. Ordered(Reset(Memory, list), owner, Order)
    BY <1>1, OrderWritten DEF OInv
  <2>3. OInv' /\ Order' = Order
    BY <2>1, <2>2, StoredOrder
  <2>4. list \in Nodes \ Abstract!Listed
    BY <1>1, <1>3, ListedIs DEF Listed, Free, Cells
  <2> QED
    BY <1>1, <2>3, <2>4 DEF Abstract!INIT_LIST_HEAD, Order
<1> QED
  BY <1>2, <1>3

\* list_add() and list_add_tail() put a node that is in no list at an end of one.
LEMMA AddOrder ==
    ASSUME OInv, NEW n \in Nodes, NEW h \in InUse, list_add(n, h) \/ list_add_tail(n, h)
    PROVE  OInv' /\ (Abstract!list_add(n, h) \/ Abstract!list_add_tail(n, h))
<1>1. owner[n] = NULL /\ h \in Heads /\ owner[h] = h /\ owner' = [owner EXCEPT ![n] = h]
  BY DEF list_add, list_add_tail, Free, InUse, Enters
<1>2. /\ Ordered(added(Memory, n, h), owner', [Order EXCEPT ![h] = <<n>> \o Order[h]])
      /\ Ordered(added_tail(Memory, n, h), owner', [Order EXCEPT ![h] = Append(Order[h], n)])
  BY <1>1, OrderAdded DEF OInv
<1>3. Abstract!Without(n) = Order /\ Abstract!InUse = InUse /\ n \notin Abstract!Listed
  BY <1>1, TakingFacts, ListedIs DEF Listed, Free
<1>4. CASE list_add(n, h)
  <2>1. Becomes(added(Memory, n, h)) /\ call' = <<"list_add", n, h>>
    BY <1>4 DEF list_add
  <2>2. OInv' /\ Order' = [Order EXCEPT ![h] = <<n>> \o Order[h]]
    BY <1>2, <2>1, StoredOrder
  <2>3. Abstract!PutFirst(n, h)
    BY <1>3, <2>2 DEF Abstract!PutFirst, Order
  <2> QED
    BY <1>3, <2>1, <2>2, <2>3 DEF Abstract!list_add
<1>5. CASE list_add_tail(n, h)
  <2>1. Becomes(added_tail(Memory, n, h)) /\ call' = <<"list_add_tail", n, h>>
    BY <1>5 DEF list_add_tail
  <2>2. OInv' /\ Order' = [Order EXCEPT ![h] = Append(Order[h], n)]
    BY <1>2, <2>1, StoredOrder
  <2>3. Abstract!PutLast(n, h)
    BY <1>3, <2>2 DEF Abstract!PutLast, Order
  <2> QED
    BY <1>3, <2>1, <2>2, <2>3 DEF Abstract!list_add_tail
<1> QED
  BY <1>4, <1>5

\* What __list_del() leaves: the lists without the node.
LEMMA GoneOrder ==
    ASSUME OInv, NEW e \in Removable
    PROVE  /\ e \in Nodes /\ e \in Cells /\ e \notin Heads
           /\ Ordered(unlink(Memory, prev[e], next[e]), [owner EXCEPT ![e] = NULL], Taking(e))
<1>1. e \in Nodes /\ Loose(Memory, owner, e)
  BY MayGo, InOrder
<1>2. Ordered(unlink(Memory, Memory.prev[e], Memory.next[e]), [owner EXCEPT ![e] = NULL],
              [h \in Uses(owner) |-> Abstract!Removed(Order[h], e)])
  BY <1>1, OrderUnlinked DEF OInv
<1>3. Uses(owner) = InUse
  BY InOrder
<1> QED
  BY <1>1, <1>2, <1>3, CellsAssumption DEF Memory, Taking, Cells

\* list_del() and list_del_init() take a node out of the list it is in.
LEMMA DelOrder ==
    ASSUME OInv, NEW e, list_del(e) \/ list_del_init(e)
    PROVE  /\ OInv' /\ Order' = Taking(e) /\ e \in Nodes
           /\ Abstract!list_del(e) \/ Abstract!list_del_init(e)
<1> DEFINE u == unlink(Memory, prev[e], next[e])
<1>1. e \in Removable /\ owner' = [owner EXCEPT ![e] = NULL] /\ (Becomes(Poison(u, e)) \/ Becomes(Reset(u, e)))
  BY DEF list_del, list_del_init, Leaves
<1>2. e \in Nodes /\ e \in Cells /\ Ordered(u, owner', Taking(e))
  BY <1>1, GoneOrder
<1>3. owner'[e] = NULL
  BY <1>1, <1>2, InOrder DEF IInv, Sound, Owners
<1>4. Ordered(Poison(u, e), owner', Taking(e)) /\ Ordered(Reset(u, e), owner', Taking(e))
  <2> HIDE DEF u
  <2> QED
    BY <1>2, <1>3, OrderWritten
<1>5. OInv' /\ Order' = Taking(e)
  <2> HIDE DEF u
  <2> QED
    BY <1>1, <1>4, StoredOrder
<1>6. Abstract!Without(e) = Taking(e)
  BY <1>2, TakingFacts
<1>7. call' = <<"list_del", e>> \/ call' = <<"list_del_init", e>>
  BY DEF list_del, list_del_init
<1> QED
  BY <1>2, <1>5, <1>6, <1>7 DEF Abstract!list_del, Abstract!list_del_init, Order

\* list_move() and list_move_tail() take it to an end of a list, the same one or another.
LEMMA MoveOrder ==
    ASSUME OInv, NEW e, NEW h \in InUse, list_move(e, h) \/ list_move_tail(e, h)
    PROVE  /\ OInv' /\ e \in Nodes
           /\ Abstract!list_move(e, h) \/ Abstract!list_move_tail(e, h)
           /\ DOMAIN Order' = InUse /\ \A g \in InUse \ {h} : Order'[g] = Taking(e)[g]
<1> DEFINE u == unlink(Memory, prev[e], next[e])
           o == [owner EXCEPT ![e] = NULL]
           f == Taking(e)
<1>1. e \in Removable /\ h \in Heads /\ owner[h] = h /\ owner' = [owner EXCEPT ![e] = h]
  BY DEF list_move, list_move_tail, Enters, InUse
<1>2. e \in Nodes /\ e \in Cells /\ e \notin Heads /\ Ordered(u, o, f)
  BY <1>1, GoneOrder
<1>3. o[e] = NULL /\ o[h] = h /\ [o EXCEPT ![e] = h] = owner'
  BY <1>1, <1>2, InOrder DEF IInv, Sound, Owners, Cells
<1>4. /\ Ordered(added(u, e, h), owner', [f EXCEPT ![h] = <<e>> \o f[h]])
      /\ Ordered(added_tail(u, e, h), owner', [f EXCEPT ![h] = Append(f[h], e)])
  <2> DEFINE p == [o EXCEPT ![e] = h]
  <2>1. Ordered(added(u, e, h), p, [f EXCEPT ![h] = <<e>> \o f[h]])
    <3> HIDE DEF u, o, f
    <3> QED
      BY <1>1, <1>2, <1>3, OrderAdded
  <2>2. Ordered(added_tail(u, e, h), p, [f EXCEPT ![h] = Append(f[h], e)])
    <3> HIDE DEF u, o, f
    <3> QED
      BY <1>1, <1>2, <1>3, OrderAdded
  <2>3. p = owner'
    BY <1>3
  <2> HIDE DEF p, u, f
  <2> QED
    BY <2>1, <2>2, <2>3
<1>5. f = Abstract!Without(e) /\ Abstract!InUse = InUse /\ DOMAIN f = InUse
  BY <1>2, TakingFacts, ListedIs DEF Taking
<1>6. CASE list_move(e, h)
  <2>1. Becomes(added(u, e, h)) /\ call' = <<"list_move", e, h>>
    BY <1>6 DEF list_move, moved, Memory
  <2>2. OInv' /\ Order' = [f EXCEPT ![h] = <<e>> \o f[h]]
    <3> HIDE DEF u, f
    <3> QED
      BY <1>4, <2>1, StoredOrder
  <2> HIDE DEF f
  <2>3. Abstract!PutFirst(e, h)
    BY <1>5, <2>2 DEF Abstract!PutFirst, Order
  <2>4. Abstract!list_move(e, h)
    BY <2>1, <2>3 DEF Abstract!list_move
  <2> QED
    BY <1>2, <1>5, <2>2, <2>4 DEF f
<1>7. CASE list_move_tail(e, h)
  <2>1. Becomes(added_tail(u, e, h)) /\ call' = <<"list_move_tail", e, h>>
    BY <1>7 DEF list_move_tail, moved_tail, Memory
  <2>2. OInv' /\ Order' = [f EXCEPT ![h] = Append(f[h], e)]
    <3> HIDE DEF u, f
    <3> QED
      BY <1>4, <2>1, StoredOrder
  <2> HIDE DEF f
  <2>3. Abstract!PutLast(e, h)
    BY <1>5, <2>2 DEF Abstract!PutLast, Order
  <2>4. Abstract!list_move_tail(e, h)
    BY <2>1, <2>3 DEF Abstract!list_move_tail
  <2> QED
    BY <1>2, <1>5, <2>2, <2>4 DEF f
<1> QED
  BY <1>6, <1>7

\* The lists with one node renamed, as ListOrder says it.
LEMMA RenamingFacts ==
    ASSUME OInv, NEW old \in Nodes, NEW node \in Nodes
    PROVE  Renaming(Order, owner, old, node) = [h \in InUse |-> Abstract!Renamed(Order[h], old, node)]
BY InOrder DEF Renaming

\* list_replace() and list_replace_init() of a node: another one in its place.
LEMMA ReplaceOrder ==
    ASSUME OInv, NEW old \in Removable, NEW node \in Free \ {old},
           list_replace(old, node) \/ list_replace_init(old, node)
    PROVE  /\ OInv' /\ old \in Nodes /\ node \in Nodes
           /\ Abstract!list_replace(old, node) \/ Abstract!list_replace_init(old, node)
<1> DEFINE w == replaced(Memory, old, node)
           g == Renaming(Order, owner, old, node)
<1>1. /\ old \in Nodes /\ node \in Nodes /\ old # node /\ owner[node] = NULL /\ old \notin Heads
      /\ Loose(Memory, owner, old) /\ old \in Cells /\ node \in Cells
  BY MayGo, InOrder, CellsAssumption DEF Free, Cells
<1>2. owner' = Taken(owner, old, node)
  BY <1>1 DEF list_replace, list_replace_init, TakesOver, Taken
<1>3. Becomes(w) \/ Becomes(Reset(w, old))
  BY DEF list_replace, list_replace_init
<1>4. Ordered(w, owner', g)
  BY <1>1, <1>2, OrderReplaced DEF OInv
<1>5. owner'[old] = NULL
  BY <1>1, <1>2 DEF Taken
<1>6. OInv' /\ Order' = g
  <2> HIDE DEF w, g
  <2>1. Ordered(Reset(w, old), owner', g)
    BY <1>1, <1>4, <1>5, OrderWritten
  <2> QED
    BY <1>3, <1>4, <2>1, StoredOrder
<1>7. g = [h \in InUse |-> Abstract!Renamed(Order[h], old, node)]
  BY <1>1, RenamingFacts
<1>8. node \notin Abstract!Listed /\ Abstract!InUse = InUse
  BY <1>1, ListedIs DEF Listed, Free
<1> HIDE DEF g
<1>9. Abstract!Replace(old, node)
  BY <1>1, <1>6, <1>7, <1>8 DEF Abstract!Replace, Order
<1>10. call' = <<"list_replace", old, node>> \/ call' = <<"list_replace_init", old, node>>
  BY DEF list_replace, list_replace_init
<1> QED
  BY <1>1, <1>6, <1>9, <1>10 DEF Abstract!list_replace, Abstract!list_replace_init

\* Of a head: another one has its list; the old one is out of use, or has an empty one.
LEMMA ReheadOrder ==
    ASSUME OInv, NEW old \in InUse, NEW head \in Heads \ InUse,
           list_replace(old, head) \/ list_replace_init(old, head)
    PROVE  OInv' /\ (Abstract!list_replace(old, head) \/ Abstract!list_replace_init(old, head))
<1> DEFINE w == replaced(Memory, old, head)
           o == Taken(owner, old, head)
           g == Given(Order, owner, old, head)
<1>1. old \in Heads /\ head \in Heads /\ owner[old] = old /\ owner[head] = NULL /\ old # head
  BY InOrder
<1>2. Ordered(w, o, g)
  BY <1>1, OrderReheaded DEF OInv
<1>3. g = [h \in (InUse \ {old}) \cup {head} |-> IF h = head THEN Order[old] ELSE Order[h]]
  BY InOrder DEF Given
<1>4. o[old] = NULL
  BY <1>1 DEF Taken, Cells
<1>5. CASE list_replace(old, head)
  <2>1. owner' = o /\ Becomes(w) /\ call' = <<"list_replace", old, head>>
    BY <1>5 DEF list_replace, TakesOver, Taken
  <2>2. OInv' /\ Order' = g
    <3> HIDE DEF w, g, o
    <3> QED
      BY <1>2, <2>1, StoredOrder
  <2>3. Order' = [h \in (InUse \ {old}) \cup {head} \cup {} |->
                     CASE h = head -> Order[old] [] h = old -> <<>> [] OTHER -> Order[h]]
    <3> HIDE DEF g
    <3> QED
      BY <1>3, <2>2
  <2>4. Abstract!Rehead(old, head, {})
    BY <1>1, <2>3, ListedIs DEF Abstract!Rehead, Order
  <2> QED
    BY <2>1, <2>2, <2>4 DEF Abstract!list_replace
<1>6. CASE list_replace_init(old, head)
  <2>1. /\ owner' = [o EXCEPT ![old] = old] /\ Becomes(Reset(w, old))
        /\ call' = <<"list_replace_init", old, head>>
    BY <1>1, <1>6 DEF list_replace_init, TakesOver, Taken
  <2>2. Ordered(Reset(w, old), owner', Opened(g, o, old))
    <3> HIDE DEF w, g, o
    <3> QED
      BY <1>1, <1>2, <1>4, <2>1, OrderSetUp
  <2>3. OInv' /\ Order' = Opened(g, o, old)
    BY <2>1, <2>2, StoredOrder
  <2>4. Uses(o) = (InUse \ {old}) \cup {head}
    <3> HIDE DEF w, g, o
    <3>1. DOMAIN g = Uses(o)
      BY <1>2 DEF Ordered
    <3> QED
      BY <1>3, <3>1
  <2>5. Order' = [h \in (InUse \ {old}) \cup {head} \cup {old} |->
                     CASE h = head -> Order[old] [] h = old -> <<>> [] OTHER -> Order[h]]
    <3> HIDE DEF g, o
    <3> QED
      BY <1>1, <1>3, <2>3, <2>4 DEF Opened
  <2>6. Abstract!Rehead(old, head, {old})
    BY <1>1, <2>5, ListedIs DEF Abstract!Rehead, Order
  <2> QED
    BY <2>1, <2>3, <2>6 DEF Abstract!list_replace_init
<1> QED
  BY <1>5, <1>6

\* A list is empty when its head points to itself, and then its sequence is.
LEMMA EmptyOrder ==
    ASSUME OInv, NEW list \in InUse, next[list] = list
    PROVE  Order[list] = <<>>
<1> DEFINE s == Order[list]
<1>1. Sound(Memory, owner) /\ list \in Heads /\ owner[list] = list /\ Chain(Memory, owner, list, s)
  BY InOrder DEF IInv
<1>2. s \in Seq(Nodes) /\ Len(s) = 0
  <2>1. Memory.next[list] = list
    BY DEF Memory
  <2> HIDE DEF s
  <2> QED
    BY <1>1, <2>1, ChainEnds DEF Chain
<1> HIDE DEF s
<1>3. s = <<>>
  BY <1>2, EmptySeq
<1> QED
  BY <1>3 DEF s

\* Which of the splices ListOrder has made.
SpliceMade(list, head) ==
    \/ Abstract!list_splice(list, head) \/ Abstract!list_splice_tail(list, head)
    \/ Abstract!list_splice_init(list, head)

\* The splices of an empty list are the ones ListOrder has of it.
LEMMA EmptySpliceOrder ==
    ASSUME OInv, NEW list \in InUse, NEW head \in InUse, list # head, next[list] = list,
           UNCHANGED <<next, prev, owner>>,
           \/ list_splice(list, head) \/ list_splice_tail(list, head)
           \/ list_splice_init(list, head)
    PROVE  OInv' /\ SpliceMade(list, head)
<1>1. Memory' = Memory /\ owner' = owner /\ Order' = Order
  BY DEF Memory, Order, InUse, Elements
<1>2. Order[list] = <<>> /\ Abstract!InUse = InUse
  BY EmptyOrder, ListedIs
<1>3. \A joined, kept : Abstract!Splice(list, head, joined, kept)
  BY <1>1, <1>2 DEF Abstract!Splice, Order
<1>4. \/ call' = <<"list_splice", list, head>> \/ call' = <<"list_splice_tail", list, head>>
      \/ call' = <<"list_splice_init", list, head>>
  BY DEF list_splice, list_splice_tail, list_splice_init
<1>5. SpliceMade(list, head)
  BY <1>3, <1>4 DEF SpliceMade, Abstract!list_splice, Abstract!list_splice_tail, Abstract!list_splice_init
<1> QED
  BY <1>1, <1>5 DEF OInv

\* The splices of a list that is not empty put it before or after another's nodes.
LEMMA FullSpliceOrder ==
    ASSUME OInv, NEW list \in InUse, NEW head \in InUse, list # head, next[list] # list,
           \/ list_splice(list, head) /\ SpliceFirst(list, head)
           \/ list_splice_tail(list, head) /\ SpliceLast(list, head)
           \/ list_splice_init(list, head) /\ SpliceReset(list, head)
    PROVE  OInv' /\ SpliceMade(list, head)
<1> DEFINE before == splice(Memory, list, head, next[head])
           behind == splice(Memory, list, prev[head], head)
           o == Merged(owner, list, head)
           front == Order[list] \o Order[head]
           back == Order[head] \o Order[list]
           f == Absorbed(Order, owner, list, head, front)
           g == Absorbed(Order, owner, list, head, back)
<1>1. list \in Heads /\ head \in Heads /\ owner[list] = list /\ owner[head] = head
  BY DEF InUse
<1>2. Order[list] # <<>> /\ Ordered(before, o, f) /\ Ordered(behind, o, g)
  <2>1. Memory.next[list] # list
    BY DEF Memory
  <2>2. /\ Order[list] # <<>>
        /\ Ordered(splice(Memory, list, head, Memory.next[head]), o, f)
        /\ Ordered(splice(Memory, list, Memory.prev[head], head), o, g)
    BY <1>1, <2>1, OrderSpliced DEF OInv
  <2> QED
    BY <2>2 DEF Memory
<1>3. /\ f = [h \in InUse \ {list} |-> IF h = head THEN front ELSE Order[h]]
      /\ g = [h \in InUse \ {list} |-> IF h = head THEN back ELSE Order[h]]
  BY InOrder DEF Absorbed
<1>4. o[list] = NULL
  BY <1>1 DEF Merged, Cells
<1>5. list \in Abstract!InUse /\ head \in Abstract!InUse \ {list} /\ Abstract!InUse = InUse
  BY ListedIs
<1>6. CASE list_splice(list, head) /\ SpliceFirst(list, head)
  <2>1. owner' = o /\ Becomes(before) /\ call' = <<"list_splice", list, head>>
    BY <1>6 DEF list_splice, SpliceFirst, Joins, Merged
  <2>2. OInv' /\ Order' = f
    <3> HIDE DEF before, f, o
    <3> QED
      BY <1>2, <2>1, StoredOrder
  <2>3. Order' = [h \in (InUse \ {list}) \cup {} |->
                     CASE h = head -> front [] h = list -> <<>> [] OTHER -> Order[h]]
    <3> HIDE DEF f
    <3> QED
      BY <1>3, <2>2
  <2>4. Abstract!Splice(list, head, front, {})
    <3> HIDE DEF front
    <3> QED
      BY <1>2, <1>5, <2>3 DEF Abstract!Splice, Order
  <2> QED
    BY <2>1, <2>2, <2>4 DEF Abstract!list_splice, SpliceMade, Order
<1>7. CASE list_splice_tail(list, head) /\ SpliceLast(list, head)
  <2>1. owner' = o /\ Becomes(behind) /\ call' = <<"list_splice_tail", list, head>>
    BY <1>7 DEF list_splice_tail, SpliceLast, Joins, Merged
  <2>2. OInv' /\ Order' = g
    <3> HIDE DEF behind, g, o
    <3> QED
      BY <1>2, <2>1, StoredOrder
  <2>3. Order' = [h \in (InUse \ {list}) \cup {} |->
                     CASE h = head -> back [] h = list -> <<>> [] OTHER -> Order[h]]
    <3> HIDE DEF g
    <3> QED
      BY <1>3, <2>2
  <2>4. Abstract!Splice(list, head, back, {})
    <3> HIDE DEF back
    <3> QED
      BY <1>2, <1>5, <2>3 DEF Abstract!Splice, Order
  <2> QED
    BY <2>1, <2>2, <2>4 DEF Abstract!list_splice_tail, SpliceMade, Order
<1>8. CASE list_splice_init(list, head) /\ SpliceReset(list, head)
  <2>1. /\ owner' = [o EXCEPT ![list] = list] /\ Becomes(Reset(before, list))
        /\ call' = <<"list_splice_init", list, head>>
    BY <1>1, <1>8 DEF list_splice_init, SpliceReset, Joins, Merged
  <2>2. Ordered(Reset(before, list), owner', Opened(f, o, list))
    <3> HIDE DEF before, f, o
    <3> QED
      BY <1>1, <1>2, <1>4, <2>1, OrderSetUp
  <2>3. OInv' /\ Order' = Opened(f, o, list)
    <3> HIDE DEF before, f, o
    <3> QED
      BY <2>1, <2>2, StoredOrder
  <2>4. Uses(o) = InUse \ {list}
    <3> HIDE DEF f, o, before
    <3>1. DOMAIN f = Uses(o)
      BY <1>2 DEF Ordered
    <3> QED
      BY <1>3, <3>1
  <2>5. Order' = [h \in (InUse \ {list}) \cup {list} |->
                     CASE h = head -> front [] h = list -> <<>> [] OTHER -> Order[h]]
    <3> HIDE DEF f, o, front
    <3> QED
      BY <1>1, <1>3, <2>3, <2>4 DEF Opened
  <2>6. Abstract!Splice(list, head, front, {list})
    <3> HIDE DEF front
    <3> QED
      BY <1>2, <1>5, <2>5 DEF Abstract!Splice, Order
  <2> QED
    BY <2>1, <2>3, <2>6 DEF Abstract!list_splice_init, SpliceMade, Order
<1> QED
  BY <1>6, <1>7, <1>8

\* Every splice is the one ListOrder has under its name.
LEMMA SpliceOrder ==
    ASSUME OInv, NEW list \in Heads, NEW head \in InUse,
           \/ list_splice(list, head) \/ list_splice_tail(list, head)
           \/ list_splice_init(list, head)
    PROVE  OInv' /\ SpliceMade(list, head)
<1>1. list # head /\ list \in InUse
  BY SpliceStores
<1>2. CASE next[list] = list
  <2>1. UNCHANGED <<next, prev, owner>>
    BY <1>2, SpliceStores
  <2> QED
    BY <1>1, <1>2, <2>1, EmptySpliceOrder
<1>3. CASE next[list] # list
  <2>1. \/ list_splice(list, head) /\ SpliceFirst(list, head)
        \/ list_splice_tail(list, head) /\ SpliceLast(list, head)
        \/ list_splice_init(list, head) /\ SpliceReset(list, head)
    BY <1>3, SpliceStores
  <2> QED
    BY <1>1, <1>3, <2>1, FullSpliceOrder
<1> QED
  BY <1>2, <1>3

\* Before the first call there are no lists.
LEMMA InitOrdered == Init => OInv /\ Order = <<>>
<1> SUFFICES ASSUME Init PROVE OInv /\ Order = <<>>
  OBVIOUS
<1>1. NULL \notin Heads /\ \A x \in Cells : owner[x] = NULL
  BY CellsAssumption DEF Init, Cells
<1>2. Uses(owner) = {} /\ InUse = {}
  BY <1>1 DEF Uses, InUse, Cells
<1>3. Order = [h \in {} |-> Elements(h)]
  BY <1>2 DEF Order
<1>4. Order = <<>>
  BY <1>3
<1>5. Order = [h \in {} |-> Order[h]]
  BY <1>3
<1>6. \A n \in Nodes : owner[n] = NULL
  BY <1>1 DEF Cells
<1>7. Sound(Memory, owner)
  BY InitInv DEF IInv
<1> QED
  BY <1>2, <1>4, <1>5, <1>6, <1>7 DEF OInv, Ordered

\* What ListOrder sees of the state.
Seen == <<Order, call>>

\* Every call does to the sequences what its name says, and nothing else does anything.
LEMMA NextOrdered == ASSUME OInv, [Next]_vars PROVE OInv' /\ [Abstract!Next]_Seen
<1>1. CASE UNCHANGED <<next, prev, owner, call>>
  <2>1. Memory' = Memory /\ owner' = owner /\ Order' = Order
    BY <1>1 DEF Memory, Order, InUse, Elements
  <2> QED
    BY <1>1, <2>1 DEF OInv, Seen
<1>2. CASE Operation
  <2>1. ASSUME NEW list \in Cells, INIT_LIST_HEAD(list)
        PROVE  OInv' /\ Abstract!Next
    BY <2>1, InitOrder DEF Abstract!Next, Cells
  <2>2. ASSUME NEW entry \in Nodes, list_del(entry) \/ list_del_init(entry)
        PROVE  OInv' /\ Abstract!Next
    BY <2>2, DelOrder DEF Abstract!Next
  <2>3. ASSUME NEW node \in Nodes, NEW head \in InUse,
               \/ list_add(node, head) \/ list_add_tail(node, head)
               \/ list_move(node, head) \/ list_move_tail(node, head)
        PROVE  OInv' /\ Abstract!Next
    <3>1. head \in Heads
      BY DEF InUse
    <3> QED
      BY <2>3, <3>1, AddOrder, MoveOrder DEF Abstract!Next
  <2>4. ASSUME NEW old \in Cells, NEW node \in Cells,
               list_replace(old, node) \/ list_replace_init(old, node)
        PROVE  OInv' /\ Abstract!Next
    <3>1. Replaceable(old, node)
      BY <2>4 DEF list_replace, list_replace_init
    <3>2. CASE old \in Removable /\ node \in Free \ {old}
      BY <2>4, <3>2, ReplaceOrder DEF Abstract!Next, Cells
    <3>3. CASE old \in InUse /\ node \in Heads \ InUse
      BY <2>4, <3>3, ReheadOrder DEF Abstract!Next, Cells
    <3> QED
      BY <3>1, <3>2, <3>3 DEF Replaceable
  <2>5. ASSUME NEW list \in Heads, NEW head \in InUse,
               \/ list_splice(list, head) \/ list_splice_tail(list, head)
               \/ list_splice_init(list, head)
        PROVE  OInv' /\ Abstract!Next
    <3>1. head \in Heads
      BY DEF InUse
    <3>2. OInv' /\ SpliceMade(list, head)
      BY <2>5, SpliceOrder
    <3> QED
      BY <3>1, <3>2 DEF Abstract!Next, SpliceMade
  <2> QED
    BY <1>2, <2>1, <2>2, <2>3, <2>4, <2>5 DEF Operation
<1>3. CASE LoopTurn
  <2>1. CASE list_del(loop.pos) \/ list_del_init(loop.pos)
    BY <2>1, DelOrder DEF Abstract!Next
  <2>2. CASE \E head \in InUse : list_move(loop.pos, head) \/ list_move_tail(loop.pos, head)
    <3>1. PICK head \in InUse : list_move(loop.pos, head) \/ list_move_tail(loop.pos, head)
      BY <2>2
    <3>2. head \in Heads
      BY DEF InUse
    <3> QED
      BY <3>1, <3>2, MoveOrder DEF Abstract!Next
  <2> QED
    BY <1>1, <1>3, <2>1, <2>2 DEF LoopTurn
<1> QED
  BY <1>1, <1>2, <1>3 DEF Next, vars, LoopStart, LoopEnd

\* The pointers of list.c implement sequences: each call, known by its name and its
\* arguments, does to the lists it is given what its name says (an addition at its own
\* end, a splice before or after what was there, a deletion of the node it was given)
\* and to no other list anything.
THEOREM ListRefined == Spec => Implements
<1>1. Init => OInv /\ Abstract!Init
  BY InitOrdered DEF Init, Abstract!Init, Order
<1>2. OInv /\ [Next]_vars => OInv' /\ [Abstract!Next]_Seen
  BY NextOrdered
<1>3. OInv /\ [Next]_vars => OInv' /\ [Abstract!Next]_(Abstract!lvars)
  BY <1>2 DEF Seen, Order, Abstract!lvars
<1> QED
  BY <1>1, <1>3, PTL DEF Spec, Implements, Abstract!Spec

-----------------------------------------------------------------------------
(* list_for_each_safe() *)

\* What is left of s after its first k places.
Rest(s, k, left) ==
    /\ k \in 0 .. Len(s) /\ left \in Seq(Nodes) /\ Len(left) = Len(s) - k
    /\ \A i \in 1 .. Len(left) : left[i] = s[k + i]

\* A loop that has passed k places of its list stands on the next one.
Standing(l, m, s, k) ==
    /\ Rest(s, k, l.left)
    /\ l.pos = Follower(l.head, s, k)
    /\ l.tmp = m.next[l.pos]

LoopInv ==
    loop # NoLoop =>
        /\ loop \in [head : InUse, pos : Cells, tmp : Cells, left : Seq(Nodes)]
        /\ \E k \in Nat : Standing(loop, Memory, Order[loop.head], k)

FullInv == OInv /\ LoopInv

\* The cells before and after the place a loop stands on.
LEMMA StandingFacts ==
    ASSUME OInv, LoopInv, loop # NoLoop
    PROVE  /\ loop.head \in InUse /\ loop.head \in Heads /\ owner[loop.head] = loop.head
           /\ loop = [head |-> loop.head, pos |-> loop.pos, tmp |-> loop.tmp, left |-> loop.left]
           /\ Chain(Memory, owner, loop.head, Order[loop.head])
           /\ \E k \in Nat : Standing(loop, Memory, Order[loop.head], k)
<1>1. /\ loop \in [head : InUse, pos : Cells, tmp : Cells, left : Seq(Nodes)]
      /\ \E k \in Nat : Standing(loop, Memory, Order[loop.head], k)
  BY DEF LoopInv
<1>2. /\ loop.head \in InUse
      /\ loop = [head |-> loop.head, pos |-> loop.pos, tmp |-> loop.tmp, left |-> loop.left]
  BY <1>1
<1> QED
  BY <1>1, <1>2, InOrder

\* A loop begins in front of its list.
LEMMA StartStands ==
    ASSUME OInv, NEW head \in InUse, LoopStart(head)
    PROVE  LoopInv'
<1> DEFINE s == Order[head]
<1>1. /\ loop' = [head |-> head, pos |-> next[head], tmp |-> next[next[head]], left |-> Elements(head)]
      /\ Memory' = Memory /\ Order' = Order /\ InUse' = InUse
  BY DEF LoopStart, Memory, Order, Elements, InUse
<1>2. head \in Heads /\ owner[head] = head /\ Sound(Memory, owner) /\ Chain(Memory, owner, head, s)
  BY InOrder DEF IInv
<1>3. Elements(head) = s
  BY DEF Order
<1>4. /\ s \in Seq(Nodes) /\ Len(s) \in Nat /\ 0 \in 0 .. Len(s)
      /\ next[head] = Follower(head, s, 0) /\ Follower(head, s, 0) \in Cells
  <2>1. Len(s) \in Nat
    BY <1>2, ChainFacts
  <2>2. 0 \in 0 .. Len(s)
    BY <2>1
  <2>3. /\ Follower(head, s, 0) \in Cells
        /\ Memory.next[Cell(head, s, 0)] = Follower(head, s, 0)
    <3> HIDE DEF s
    <3> QED
      BY <1>2, <2>2, ChainFacts
  <2> QED
    BY <1>2, <2>1, <2>2, <2>3 DEF Chain, Cell, Memory
<1>5. next[next[head]] \in Cells
  <2>1. owner[head] # NULL /\ head \in Cells /\ NULL \notin Cells
    BY <1>2, CellsAssumption DEF Cells
  <2>2. next[head] \in Cells /\ owner[next[head]] # NULL
    BY <1>2, <2>1 DEF Sound, Joined, Memory
  <2> QED
    BY <1>2, <2>2 DEF Sound, Joined, Memory
<1>6. Rest(s, 0, s)
  <2> HIDE DEF s
  <2> QED
    BY <1>4 DEF Rest
<1> DEFINE l == [head |-> head, pos |-> next[head], tmp |-> next[next[head]], left |-> s]
<1>7. Standing(l, Memory, s, 0)
  <2> HIDE DEF s
  <2> QED
    BY <1>4, <1>6 DEF Standing, Memory
<1>8. l \in [head : InUse, pos : Cells, tmp : Cells, left : Seq(Nodes)]
  <2> HIDE DEF s
  <2> QED
    BY <1>4, <1>5
<1>9. loop' = l /\ l.head = head
  BY <1>1, <1>3
<1>10. \E k \in Nat : Standing(l, Memory, Order[l.head], k)
  <2> HIDE DEF l
  <2> QED
    BY <1>7, <1>9
<1> HIDE DEF l
<1> QED
  BY <1>1, <1>8, <1>9, <1>10 DEF LoopInv

\* Taking the node a loop stands on out of its list leaves the places before it, and
\* those behind it one further in front.
LEMMA RestAfter ==
    ASSUME NEW s \in Seq(Nodes), NEW k \in Nat, NEW left, Rest(s, k, left), left # <<>>, NEW h
    PROVE  /\ k + 1 \in 1 .. Len(s) /\ k + 1 \in 0 .. Len(s) /\ Follower(h, s, k) = s[k + 1]
           /\ Rest(s, k + 1, Tail(left))
           /\ Cut(s, k + 1) \in Seq(Nodes) => Rest(Cut(s, k + 1), k, Tail(left))
           /\ Cut(s, k + 1) \in Seq(Nodes) => Follower(h, Cut(s, k + 1), k) = Follower(h, s, k + 1)
<1>1. /\ Len(s) \in Nat /\ k <= Len(s) /\ left \in Seq(Nodes) /\ Len(left) = Len(s) - k
      /\ \A i \in 1 .. Len(left) : left[i] = s[k + i]
  BY LenProperties DEF Rest
<1>2. Len(left) \in Nat /\ Len(left) > 0
  <2>1. Len(left) \in Nat /\ (Len(left) = 0 => left = <<>>)
    BY <1>1, LenProperties, EmptySeq
  <2> QED
    BY <2>1
<1>3. k < Len(s) /\ k + 1 \in 1 .. Len(s) /\ k + 1 \in 0 .. Len(s) /\ k # Len(s)
  BY <1>1, <1>2
<1>4. /\ Tail(left) \in Seq(Nodes) /\ Len(Tail(left)) = Len(left) - 1
      /\ \A i \in 1 .. Len(left) - 1 : Tail(left)[i] = left[i + 1]
  BY <1>1, <1>2, HeadTailProperties
<1>5. \A i \in 1 .. Len(left) - 1 : Tail(left)[i] = s[k + 1 + i]
  <2> SUFFICES ASSUME NEW i \in 1 .. Len(left) - 1 PROVE Tail(left)[i] = s[k + 1 + i]
    OBVIOUS
  <2>1. i + 1 \in 1 .. Len(left) /\ k + (i + 1) = k + 1 + i
    BY <1>1, <1>2
  <2> QED
    BY <1>1, <1>4, <2>1
<1>6. Rest(s, k + 1, Tail(left))
  <2>1. Len(left) - 1 = Len(s) - (k + 1)
    BY <1>1, <1>2
  <2> QED
    BY <1>3, <1>4, <1>5, <2>1 DEF Rest
<1>7. ASSUME Cut(s, k + 1) \in Seq(Nodes)
      PROVE  Rest(Cut(s, k + 1), k, Tail(left)) /\ Follower(h, Cut(s, k + 1), k) = Follower(h, s, k + 1)
  <2> DEFINE t == Cut(s, k + 1)
  <2>1. t = [i \in 1 .. Len(s) - 1 |-> IF i < k + 1 THEN s[i] ELSE s[i + 1]]
    BY DEF Cut
  <2>2. DOMAIN t = 1 .. Len(s) - 1
    BY <2>1
  <2>3. Len(t) \in Nat /\ DOMAIN t = 1 .. Len(t)
    BY <1>7, LenProperties
  <2>4. Len(t) = Len(s) - 1
    <3> HIDE DEF t
    <3>1. Len(s) - 1 \in Nat
      BY <1>1, <1>3
    <3> QED
      BY <2>2, <2>3, <3>1
  <2>5. \A i \in 1 .. Len(s) - 1 : t[i] = IF i < k + 1 THEN s[i] ELSE s[i + 1]
    BY <2>1
  <2> HIDE DEF t
  <2>6. \A i \in 1 .. Len(left) - 1 : Tail(left)[i] = t[k + i]
    <3> SUFFICES ASSUME NEW i \in 1 .. Len(left) - 1 PROVE Tail(left)[i] = t[k + i]
      OBVIOUS
    <3>1. k + i \in 1 .. Len(s) - 1 /\ ~(k + i < k + 1) /\ k + i + 1 = k + 1 + i
      BY <1>1, <1>2
    <3> QED
      BY <1>5, <2>5, <3>1
  <2>7. k \in 0 .. Len(t) /\ Len(left) - 1 = Len(t) - k
    BY <1>1, <1>3, <2>4
  <2>8. Rest(t, k, Tail(left))
    BY <1>4, <2>6, <2>7 DEF Rest
  <2>9. Follower(h, t, k) = Follower(h, s, k + 1)
    <3>1. CASE k = Len(t)
      <4>1. k + 1 = Len(s)
        BY <1>1, <2>4, <3>1
      <4> QED
        BY <3>1, <4>1 DEF Follower
    <3>2. CASE k # Len(t)
      <4>1. k + 1 # Len(s) /\ k + 1 \in 1 .. Len(s) - 1 /\ ~(k + 1 < k + 1)
        BY <1>1, <1>3, <2>4, <3>2
      <4>2. t[k + 1] = s[k + 1 + 1]
        BY <2>5, <4>1
      <4> QED
        BY <3>2, <4>1, <4>2 DEF Follower
    <3> QED
      BY <3>1, <3>2
  <2> QED
    BY <2>8, <2>9 DEF t
<1> QED
  BY <1>3, <1>6, <1>7 DEF Follower

\* Wherever a loop stands is a cell, and so is what comes next.
LEMMA Places ==
    OInv => \A h \in InUse :
               /\ Order[h] \in Seq(Nodes)
               /\ \A i \in 0 .. Len(Order[h]) :
                     LET at == Follower(h, Order[h], i) IN at \in Cells /\ next[at] \in Cells
<1> SUFFICES ASSUME OInv, NEW h \in InUse
             PROVE  /\ Order[h] \in Seq(Nodes)
                    /\ \A i \in 0 .. Len(Order[h]) :
                          Follower(h, Order[h], i) \in Cells /\ next[Follower(h, Order[h], i)] \in Cells
  OBVIOUS
<1> DEFINE s == Order[h]
<1>1. /\ h \in Heads /\ owner[h] = h /\ Sound(Memory, owner) /\ Chain(Memory, owner, h, s)
      /\ NULL \notin Cells /\ h # NULL
  BY InOrder, CellsAssumption DEF IInv, Cells
<1>2. s \in Seq(Nodes)
  BY <1>1 DEF Chain
<1>3. ASSUME NEW i \in 0 .. Len(s)
      PROVE  Follower(h, s, i) \in Cells /\ next[Follower(h, s, i)] \in Cells
  <2> HIDE DEF s
  <2>1. /\ Follower(h, s, i) \in Cells /\ Cell(h, s, i) \in Cells /\ owner[Cell(h, s, i)] = h
        /\ Memory.next[Cell(h, s, i)] = Follower(h, s, i)
    BY <1>1, ChainFacts
  <2>2. owner[Follower(h, s, i)] = h
    BY <1>1, <2>1 DEF Sound, Joined
  <2>3. Joined(Memory, owner, Follower(h, s, i))
    BY <1>1, <2>1, <2>2 DEF Sound
  <2> QED
    BY <2>1, <2>3 DEF Joined, Memory
<1> QED
  BY <1>2, <1>3

\* The same of the state after a step.
LEMMA PlacesNext ==
    (OInv => \A h \in InUse :
                /\ Order[h] \in Seq(Nodes)
                /\ \A i \in 0 .. Len(Order[h]) :
                      LET at == Follower(h, Order[h], i) IN at \in Cells /\ next[at] \in Cells)'
BY Places, PTL

\* A turn takes the loop one place on: the body left the list as it was, or without
\* the node the loop stood on.
LEMMA TurnStands ==
    ASSUME OInv, LoopInv, LoopTurn
    PROVE  LoopInv'
<1> DEFINE head == loop.head
           s == Order[head]
           e == loop.pos
<1>1. /\ loop # NoLoop /\ e # head
      /\ loop' = [loop EXCEPT !.pos = loop.tmp, !.tmp = next'[loop.tmp], !.left = Tail(@)]
  BY DEF LoopTurn, Advance
<1>2. /\ head \in InUse /\ head \in Heads /\ owner[head] = head
      /\ loop = [head |-> head, pos |-> e, tmp |-> loop.tmp, left |-> loop.left]
      /\ Chain(Memory, owner, head, s) /\ Sound(Memory, owner) /\ s \in Seq(Nodes)
      /\ \E k \in Nat : Standing(loop, Memory, s, k)
  BY <1>1, StandingFacts, InOrder DEF IInv, Chain
<1>3. PICK k \in Nat : Standing(loop, Memory, s, k)
  BY <1>2
<1>4. Rest(s, k, loop.left) /\ e = Follower(head, s, k) /\ loop.tmp = next[e]
  BY <1>3 DEF Standing, Memory
<1>5. loop.left # <<>>
  <2> HIDE DEF s, head, e
  <2>1. CASE loop.left = <<>>
    <3>1. Len(s) - k = 0 /\ Len(s) \in Nat /\ k \in 0 .. Len(s)
      BY <1>2, <1>4, <2>1, LenProperties DEF Rest
    <3>2. k = Len(s)
      BY <3>1
    <3> QED
      BY <1>1, <1>4, <3>2 DEF Follower
  <2> QED
    BY <2>1
<1>6. /\ k + 1 \in 1 .. Len(s) /\ k + 1 \in 0 .. Len(s) /\ e = s[k + 1]
      /\ Rest(s, k + 1, Tail(loop.left))
      /\ Cut(s, k + 1) \in Seq(Nodes) => /\ Rest(Cut(s, k + 1), k, Tail(loop.left))
                                         /\ Follower(head, Cut(s, k + 1), k) = Follower(head, s, k + 1)
  <2> HIDE DEF s, head, e
  <2> QED
    BY <1>2, <1>4, <1>5, RestAfter
<1>7. e \in Nodes /\ owner[e] = head
  <2> HIDE DEF s, head, e
  <2> QED
    BY <1>2, <1>6, ChainFacts DEF Chain
<1>8. loop.tmp = Follower(head, s, k + 1)
  <2> HIDE DEF s, head
  <2>1. Cell(head, s, k + 1) = e
    BY <1>6 DEF Cell
  <2>2. Memory.next[Cell(head, s, k + 1)] = Follower(head, s, k + 1)
    BY <1>2, <1>6 DEF Chain
  <2> QED
    BY <1>4, <2>1, <2>2 DEF Memory
<1>9. OInv' /\ head \in InUse' /\ (Order'[head] = s \/ Order'[head] = Abstract!Removed(s, e))
  <2> HIDE DEF s, e
  <2>1. OInv' => DOMAIN Order' = InUse'
    BY DEF Order
  <2>2. CASE UNCHANGED <<next, prev, owner>>
    <3>1. Memory' = Memory /\ owner' = owner /\ Order' = Order /\ InUse' = InUse
      BY <2>2 DEF Memory, Order, InUse, Elements
    <3> QED
      BY <1>2, <3>1 DEF OInv, s
  <2>3. CASE list_del(e) \/ list_del_init(e)
    <3>1. OInv' /\ Order' = Taking(e)
      BY <2>3, DelOrder
    <3> QED
      BY <1>2, <2>1, <3>1 DEF Taking, s
  <2>4. CASE \E h \in InUse \ {head} : list_move(e, h) \/ list_move_tail(e, h)
    <3>1. PICK h \in InUse \ {head} : list_move(e, h) \/ list_move_tail(e, h)
      BY <2>4
    <3>2. /\ OInv' /\ DOMAIN Order' = InUse
          /\ \A g \in InUse \ {h} : Order'[g] = Taking(e)[g]
      BY <3>1, MoveOrder
    <3>3. head \in InUse \ {h}
      BY <1>2, <3>1
    <3> HIDE DEF head
    <3> QED
      BY <2>1, <3>2, <3>3 DEF Taking, s
  <2> QED
    BY <2>2, <2>3, <2>4 DEF LoopTurn, e
<1>10. Abstract!Removed(s, e) = Cut(s, k + 1)
  <2> HIDE DEF s, head, e
  <2>1. PICK i \in 1 .. Len(s) : e = s[i] /\ Abstract!Removed(s, e) = Cut(s, i)
    BY <1>2, <1>7, RemovedFacts
  <2>2. i = k + 1
    BY <1>2, <1>6, <2>1 DEF Chain
  <2> QED
    BY <2>1, <2>2
<1>11. /\ Order'[head] \in Seq(Nodes)
       /\ \A i \in 0 .. Len(Order'[head]) :
             /\ Follower(head, Order'[head], i) \in Cells
             /\ next'[Follower(head, Order'[head], i)] \in Cells
  <2> HIDE DEF head
  <2> QED
    BY <1>9, PlacesNext
<1>12. PICK j \in Nat : /\ Rest(Order'[head], j, Tail(loop.left))
                        /\ loop.tmp = Follower(head, Order'[head], j)
  <2> HIDE DEF s, head, e
  <2>1. CASE Order'[head] = s
    <3>1. k + 1 \in Nat
      BY <1>3
    <3> QED
      BY <1>6, <1>8, <2>1, <3>1
  <2>2. CASE Order'[head] = Cut(s, k + 1)
    BY <1>3, <1>6, <1>8, <1>11, <2>2
  <2> QED
    BY <1>9, <1>10, <2>1, <2>2
<1>13. /\ loop.tmp \in Cells /\ next'[loop.tmp] \in Cells /\ Tail(loop.left) \in Seq(Nodes)
  <2> HIDE DEF head
  <2> QED
    BY <1>11, <1>12 DEF Rest
<1>14. loop \in [head : InUse', pos : Cells, tmp : Cells, left : Seq(Nodes)]
  <2>1. loop \in [head : InUse, pos : Cells, tmp : Cells, left : Seq(Nodes)]
    BY <1>1 DEF LoopInv
  <2> QED
    BY <1>9, <2>1
<1>15. /\ loop' \in [head : InUse', pos : Cells, tmp : Cells, left : Seq(Nodes)]
       /\ loop'.head = head /\ loop'.pos = loop.tmp /\ loop'.tmp = next'[loop.tmp]
       /\ loop'.left = Tail(loop.left)
  <2> DEFINE v == loop.tmp
             w == next'[loop.tmp]
             x == Tail(loop.left)
  <2>1. v \in Cells /\ w \in Cells /\ x \in Seq(Nodes) /\ loop' = [loop EXCEPT !.pos = v, !.tmp = w, !.left = x]
    BY <1>1, <1>13
  <2> HIDE DEF v, w, x
  <2>2. /\ loop' \in [head : InUse', pos : Cells, tmp : Cells, left : Seq(Nodes)]
        /\ loop'.head = loop.head /\ loop'.pos = v /\ loop'.tmp = w /\ loop'.left = x
    BY <1>14, <2>1
  <2> QED
    BY <2>2 DEF v, w, x
<1>16. Standing(loop', Memory', Order'[loop'.head], j)
  <2> HIDE DEF head
  <2>1. Memory'.next = next'
    BY DEF Memory
  <2> QED
    BY <1>12, <1>15, <2>1 DEF Standing
<1> QED
  BY <1>15, <1>16 DEF LoopInv

-----------------------------------------------------------------------------
(* What the loop and the queries tell *)

\* Before the first call no loop runs.
LEMMA InitFull == Init => FullInv
BY InitOrdered DEF Init, FullInv, LoopInv

\* No step takes the lists out of order or a loop off its list.
LEMMA NextFull == ASSUME FullInv, [Next]_vars PROVE FullInv'
<1>1. OInv' /\ OInv /\ LoopInv
  BY NextOrdered DEF FullInv
<1>2. CASE loop' = NoLoop
  BY <1>1, <1>2 DEF FullInv, LoopInv, NoLoop
<1>3. CASE \E head \in InUse : LoopStart(head)
  BY <1>1, <1>3, StartStands DEF FullInv
<1>4. CASE LoopTurn
  BY <1>1, <1>4, TurnStands DEF FullInv
<1>5. CASE UNCHANGED vars
  <2>1. loop' = loop /\ Memory' = Memory /\ Order' = Order /\ InUse' = InUse
    BY <1>5 DEF vars, Memory, Order, InUse, Elements
  <2>2. LoopInv'
    BY <1>1, <2>1 DEF LoopInv, NoLoop
  <2> QED
    BY <1>1, <2>2 DEF FullInv
<1>6. CASE loop = NoLoop /\ Operation /\ UNCHANGED loop
  BY <1>2, <1>6
<1>7. CASE LoopEnd
  BY <1>2, <1>7 DEF LoopEnd
<1> QED
  BY <1>3, <1>4, <1>5, <1>6, <1>7 DEF Next

\* What a loop stands on is what it still has to visit, or its head when that is nothing.
LEMMA LoopTold ==
    ASSUME FullInv, loop # NoLoop
    PROVE  LET rest == Append(loop.left, loop.head) IN
           /\ loop.pos = rest[1]
           /\ Len(rest) > 1 => loop.tmp = rest[2]
<1> DEFINE head == loop.head
           s == Order[head]
           left == loop.left
           rest == Append(left, head)
<1>1. /\ Chain(Memory, owner, head, s) /\ head \in Heads /\ owner[head] = head
      /\ Sound(Memory, owner) /\ s \in Seq(Nodes)
      /\ \E k \in Nat : Standing(loop, Memory, s, k)
  BY StandingFacts, InOrder DEF FullInv, IInv, Chain
<1>2. PICK k \in Nat : Standing(loop, Memory, s, k)
  BY <1>1
<1>3. /\ Rest(s, k, left) /\ loop.pos = Follower(head, s, k) /\ loop.tmp = next[loop.pos]
  BY <1>2 DEF Standing, Memory
<1> HIDE DEF s, head, left
<1>4. left \in Seq(Nodes) /\ Len(left) \in Nat /\ Len(s) \in Nat /\ k \in 0 .. Len(s) /\ Len(left) = Len(s) - k
  BY <1>1, <1>3, LenProperties DEF Rest
<1>5. /\ Len(rest) = Len(left) + 1
      /\ rest[Len(left) + 1] = head
      /\ \A i \in 1 .. Len(left) : rest[i] = left[i]
  <2>1. left \in Seq(Cells) /\ head \in Cells
    BY <1>1, <1>4 DEF Cells
  <2> QED
    BY <2>1, AppendProperties
<1>6. CASE left = <<>>
  <2>1. Len(left) = 0
    BY <1>6
  <2>2. k = Len(s) /\ Len(rest) = 1 /\ rest[1] = head
    BY <1>4, <1>5, <2>1
  <2>3. loop.pos = rest[1] /\ ~(Len(rest) > 1)
    BY <1>3, <2>2 DEF Follower
  <2> QED
    BY <2>3 DEF left, head
<1>7. CASE left # <<>>
  <2>1. k + 1 \in 1 .. Len(s) /\ k + 1 \in 0 .. Len(s) /\ Follower(head, s, k) = s[k + 1]
    BY <1>1, <1>3, <1>7, RestAfter
  <2>2. \A i \in 1 .. Len(left) : left[i] = s[k + i]
    BY <1>3 DEF Rest
  <2>3. loop.pos = rest[1]
    <3>1. 1 \in 1 .. Len(left)
      BY <1>4, <2>1
    <3> QED
      BY <1>3, <1>5, <2>1, <2>2, <3>1
  <2>4. loop.tmp = Follower(head, s, k + 1)
    <3>1. Cell(head, s, k + 1) = loop.pos
      BY <1>3, <2>1 DEF Cell
    <3>2. Memory.next[Cell(head, s, k + 1)] = Follower(head, s, k + 1)
      BY <1>1, <2>1 DEF Chain
    <3> QED
      BY <1>3, <3>1, <3>2 DEF Memory
  <2>5. loop.tmp = rest[2]
    <3>1. CASE k + 1 = Len(s)
      <4>1. Len(left) = 1
        BY <1>4, <3>1
      <4> QED
        BY <1>5, <2>4, <3>1, <4>1 DEF Follower
    <3>2. CASE k + 1 # Len(s)
      <4>1. 2 \in 1 .. Len(left) /\ k + 2 = k + 1 + 1
        BY <1>4, <2>1, <3>2
      <4>2. rest[2] = s[k + 1 + 1]
        BY <1>5, <2>2, <4>1
      <4> QED
        BY <2>4, <3>2, <4>2 DEF Follower
    <3> QED
      BY <3>1, <3>2
  <2> QED
    BY <2>3, <2>5 DEF left, head
<1> QED
  BY <1>6, <1>7

\* The two queries count the nodes of a list.
LEMMA QueriesTell ==
    ASSUME OInv, NEW h \in InUse, NEW nodes, nodes = {n \in Nodes : owner[n] = h}
    PROVE  /\ list_empty(h) <=> nodes = {}
           /\ list_is_singular(h) <=> Cardinality(nodes) = 1
<1> DEFINE s == Order[h]
<1>1. /\ h \in Heads /\ owner[h] = h /\ Sound(Memory, owner) /\ Chain(Memory, owner, h, s)
  BY InOrder DEF IInv
<1> HIDE DEF s
<1>2. /\ Len(s) \in Nat /\ \A i \in 1 .. Len(s) : s[i] \in Nodes
      /\ \A i, j \in 1 .. Len(s) : s[i] = s[j] => i = j
      /\ \A n \in Nodes : owner[n] = h <=> \E i \in 1 .. Len(s) : s[i] = n
  BY <1>1, ChainFacts DEF Chain
<1>3. /\ list_empty(h) <=> Len(s) = 0
      /\ prev[h] = Cell(h, s, Len(s)) /\ next[h] = Follower(h, s, 0)
  <2>1. /\ 0 \in 0 .. Len(s) /\ Cell(h, s, 0) = h /\ Cell(h, s, Len(s)) = Memory.prev[h]
        /\ Memory.next[h] = h <=> Len(s) = 0
    BY <1>1, ChainEnds
  <2>2. Memory.next[Cell(h, s, 0)] = Follower(h, s, 0)
    BY <1>1, <2>1 DEF Chain
  <2> QED
    BY <2>1, <2>2 DEF list_empty, Memory
<1>4. list_empty(h) <=> nodes = {}
  <2>1. CASE Len(s) = 0
    BY <1>2, <1>3, <2>1
  <2>2. CASE Len(s) # 0
    <3>1. 1 \in 1 .. Len(s)
      BY <1>2, <2>2
    <3> QED
      BY <1>2, <1>3, <2>2, <3>1
  <2> QED
    BY <2>1, <2>2
<1>5. list_is_singular(h) <=> Len(s) = 1
  <2>1. CASE Len(s) = 0
    BY <1>3, <2>1 DEF list_is_singular
  <2>2. CASE Len(s) # 0
    <3>1. 1 \in 1 .. Len(s) /\ Len(s) \in 1 .. Len(s)
      BY <1>2, <2>2
    <3>2. prev[h] = s[Len(s)] /\ next[h] = s[1]
      BY <1>3, <2>2 DEF Cell, Follower
    <3> QED
      BY SMTT(30), <1>2, <1>3, <2>2, <3>1, <3>2 DEF list_is_singular
  <2> QED
    BY <2>1, <2>2
<1>6. Len(s) = 1 <=> \E x : nodes = {x}
  <2>1. ASSUME Len(s) = 1 PROVE nodes = {s[1]}
    <3>1. 1 .. Len(s) = {1}
      BY <2>1
    <3> QED
      BY <1>2, <3>1
  <2>2. ASSUME NEW x, nodes = {x} PROVE Len(s) = 1
    <3>1. Len(s) # 0
      BY <1>3, <1>4, <2>2
    <3>2. 1 \in 1 .. Len(s) /\ Len(s) \in 1 .. Len(s)
      BY <1>2, <3>1
    <3>3. s[1] = x /\ s[Len(s)] = x
      BY <1>2, <2>2, <3>2
    <3>4. \A i, j \in 1 .. Len(s) : s[i] = s[j] => i = j
      BY <1>2
    <3> QED
      BY SMTT(30), <3>2, <3>3, <3>4
  <2> QED
    BY <2>1, <2>2
<1>7. Cardinality(nodes) = 1 <=> \E x : nodes = {x}
  <2>1. IsFiniteSet(nodes)
    BY NodesAssumption, FS_Subset
  <2> QED
    BY <2>1, FS_Singleton
<1> QED
  BY <1>4, <1>5, <1>6, <1>7

\* What the invariant says of loops and queries is what the run checks.
LEMMA Told == FullInv => LoopExact
<1> SUFFICES ASSUME FullInv PROVE LoopExact
  OBVIOUS
<1>1. \A h \in InUse :
         /\ list_empty(h) <=> {n \in Nodes : owner[n] = h} = {}
         /\ list_is_singular(h) <=> Cardinality({n \in Nodes : owner[n] = h}) = 1
  BY QueriesTell DEF FullInv
<1> QED
  BY <1>1, LoopTold DEF LoopExact

\* list_for_each_safe() visits every node its list had when it began, once and in order,
\* while its body takes the current one out; list_empty() and list_is_singular() tell
\* how many a list has.
THEOREM LoopsExact == Spec => []LoopExact
<1>1. Init => FullInv
  BY InitFull
<1>2. FullInv /\ [Next]_vars => FullInv'
  BY NextFull
<1>3. FullInv => LoopExact
  BY Told
<1> QED
  BY <1>1, <1>2, <1>3, PTL DEF Spec

=============================================================================
