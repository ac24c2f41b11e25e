-------------------------------- MODULE List --------------------------------
(***************************************************************************)
(* The circular doubly linked lists of kernel/lib/list.c, cell by cell,    *)
(* and the loop of list_for_each_safe() in include/lib/list.h.  A head and *)
(* a node are both a struct list_head.                                     *)
(*                                                                         *)
(* Callers keep to the rules tests/test_list.c keeps to: they add a node   *)
(* that is in no list, delete or move one that is in a list or was set up  *)
(* by INIT_LIST_HEAD(), and set up a head again that list_splice() emptied *)
(* before they use it ("Restore it manually before using it again").       *)
(***************************************************************************)
EXTENDS Naturals, Sequences, FiniteSets

CONSTANTS Heads, Nodes, NULL

ASSUME CellsAssumption == Heads \cap Nodes = {} /\ NULL \notin Heads \cup Nodes
ASSUME NodesAssumption == IsFiniteSet(Nodes)

VARIABLES
    next, prev,
    owner,      \* history: the head of the list a cell is in, or NULL
    loop,       \* the loop that is running: its variables, and what it has still to visit
    call        \* history: the function called last and its arguments
vars == <<next, prev, owner, loop, call>>

Cells == Heads \cup Nodes
NoLoop == [head |-> NULL, pos |-> NULL, tmp |-> NULL, left |-> <<>>]

\* Nothing is set up; the fields hold anything, and NULL stands for it.
Init ==
    /\ next = [x \in Cells |-> NULL]
    /\ prev = [x \in Cells |-> NULL]
    /\ owner = [x \in Cells |-> NULL]
    /\ loop = NoLoop
    /\ call = <<"none">>

-----------------------------------------------------------------------------
(* Stores.  m is the memory, [next, prev]; a later store wins and reads    *)
(* see the stores before them.                                             *)

Memory == [next |-> next, prev |-> prev]
Becomes(m) == next' = m.next /\ prev' = m.prev

Reset(m, list) == [next |-> [m.next EXCEPT ![list] = list], prev |-> [m.prev EXCEPT ![list] = list]]
Poison(m, entry) == [next |-> [m.next EXCEPT ![entry] = NULL], prev |-> [m.prev EXCEPT ![entry] = NULL]]

\* Mutant: the node after is not told of the one before.
Bug_link(m, node, before, after) ==
    [next |-> [m.next EXCEPT ![node] = after, ![before] = node],
     prev |-> [m.prev EXCEPT ![node] = before]]

\* __list_add()
link(m, node, before, after) ==
    [next |-> [m.next EXCEPT ![node] = after, ![before] = node],
     prev |-> [m.prev EXCEPT ![after] = node, ![node] = before]]

\* __list_del()
unlink(m, before, after) ==
    [next |-> [m.next EXCEPT ![before] = after], prev |-> [m.prev EXCEPT ![after] = before]]

\* __list_splice()
splice(m, list, before, after) ==
    [next |-> [m.next EXCEPT ![before] = m.next[list], ![m.prev[list]] = after],
     prev |-> [m.prev EXCEPT ![m.next[list]] = before, ![after] = m.prev[list]]]

\* list_replace(): the second pair of stores reads what the first one wrote.
replaced(m, old, node) ==
    LET forward == [next |-> [m.next EXCEPT ![node] = m.next[old]],
                    prev |-> [m.prev EXCEPT ![m.next[old]] = node]] IN
    [next |-> [forward.next EXCEPT ![forward.prev[old]] = node],
     prev |-> [forward.prev EXCEPT ![node] = forward.prev[old]]]

\* Mutant: the node goes to the other end.
Bug_added(m, node, head) == link(m, node, m.prev[head], head)

added(m, node, head) == link(m, node, head, m.next[head])
added_tail(m, node, head) == link(m, node, m.prev[head], head)

moved(m, entry, head) == added(unlink(m, m.prev[entry], m.next[entry]), entry, head)
moved_tail(m, entry, head) == added_tail(unlink(m, m.prev[entry], m.next[entry]), entry, head)

-----------------------------------------------------------------------------
(* Operations *)

InUse == {h \in Heads : owner[h] = h}
Free == {n \in Nodes : owner[n] = NULL}
Listed == Nodes \ Free

\* In a list, or set up and in none.
Removable == Listed \cup {n \in Free : next[n] = n /\ prev[n] = n}

list_empty(head) == next[head] = head
list_is_singular(head) == ~list_empty(head) /\ next[head] = prev[head]

Enters(node, head) == owner' = [owner EXCEPT ![node] = head]
Leaves(node) == owner' = [owner EXCEPT ![node] = NULL]

INIT_LIST_HEAD(list) ==
    /\ call' = <<"INIT_LIST_HEAD", list>>
    /\ list \in Free \/ list \in Heads \ InUse
    /\ Becomes(Reset(Memory, list))
    /\ owner' = IF list \in Heads THEN [owner EXCEPT ![list] = list] ELSE owner

list_add(node, head) ==
    /\ call' = <<"list_add", node, head>>
    /\ node \in Free
    /\ Becomes(added(Memory, node, head))
    /\ Enters(node, head)

list_add_tail(node, head) ==
    /\ call' = <<"list_add_tail", node, head>>
    /\ node \in Free
    /\ Becomes(added_tail(Memory, node, head))
    /\ Enters(node, head)

list_del(entry) ==
    /\ call' = <<"list_del", entry>>
    /\ entry \in Removable
    /\ Becomes(Poison(unlink(Memory, prev[entry], next[entry]), entry))
    /\ Leaves(entry)

list_del_init(entry) ==
    /\ call' = <<"list_del_init", entry>>
    /\ entry \in Removable
    /\ Becomes(Reset(unlink(Memory, prev[entry], next[entry]), entry))
    /\ Leaves(entry)

list_move(entry, head) ==
    /\ call' = <<"list_move", entry, head>>
    /\ entry \in Removable
    /\ Becomes(moved(Memory, entry, head))
    /\ Enters(entry, head)

list_move_tail(entry, head) ==
    /\ call' = <<"list_move_tail", entry, head>>
    /\ entry \in Removable
    /\ Becomes(moved_tail(Memory, entry, head))
    /\ Enters(entry, head)

\* The new cell is in the old one's place: for a head, all its list is.
TakesOver(old, node, left) ==
    owner' = [x \in Cells |->
                 IF x = old THEN left
                 ELSE IF x = node THEN (IF old \in Heads THEN node ELSE owner[old])
                 ELSE IF old \in Heads /\ owner[x] = old THEN node ELSE owner[x]]

Replaceable(old, node) ==
    \/ old \in Removable /\ node \in Free \ {old}
    \/ old \in InUse /\ node \in Heads \ InUse

list_replace(old, node) ==
    /\ call' = <<"list_replace", old, node>>
    /\ Replaceable(old, node)
    /\ Becomes(replaced(Memory, old, node))
    /\ TakesOver(old, node, NULL)

list_replace_init(old, node) ==
    /\ call' = <<"list_replace_init", old, node>>
    /\ Replaceable(old, node)
    /\ Becomes(Reset(replaced(Memory, old, node), old))
    /\ TakesOver(old, node, IF old \in Heads THEN old ELSE NULL)

\* Every node of list is now in head's; list itself is left as given.
Joins(list, head, left) ==
    owner' = [x \in Cells |->
                 IF x = list THEN left ELSE IF owner[x] = list THEN head ELSE owner[x]]

Spliceable(list, head) == list # head /\ list \in InUse

\* What the splices of an empty list come to.
NothingToSplice(list) == list_empty(list) /\ UNCHANGED <<next, prev, owner>>

list_splice(list, head) ==
    /\ call' = <<"list_splice", list, head>>
    /\ Spliceable(list, head)
    /\ \/ NothingToSplice(list)
       \/ /\ ~list_empty(list)
          /\ Becomes(splice(Memory, list, head, next[head]))
          /\ Joins(list, head, NULL)

list_splice_tail(list, head) ==
    /\ call' = <<"list_splice_tail", list, head>>
    /\ Spliceable(list, head)
    /\ \/ NothingToSplice(list)
       \/ /\ ~list_empty(list)
          /\ Becomes(splice(Memory, list, prev[head], head))
          /\ Joins(list, head, NULL)

list_splice_init(list, head) ==
    /\ call' = <<"list_splice_init", list, head>>
    /\ Spliceable(list, head)
    /\ \/ NothingToSplice(list)
       \/ /\ ~list_empty(list)
          /\ Becomes(Reset(splice(Memory, list, head, next[head]), list))
          /\ Joins(list, head, list)

Operation ==
    \/ \E list \in Cells : INIT_LIST_HEAD(list)
    \/ \E entry \in Nodes : list_del(entry) \/ list_del_init(entry)
    \/ \E node \in Nodes, head \in InUse :
          \/ list_add(node, head) \/ list_add_tail(node, head)
          \/ list_move(node, head) \/ list_move_tail(node, head)
    \/ \E old, node \in Cells : list_replace(old, node) \/ list_replace_init(old, node)
    \/ \E list \in Heads, head \in InUse :
          list_splice(list, head) \/ list_splice_tail(list, head) \/ list_splice_init(list, head)

-----------------------------------------------------------------------------
(* list_for_each_safe() *)

\* The nodes of a list as a reader of next finds them.
Elements(head) ==
    LET walk[k \in 0 .. Cardinality(Nodes)] ==
            IF k = 0 THEN <<>>
            ELSE LET so_far == walk[k - 1]
                     last == IF so_far = <<>> THEN head ELSE so_far[Len(so_far)] IN
                 IF next[last] \in {head, NULL} THEN so_far ELSE Append(so_far, next[last])
    IN walk[Cardinality(Nodes)]

LoopStart(head) ==
    /\ loop = NoLoop
    /\ loop' = [head |-> head, pos |-> next[head], tmp |-> next[next[head]], left |-> Elements(head)]
    /\ UNCHANGED <<next, prev, owner, call>>

\* Mutant: list_for_each(), which reads the next node after the body ran.
Bug_Advance ==
    LET succ == next'[loop.pos] IN
    loop' = [loop EXCEPT !.pos = succ, !.tmp = IF succ = NULL THEN NULL ELSE next'[succ], !.left = Tail(@)]

Advance == loop' = [loop EXCEPT !.pos = loop.tmp, !.tmp = next'[loop.tmp], !.left = Tail(@)]

\* The body may take the node it is given out of the list, and nothing else in it.
LoopTurn ==
    /\ loop # NoLoop /\ loop.pos # loop.head
    /\ \/ UNCHANGED <<next, prev, owner, call>>
       \/ list_del(loop.pos)
       \/ list_del_init(loop.pos)
       \/ \E head \in InUse \ {loop.head} : list_move(loop.pos, head) \/ list_move_tail(loop.pos, head)
    /\ Advance

LoopEnd ==
    /\ loop # NoLoop /\ loop.pos = loop.head
    /\ loop' = NoLoop
    /\ UNCHANGED <<next, prev, owner, call>>

Next ==
    \/ loop = NoLoop /\ Operation /\ UNCHANGED loop
    \/ \E head \in InUse : LoopStart(head)
    \/ LoopTurn
    \/ LoopEnd

Spec == Init /\ [][Next]_vars

-----------------------------------------------------------------------------
(* Properties *)

TypeOK ==
    /\ next \in [Cells -> Cells \cup {NULL}]
    /\ prev \in [Cells -> Cells \cup {NULL}]
    /\ owner \in [Cells -> Heads \cup {NULL}]

\* A cell of a list has neighbours in the same list, and is theirs.
Linked(x) ==
    /\ next[x] \in Cells /\ owner[next[x]] = owner[x] /\ prev[next[x]] = x
    /\ prev[x] \in Cells /\ owner[prev[x]] = owner[x] /\ next[prev[x]] = x

\* Through any history of legal calls the two directions of every list agree, and
\* no pointer leads from one list into another or out to a cell in none: what a
\* deletion in constant time rests on.
Rings ==
    /\ TypeOK
    /\ \A x \in Cells : owner[x] # NULL => Linked(x)

\* A loop whose body takes the current node out, or moves it elsewhere, visits every
\* node the list had when it began, once and in order, and then ends.  What the loop
\* counts down to, the two queries tell at any time.
LoopExact ==
    /\ loop # NoLoop =>
          LET rest == Append(loop.left, loop.head) IN
          /\ loop.pos = rest[1]
          /\ Len(rest) > 1 => loop.tmp = rest[2]
    /\ \A h \in InUse :
          LET nodes == {n \in Nodes : owner[n] = h} IN
          /\ list_empty(h) <=> nodes = {}
          /\ list_is_singular(h) <=> Cardinality(nodes) = 1

Abstract == INSTANCE ListOrder WITH order <- [h \in InUse |-> Elements(h)]

\* The pointers implement sequences: each call, named by call, does to them what its
\* name says (an addition at its own end, a splice before or after what was there, a
\* deletion of the node it was given and no other), and to no other list anything.
Implements == Abstract!Spec
=============================================================================
