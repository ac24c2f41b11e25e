----------------------------- MODULE ListOrder -----------------------------
(***************************************************************************)
(* What kernel/lib/list.c promises: every list in use is a sequence of     *)
(* nodes, no node is in two, each call does to the lists it is given what  *)
(* its name says, and nothing to the others.  call tells which call it     *)
(* was, so that no call can do another one's work, or none; a legal call   *)
(* made twice in a row does nothing the second time.                       *)
(***************************************************************************)
EXTENDS Naturals, Sequences

CONSTANTS Heads, Nodes

VARIABLES
    order,      \* of every head in use, the nodes of its list
    call        \* the function called last and its arguments
lvars == <<order, call>>

InUse == DOMAIN order
Listed == UNION {{order[h][i] : i \in DOMAIN order[h]} : h \in InUse}

\* A sequence after one of its nodes, if it is one of them, was taken out.
Removed(seq, node) ==
    IF \E i \in DOMAIN seq : seq[i] = node
    THEN LET at == CHOOSE i \in DOMAIN seq : seq[i] = node IN
         [i \in 1 .. Len(seq) - 1 |-> IF i < at THEN seq[i] ELSE seq[i + 1]]
    ELSE seq

Without(node) == [h \in InUse |-> Removed(order[h], node)]
Renamed(seq, old, node) == [i \in DOMAIN seq |-> IF seq[i] = old THEN node ELSE seq[i]]

Init == order = <<>> /\ call = <<"none">>

-----------------------------------------------------------------------------
(* What may become of the sequences *)

\* A new list, or one whose head was left behind by Rehead or Splice.
New(head) ==
    /\ head \in Heads \ InUse
    /\ order' = [h \in InUse \cup {head} |-> IF h = head THEN <<>> ELSE order[h]]

\* A node enters a list, out of another one if it is in one.
PutFirst(node, head) ==
    /\ head \in InUse
    /\ order' = [Without(node) EXCEPT ![head] = <<node>> \o @]

PutLast(node, head) ==
    /\ head \in InUse
    /\ order' = [Without(node) EXCEPT ![head] = Append(@, node)]

\* A node takes another's place, if that one has a place.
Replace(old, node) ==
    /\ old \in Nodes /\ node \in Nodes \ Listed
    /\ order' = [h \in InUse |-> Renamed(order[h], old, node)]

\* A head takes over a list.  Of the old head, {old} is kept with an empty list, and
\* {} is out of use.
Rehead(old, head, kept) ==
    /\ old \in InUse /\ head \in Heads \ InUse
    /\ order' = [h \in (InUse \ {old}) \cup {head} \cup kept |->
                    CASE h = head -> order[old] [] h = old -> <<>> [] OTHER -> order[h]]

\* One list into another, which becomes joined.  An empty one is left as it is, in use.
Splice(list, head, joined, kept) ==
    /\ list \in InUse /\ head \in InUse \ {list}
    /\ IF order[list] = <<>> THEN UNCHANGED order
       ELSE order' = [h \in (InUse \ {list}) \cup kept |->
                         CASE h = head -> joined [] h = list -> <<>> [] OTHER -> order[h]]

-----------------------------------------------------------------------------
(* The calls *)

INIT_LIST_HEAD(list) ==
    /\ call' = <<"INIT_LIST_HEAD", list>>
    /\ New(list) \/ (list \in Nodes \ Listed /\ UNCHANGED order)

list_add(node, head) ==
    call' = <<"list_add", node, head>> /\ node \notin Listed /\ PutFirst(node, head)

list_add_tail(node, head) ==
    call' = <<"list_add_tail", node, head>> /\ node \notin Listed /\ PutLast(node, head)

list_move(entry, head) == call' = <<"list_move", entry, head>> /\ PutFirst(entry, head)
list_move_tail(entry, head) == call' = <<"list_move_tail", entry, head>> /\ PutLast(entry, head)

list_del(entry) == call' = <<"list_del", entry>> /\ order' = Without(entry)
list_del_init(entry) == call' = <<"list_del_init", entry>> /\ order' = Without(entry)

list_replace(old, node) ==
    call' = <<"list_replace", old, node>> /\ (Replace(old, node) \/ Rehead(old, node, {}))

list_replace_init(old, node) ==
    call' = <<"list_replace_init", old, node>> /\ (Replace(old, node) \/ Rehead(old, node, {old}))

list_splice(list, head) ==
    call' = <<"list_splice", list, head>> /\ Splice(list, head, order[list] \o order[head], {})

list_splice_tail(list, head) ==
    call' = <<"list_splice_tail", list, head>> /\ Splice(list, head, order[head] \o order[list], {})

list_splice_init(list, head) ==
    call' = <<"list_splice_init", list, head>> /\ Splice(list, head, order[list] \o order[head], {list})

Next ==
    \/ \E list \in Heads \cup Nodes : INIT_LIST_HEAD(list)
    \/ \E entry \in Nodes : list_del(entry) \/ list_del_init(entry)
    \/ \E node \in Nodes, head \in Heads :
          \/ list_add(node, head) \/ list_add_tail(node, head)
          \/ list_move(node, head) \/ list_move_tail(node, head)
    \/ \E old, node \in Heads \cup Nodes : list_replace(old, node) \/ list_replace_init(old, node)
    \/ \E list, head \in Heads :
          list_splice(list, head) \/ list_splice_tail(list, head) \/ list_splice_init(list, head)

Spec == Init /\ [][Next]_lvars
=============================================================================
