------------------------------ MODULE KeyQueue ------------------------------
(***************************************************************************)
(* What kernel/dev/keyboard.c promises: a queue of at most Capacity keys,  *)
(* read in the order they were typed.  A key typed at a full queue is lost *)
(* and nothing else is; while the shell polls, every queued key is read.   *)
(* typed changes with every key, so none can be lost without being seen.   *)
(***************************************************************************)
EXTENDS Naturals, Sequences

CONSTANTS Keys, Capacity, None

VARIABLES
    typed,  \* the key typed last, and whether an odd number was typed so far
    queue,  \* typed and not yet read, oldest first
    got     \* the key read last, or None
qvars == <<typed, queue, got>>

Init == typed = [key |-> None, odd |-> FALSE] /\ queue = <<>> /\ got = None

Press(key) ==
    /\ typed' = [key |-> key, odd |-> ~typed.odd]
    /\ queue' = IF Len(queue) < Capacity THEN Append(queue, key) ELSE queue
    /\ UNCHANGED got

Take ==
    /\ queue # <<>>
    /\ got' = Head(queue)
    /\ queue' = Tail(queue)
    /\ UNCHANGED typed

Next == Take \/ \E key \in Keys : Press(key)

Spec == Init /\ [][Next]_qvars /\ WF_qvars(Take)
=============================================================================
