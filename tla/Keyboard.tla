------------------------------ MODULE Keyboard ------------------------------
(***************************************************************************)
(* The ring buffer of kernel/dev/keyboard.c between the interrupt handler, *)
(* which fills it, and keyboard_getchar(), which shell_launch() polls.     *)
(* An interrupt gate clears IF, so the handler runs as one step; it may    *)
(* run between any two accesses keyboard_getchar() makes to the ring.      *)
(***************************************************************************)
EXTENDS Naturals, Sequences

CONSTANTS
    KEYBOARD_BUFFER_SIZE,
    Scancodes,      \* bytes the keyboard controller delivers
    Keys,
    kbdus,          \* the key of a scancode, None for a release or an unmapped key
    None

ASSUME SizeAssumption == KEYBOARD_BUFFER_SIZE \in Nat /\ KEYBOARD_BUFFER_SIZE > 1
ASSUME KeysAssumption == None \notin Keys /\ kbdus \in [Scancodes -> Keys \cup {None}]

VARIABLES
    key_buffer, key_buffer_head, key_buffer_tail,
    pc,     \* what keyboard_getchar() does next
    seen,   \* the head it loaded
    c,      \* the key it loaded
    key,    \* what it returned to the shell last, -1 not counted
    typed   \* history: the key decoded last, and whether an odd number was so far

ring == <<key_buffer, key_buffer_head, key_buffer_tail>>
vars == <<key_buffer, key_buffer_head, key_buffer_tail, pc, seen, c, key, typed>>

Slots == 0 .. KEYBOARD_BUFFER_SIZE - 1
After(i) == (i + 1) % KEYBOARD_BUFFER_SIZE

\* keyboard_init(); the ring is static storage, all zero, which no key is.
Init ==
    /\ key_buffer = [i \in Slots |-> None]
    /\ key_buffer_head = 0
    /\ key_buffer_tail = 0
    /\ pc = "load head"
    /\ seen = 0
    /\ c = None
    /\ key = None
    /\ typed = [key |-> None, odd |-> FALSE]

-----------------------------------------------------------------------------
\* Mutant: a full ring gives up its oldest key for the new one.
Bug_push_drop_oldest(char) ==
    /\ key_buffer' = [key_buffer EXCEPT ![key_buffer_head] = char]
    /\ key_buffer_head' = After(key_buffer_head)
    /\ key_buffer_tail' = IF After(key_buffer_head) = key_buffer_tail
                          THEN After(key_buffer_tail) ELSE key_buffer_tail

\* Mutant: a ring with one slot left is taken for full.
Bug_push_early(char) ==
    IF key_buffer_tail \in {After(key_buffer_head), After(After(key_buffer_head))}
    THEN UNCHANGED ring
    ELSE /\ key_buffer' = [key_buffer EXCEPT ![key_buffer_head] = char]
         /\ key_buffer_head' = After(key_buffer_head)
         /\ UNCHANGED key_buffer_tail

keyboard_buffer_push(char) ==
    IF After(key_buffer_head) = key_buffer_tail
    THEN UNCHANGED ring
    ELSE /\ key_buffer' = [key_buffer EXCEPT ![key_buffer_head] = char]
         /\ key_buffer_head' = After(key_buffer_head)
         /\ UNCHANGED key_buffer_tail

\* A release and an unmapped key stop at the decoder, and so does an interrupt
\* the status port shows no byte for.
KeyboardIrq(scancode) ==
    /\ IF kbdus[scancode] = None THEN UNCHANGED <<ring, typed>>
       ELSE /\ typed' = [key |-> kbdus[scancode], odd |-> ~typed.odd]
            /\ keyboard_buffer_push(kbdus[scancode])
    /\ UNCHANGED <<pc, seen, c, key>>

-----------------------------------------------------------------------------
(* keyboard_getchar(), one step per access to what the handler may change *)

LoadHead ==
    /\ pc = "load head"
    /\ seen' = key_buffer_head
    /\ pc' = "compare"
    /\ UNCHANGED <<ring, c, key>>

\* Empty: return -1, and shell_launch() polls again.
Compare ==
    /\ pc = "compare"
    /\ pc' = IF seen = key_buffer_tail THEN "load head" ELSE "load key"
    /\ UNCHANGED <<ring, seen, c, key>>

LoadKey ==
    /\ pc = "load key"
    /\ c' = key_buffer[key_buffer_tail]
    /\ pc' = "advance"
    /\ UNCHANGED <<ring, seen, key>>

\* Mutant: the tail is not taken modulo the size.
Bug_Advance ==
    /\ pc = "advance"
    /\ key_buffer_tail' = key_buffer_tail + 1
    /\ pc' = "return"
    /\ UNCHANGED <<key_buffer, key_buffer_head, seen, c, key>>

Advance ==
    /\ pc = "advance"
    /\ key_buffer_tail' = After(key_buffer_tail)
    /\ pc' = "return"
    /\ UNCHANGED <<key_buffer, key_buffer_head, seen, c, key>>

Return ==
    /\ pc = "return"
    /\ key' = c
    /\ pc' = "load head"
    /\ UNCHANGED <<ring, seen, c>>

Getchar == (LoadHead \/ Compare \/ LoadKey \/ Advance \/ Return) /\ UNCHANGED typed

Next == Getchar \/ \E scancode \in Scancodes : KeyboardIrq(scancode)

\* shell_launch() loops for ever and every interrupt handler returns to it.
Spec == Init /\ [][Next]_vars /\ WF_vars(Getchar)

-----------------------------------------------------------------------------
(* Properties *)

TypeOK ==
    /\ key_buffer \in [Slots -> Keys \cup {None}]
    /\ key_buffer_head \in Slots
    /\ key_buffer_tail \in Slots
    /\ pc \in {"load head", "compare", "load key", "advance", "return"}
    /\ seen \in Slots
    /\ c \in Keys \cup {None}
    /\ key \in Keys \cup {None}
    /\ typed \in [key : Keys \cup {None}, odd : BOOLEAN]

\* From the moment keyboard_getchar() has found the ring not empty, on the word of
\* a head that may since have moved, until it moves the tail, the handler neither
\* fills the ring over the slot it reads nor makes the ring look empty again.
SlotStable ==
    /\ pc = "compare" /\ seen # key_buffer_tail => key_buffer_head # key_buffer_tail
    /\ pc \in {"load key", "advance"} => key_buffer_head # key_buffer_tail
    /\ pc = "advance" => c = key_buffer[key_buffer_tail]

\* The ring as a queue: the keys from the tail up to the head.
Used == (key_buffer_head + KEYBOARD_BUFFER_SIZE - key_buffer_tail) % KEYBOARD_BUFFER_SIZE
Queue == [i \in 1 .. Used |-> key_buffer[(key_buffer_tail + i - 1) % KEYBOARD_BUFFER_SIZE]]

Abstract == INSTANCE KeyQueue WITH
    Capacity <- KEYBOARD_BUFFER_SIZE - 1,
    queue <- Queue,
    got <- IF pc = "return" THEN c ELSE key

\* Keys are read in the order they were typed, none twice; every key the decoder
\* delivers enters the queue, unless KEYBOARD_BUFFER_SIZE - 1 others wait there, and
\* then changes nothing; and a queued key is read in the end.
Implements == Abstract!Spec
=============================================================================
