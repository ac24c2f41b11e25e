-------------------------- MODULE KeyboardProofs --------------------------
(***************************************************************************)
(* Theorems about Keyboard, for every size of the ring and every set of    *)
(* keys.  The invariant TypeOK /\ SlotStable is inductive as it stands:    *)
(* the clause about a head loaded a while ago is what makes the one about  *)
(* the loaded key survive the interrupt handler.  From it follows, step by *)
(* step, that the ring is the queue of KeyQueue.                           *)
(***************************************************************************)
EXTENDS Keyboard, TLAPS

\* Counting on modulo the size stays in the ring.
LEMMA AfterInSlots == ASSUME NEW i \in Slots PROVE After(i) \in Slots
BY SizeAssumption DEF After, Slots

\* The ring starts empty.
LEMMA InitInv == Init => TypeOK /\ SlotStable
<1> SUFFICES ASSUME Init PROVE TypeOK /\ SlotStable
  OBVIOUS
<1>1. 0 \in Slots
  BY SizeAssumption DEF Slots
<1>2. TypeOK
  BY <1>1 DEF Init, TypeOK
<1>3. SlotStable
  BY DEF Init, SlotStable
<1> QED
  BY <1>2, <1>3

\* What is known of the key typed last.
Presses == [key : Keys \cup {None}, odd : BOOLEAN]
Pressed(k) == [key |-> k, odd |-> ~typed.odd]

\* It stays a key and a parity.
LEMMA PressedTyped == ASSUME NEW k \in Keys PROVE Pressed(k) \in Presses
<1>1. (~typed.odd) \in BOOLEAN
  OBVIOUS
<1> QED
  BY <1>1 DEF Pressed, Presses

\* What an interrupt does: nothing, a key that finds the ring full, or one that fits.
IrqStep(char) ==
    /\ UNCHANGED <<pc, seen, c, key>>
    /\ \/ UNCHANGED <<ring, typed>>
       \/ /\ char \in Keys /\ typed' = Pressed(char)
          /\ After(key_buffer_head) = key_buffer_tail /\ UNCHANGED ring
       \/ /\ char \in Keys /\ typed' = Pressed(char)
          /\ After(key_buffer_head) # key_buffer_tail
          /\ key_buffer' = [key_buffer EXCEPT ![key_buffer_head] = char]
          /\ key_buffer_head' = After(key_buffer_head)
          /\ UNCHANGED key_buffer_tail

\* The handler takes one of these three ways.
LEMMA IrqCases ==
    ASSUME NEW scancode \in Scancodes, KeyboardIrq(scancode)
    PROVE  IrqStep(kbdus[scancode])
<1>1. kbdus[scancode] # None => kbdus[scancode] \in Keys
  BY KeysAssumption
<1> QED
  BY <1>1 DEF KeyboardIrq, keyboard_buffer_push, IrqStep, Pressed

\* The handler writes at the head only while the slot after it is not the tail.
LEMMA KeyboardIrqInv ==
    ASSUME TypeOK, SlotStable, NEW scancode \in Scancodes, KeyboardIrq(scancode)
    PROVE  TypeOK' /\ SlotStable'
<1> DEFINE char == kbdus[scancode]
<1>1. CASE UNCHANGED ring /\ (UNCHANGED typed \/ (char \in Keys /\ typed' = Pressed(char)))
  <2>1. UNCHANGED <<pc, seen, c, key>>
    BY IrqCases DEF IrqStep
  <2>2. typed' \in Presses
    BY <1>1, PressedTyped DEF TypeOK, Presses
  <2>3. TypeOK'
    BY <1>1, <2>1, <2>2 DEF TypeOK, ring, Presses
  <2>4. SlotStable'
    BY <1>1, <2>1 DEF SlotStable, ring
  <2> QED
    BY <2>3, <2>4
<1>2. CASE /\ char \in Keys /\ typed' = Pressed(char)
           /\ After(key_buffer_head) # key_buffer_tail
           /\ key_buffer' = [key_buffer EXCEPT ![key_buffer_head] = char]
           /\ key_buffer_head' = After(key_buffer_head)
           /\ UNCHANGED key_buffer_tail
  <2>1. UNCHANGED <<pc, seen, c, key>>
    BY IrqCases DEF IrqStep
  <2>2. typed' \in Presses
    BY <1>2, PressedTyped
  <2>3. TypeOK'
    BY <1>2, <2>1, <2>2, AfterInSlots DEF TypeOK, Presses
  <2>4. key_buffer_head # key_buffer_tail => key_buffer'[key_buffer_tail] = key_buffer[key_buffer_tail]
    BY <1>2 DEF TypeOK
  <2>5. SlotStable'
    BY <1>2, <2>1, <2>4 DEF SlotStable
  <2> QED
    BY <2>3, <2>5
<1> QED
  BY <1>1, <1>2, IrqCases DEF IrqStep

\* Each access of keyboard_getchar().
LEMMA GetcharInv ==
    ASSUME TypeOK, SlotStable, Getchar
    PROVE  TypeOK' /\ SlotStable'
<1>0. typed' = typed
  BY DEF Getchar
<1>1. CASE LoadHead
  BY <1>0, <1>1 DEF LoadHead, TypeOK, SlotStable, ring
<1>2. CASE Compare
  BY <1>0, <1>2 DEF Compare, TypeOK, SlotStable, ring
<1>3. CASE LoadKey
  BY <1>0, <1>3 DEF LoadKey, TypeOK, SlotStable, ring
<1>4. CASE Advance
  BY <1>0, <1>4, AfterInSlots DEF Advance, TypeOK, SlotStable
<1>5. CASE Return
  BY <1>0, <1>5 DEF Return, TypeOK, SlotStable, ring
<1> QED
  BY <1>1, <1>2, <1>3, <1>4, <1>5 DEF Getchar

\* Types and slots are kept by every step.
LEMMA NextInv == TypeOK /\ SlotStable /\ [Next]_vars => TypeOK' /\ SlotStable'
<1> SUFFICES ASSUME TypeOK, SlotStable, [Next]_vars PROVE TypeOK' /\ SlotStable'
  OBVIOUS
<1>1. CASE UNCHANGED vars
  BY <1>1 DEF vars, TypeOK, SlotStable
<1> QED
  BY <1>1, KeyboardIrqInv, GetcharInv DEF Next

\* The ring and the registers keep their types: no index leaves the ring.
THEOREM KeyboardTyped == Spec => []TypeOK
BY InitInv, NextInv, PTL DEF Spec

\* No interrupt disturbs the slot keyboard_getchar() is reading.
THEOREM SlotsStable == Spec => []SlotStable
BY InitInv, NextInv, PTL DEF Spec

-----------------------------------------------------------------------------
(* The ring as a queue *)

\* A number below the size is its own remainder.
LEMMA ModBelow == ASSUME NEW n \in Nat \ {0}, NEW x \in 0 .. n - 1 PROVE x % n = x
OBVIOUS

\* One turn further, the remainder is what is past the size.
LEMMA ModOver == ASSUME NEW n \in Nat \ {0}, NEW x \in n .. 2 * n - 1 PROVE x % n = x - n
OBVIOUS

\* Index and distance in the ring, without remainders.
Wrap(x) == IF x < KEYBOARD_BUFFER_SIZE THEN x ELSE x - KEYBOARD_BUFFER_SIZE
Distance(head, tail) == IF head >= tail THEN head - tail ELSE head + KEYBOARD_BUFFER_SIZE - tail

\* The sums taken modulo the size are below twice the size.
LEMMA WrapFacts ==
    ASSUME NEW x \in 0 .. 2 * KEYBOARD_BUFFER_SIZE - 1
    PROVE  x % KEYBOARD_BUFFER_SIZE = Wrap(x) /\ Wrap(x) \in Slots
<1>1. CASE x < KEYBOARD_BUFFER_SIZE
  BY <1>1, SizeAssumption, ModBelow DEF Wrap, Slots
<1>2. CASE ~(x < KEYBOARD_BUFFER_SIZE)
  BY SMTT(30), <1>2, SizeAssumption, ModOver DEF Wrap, Slots
<1> QED
  BY <1>1, <1>2

\* The slot after another.
LEMMA AfterFacts ==
    ASSUME NEW x \in Slots
    PROVE  After(x) = Wrap(x + 1) /\ After(x) \in Slots
<1>1. x + 1 \in 0 .. 2 * KEYBOARD_BUFFER_SIZE - 1
  BY SizeAssumption DEF Slots
<1> QED
  BY <1>1, WrapFacts DEF After

\* How long the queue is, and what is in it.
QueueShape ==
    /\ Used = Distance(key_buffer_head, key_buffer_tail)
    /\ Used \in 0 .. KEYBOARD_BUFFER_SIZE - 1
    /\ Queue \in Seq(Keys \cup {None}) /\ Len(Queue) = Used
    /\ \A i \in 1 .. Used : Queue[i] = key_buffer[Wrap(key_buffer_tail + i - 1)]

\* Any ring of the right types has that shape.
LEMMA QueueFacts == TypeOK => QueueShape
<1> SUFFICES ASSUME TypeOK PROVE QueueShape
  OBVIOUS
<1>1. /\ key_buffer_head \in Slots /\ key_buffer_tail \in Slots
      /\ key_buffer \in [Slots -> Keys \cup {None}]
  BY DEF TypeOK
<1>2. Used = Wrap(key_buffer_head + KEYBOARD_BUFFER_SIZE - key_buffer_tail)
  <2>1. key_buffer_head + KEYBOARD_BUFFER_SIZE - key_buffer_tail \in 0 .. 2 * KEYBOARD_BUFFER_SIZE - 1
    BY <1>1, SizeAssumption DEF Slots
  <2> QED
    BY <2>1, WrapFacts DEF Used
<1>3. /\ Used = Distance(key_buffer_head, key_buffer_tail)
      /\ Used \in 0 .. KEYBOARD_BUFFER_SIZE - 1
  BY <1>1, <1>2, SizeAssumption DEF Wrap, Distance, Slots
<1>4. ASSUME NEW i \in 1 .. Used
      PROVE  /\ (key_buffer_tail + i - 1) % KEYBOARD_BUFFER_SIZE = Wrap(key_buffer_tail + i - 1)
             /\ Wrap(key_buffer_tail + i - 1) \in Slots
  <2>1. key_buffer_tail + i - 1 \in 0 .. 2 * KEYBOARD_BUFFER_SIZE - 1
    BY <1>1, <1>3, SizeAssumption DEF Slots
  <2> QED
    BY <2>1, WrapFacts
<1>5. Queue = [i \in 1 .. Used |-> key_buffer[Wrap(key_buffer_tail + i - 1)]]
  BY <1>4 DEF Queue
<1>6. \A i \in 1 .. Used : key_buffer[Wrap(key_buffer_tail + i - 1)] \in Keys \cup {None}
  BY <1>1, <1>4
<1>7. Queue \in Seq(Keys \cup {None}) /\ Len(Queue) = Used
  BY <1>3, <1>5, <1>6
<1> QED
  BY <1>3, <1>5, <1>7 DEF QueueShape

\* After a step as well.
LEMMA QueueFactsNext == TypeOK' => QueueShape'
BY QueueFacts, PTL

\* At the start nothing is queued and nothing was read.
LEMMA InitRefines == Init => Abstract!Init
<1> SUFFICES ASSUME Init PROVE Abstract!Init
  OBVIOUS
<1>1. Used = 0
  <2>1. TypeOK
    BY InitInv
  <2>2. key_buffer_head = 0 /\ key_buffer_tail = 0
    BY DEF Init
  <2>3. Used = Distance(0, 0)
    BY <2>1, <2>2, QueueFacts DEF QueueShape
  <2> QED
    BY <2>3 DEF Distance
<1>2. Queue = <<>>
  BY <1>1 DEF Queue
<1> QED
  BY <1>2 DEF Init, Abstract!Init

\* The handler puts a key at the end of the queue; at a full ring, and at no other,
\* the key is lost.
LEMMA IrqRefines ==
    ASSUME TypeOK, SlotStable, NEW scancode \in Scancodes, KeyboardIrq(scancode)
    PROVE  Abstract!Next \/ UNCHANGED Abstract!qvars
<1> DEFINE char == kbdus[scancode]
<1>1. UNCHANGED <<pc, seen, c, key>>
  BY IrqCases DEF IrqStep
<1>2. CASE UNCHANGED <<ring, typed>>
  <2>1. Queue' = Queue
    BY <1>2 DEF ring, Queue, Used
  <2> QED
    BY <1>1, <1>2, <2>1 DEF Abstract!qvars
<1>3. CASE /\ char \in Keys /\ typed' = Pressed(char)
           /\ After(key_buffer_head) = key_buffer_tail /\ UNCHANGED ring
  <2>1. Queue' = Queue
    BY <1>3 DEF ring, Queue, Used
  <2>2. key_buffer_head \in Slots /\ key_buffer_tail \in Slots
    BY DEF TypeOK
  <2>3. key_buffer_tail = Wrap(key_buffer_head + 1)
    BY <1>3, <2>2, AfterFacts
  <2>4. Used = Distance(key_buffer_head, key_buffer_tail) /\ Len(Queue) = Used
    BY QueueFacts DEF QueueShape
  <2>5. ~(Len(Queue) < KEYBOARD_BUFFER_SIZE - 1)
    BY <2>2, <2>3, <2>4, SizeAssumption DEF Distance, Wrap, Slots
  <2> QED
    BY <1>1, <1>3, <2>1, <2>5 DEF Abstract!Next, Abstract!Press, Pressed
<1>4. CASE /\ char \in Keys /\ typed' = Pressed(char)
           /\ After(key_buffer_head) # key_buffer_tail
           /\ key_buffer' = [key_buffer EXCEPT ![key_buffer_head] = char]
           /\ key_buffer_head' = After(key_buffer_head)
           /\ UNCHANGED key_buffer_tail
  <2>1. char \in Keys
    BY <1>4
  <2>2. TypeOK'
    BY KeyboardIrqInv
  <2>3. key_buffer_head \in Slots /\ key_buffer_tail \in Slots
    BY DEF TypeOK
  <2>4. After(key_buffer_head) = Wrap(key_buffer_head + 1)
    BY <2>3, AfterFacts
  <2>5. Used < KEYBOARD_BUFFER_SIZE - 1 /\ Used' = Used + 1
    <3>1. Used = Distance(key_buffer_head, key_buffer_tail)
      BY QueueFacts DEF QueueShape
    <3>2. Used' = Distance(Wrap(key_buffer_head + 1), key_buffer_tail)
      <4>1. Used' = Distance(key_buffer_head', key_buffer_tail')
        BY <2>2, QueueFactsNext DEF QueueShape, Distance
      <4> QED
        BY <1>4, <2>4, <4>1
    <3> QED
      BY <1>4, <2>3, <2>4, <3>1, <3>2, SizeAssumption DEF Distance, Wrap, Slots
  <2>6. /\ Used \in 0 .. KEYBOARD_BUFFER_SIZE - 1
        /\ Queue \in Seq(Keys \cup {None}) /\ Len(Queue) = Used
        /\ \A i \in 1 .. Used : Queue[i] = key_buffer[Wrap(key_buffer_tail + i - 1)]
    BY QueueFacts DEF QueueShape
  <2>7. /\ Queue' \in Seq(Keys \cup {None}) /\ Len(Queue') = Used'
        /\ \A i \in 1 .. Used' : Queue'[i] = key_buffer'[Wrap(key_buffer_tail + i - 1)]
    BY <1>4, <2>2, QueueFactsNext DEF QueueShape, Wrap
  <2>8. ASSUME NEW i \in 1 .. Used
        PROVE  Queue'[i] = Queue[i]
    <3>1. Wrap(key_buffer_tail + i - 1) # key_buffer_head
      BY <2>3, <2>6, QueueFacts, SizeAssumption DEF QueueShape, Distance, Wrap, Slots
    <3>2. key_buffer'[Wrap(key_buffer_tail + i - 1)] = key_buffer[Wrap(key_buffer_tail + i - 1)]
      <4>1. Wrap(key_buffer_tail + i - 1) \in Slots
        BY <2>3, <2>6, SizeAssumption DEF Wrap, Slots
      <4> QED
        BY <1>4, <3>1, <4>1 DEF TypeOK
    <3>3. i \in 1 .. Used'
      BY <2>5, <2>6
    <3> QED
      BY <2>6, <2>7, <3>2, <3>3
  <2>9. Queue'[Used + 1] = char
    <3>1. Wrap(key_buffer_tail + Used) = key_buffer_head
      BY <2>3, QueueFacts, SizeAssumption DEF QueueShape, Distance, Wrap, Slots
    <3>2. Queue'[Used + 1] = key_buffer'[Wrap(key_buffer_tail + Used)]
      BY <2>3, <2>5, <2>6, <2>7 DEF Slots
    <3> QED
      BY <1>4, <2>3, <3>1, <3>2 DEF TypeOK
  <2>10. Queue' = Append(Queue, char)
    BY <2>1, <2>5, <2>6, <2>7, <2>8, <2>9
  <2> QED
    BY <1>1, <1>4, <2>1, <2>5, <2>6, <2>10 DEF Abstract!Next, Abstract!Press, Pressed
<1> QED
  BY <1>2, <1>3, <1>4, IrqCases DEF IrqStep

\* keyboard_getchar() takes the first key when it moves the tail; its other
\* accesses change neither the queue nor what was read last.
LEMMA GetcharRefines ==
    ASSUME TypeOK, SlotStable, Getchar
    PROVE  Abstract!Next \/ UNCHANGED Abstract!qvars
<1>0. typed' = typed
  BY DEF Getchar
<1>1. CASE LoadHead \/ Compare \/ LoadKey \/ Return
  <2>1. Queue' = Queue
    BY <1>1 DEF LoadHead, Compare, LoadKey, Return, ring, Queue, Used
  <2>2. (IF pc' = "return" THEN c' ELSE key') = (IF pc = "return" THEN c ELSE key)
    BY <1>1 DEF LoadHead, Compare, LoadKey, Return
  <2> QED
    BY <1>0, <2>1, <2>2 DEF Abstract!qvars
<1>2. CASE Advance
  <2>1. /\ pc = "advance" /\ pc' = "return" /\ c' = c
        /\ key_buffer_tail' = After(key_buffer_tail)
        /\ UNCHANGED <<key_buffer, key_buffer_head>>
    BY <1>2 DEF Advance
  <2>2. key_buffer_head # key_buffer_tail /\ c = key_buffer[key_buffer_tail]
    BY <2>1 DEF SlotStable
  <2>3. key_buffer_head \in Slots /\ key_buffer_tail \in Slots
    BY DEF TypeOK
  <2>4. TypeOK'
    BY GetcharInv
  <2>5. key_buffer_tail' = Wrap(key_buffer_tail + 1)
    BY <2>1, <2>3, AfterFacts
  <2>6. /\ Used = Distance(key_buffer_head, key_buffer_tail)
        /\ Used \in 0 .. KEYBOARD_BUFFER_SIZE - 1
        /\ Queue \in Seq(Keys \cup {None}) /\ Len(Queue) = Used
        /\ \A i \in 1 .. Used : Queue[i] = key_buffer[Wrap(key_buffer_tail + i - 1)]
    BY QueueFacts DEF QueueShape
  <2>7. /\ Used' = Distance(key_buffer_head, key_buffer_tail')
        /\ Queue' \in Seq(Keys \cup {None}) /\ Len(Queue') = Used'
        /\ \A i \in 1 .. Used' : Queue'[i] = key_buffer[Wrap(key_buffer_tail' + i - 1)]
    BY <2>1, <2>4, QueueFactsNext DEF QueueShape, Distance, Wrap
  <2>8. Used # 0 /\ Used' = Used - 1
    BY <2>2, <2>3, <2>5, <2>6, <2>7, SizeAssumption DEF Distance, Wrap, Slots
  <2>9. Queue # <<>> /\ Head(Queue) = c
    <3>1. Wrap(key_buffer_tail + 1 - 1) = key_buffer_tail
      BY <2>3, SizeAssumption DEF Wrap, Slots
    <3>2. 1 \in 1 .. Used
      BY <2>6, <2>8
    <3>3. Queue[1] = key_buffer[key_buffer_tail]
      BY <2>6, <3>1, <3>2
    <3> QED
      BY <2>2, <2>6, <2>8, <3>3
  <2>10. ASSUME NEW i \in 1 .. Used'
         PROVE  Queue'[i] = Queue[i + 1]
    <3>1. Wrap(key_buffer_tail' + i - 1) = Wrap(key_buffer_tail + (i + 1) - 1)
      BY <2>3, <2>5, <2>6, <2>8, SizeAssumption DEF Wrap, Slots
    <3>2. i + 1 \in 1 .. Used
      BY <2>6, <2>8
    <3> QED
      BY <2>6, <2>7, <3>1, <3>2
  <2>11. Queue' = Tail(Queue)
    BY <2>6, <2>7, <2>8, <2>9, <2>10
  <2> QED
    BY <1>0, <2>1, <2>9, <2>11 DEF Abstract!Next, Abstract!Take
<1> QED
  BY <1>1, <1>2 DEF Getchar

\* The ring with its interrupt handler and its reader is a bounded queue: keys are
\* read in the order they were typed, none twice, and one is lost only at a full
\* queue: every key the decoder delivers is seen in typed and has to go somewhere.
\* The safety half of Implements, for every size of the ring.
THEOREM QueueRefined == Spec => Abstract!Init /\ [][Abstract!Next]_(Abstract!qvars)
<1>1. TypeOK /\ SlotStable /\ [Next]_vars => [Abstract!Next]_(Abstract!qvars)
  <2> SUFFICES ASSUME TypeOK, SlotStable, [Next]_vars
               PROVE  Abstract!Next \/ UNCHANGED Abstract!qvars
    OBVIOUS
  <2>1. CASE UNCHANGED vars
    <3>1. Queue' = Queue
      BY <2>1 DEF vars, Queue, Used
    <3> QED
      BY <2>1, <3>1 DEF vars, Abstract!qvars
  <2> QED
    BY <2>1, IrqRefines, GetcharRefines DEF Next
<1> QED
  BY <1>1, InitInv, NextInv, InitRefines, PTL DEF Spec
=============================================================================
