-------------------------- MODULE InterruptsProofs --------------------------
(***************************************************************************)
(* Theorems about Interrupts, for every ring, keyboard and set of unknown  *)
(* devices.  IInv says how far boot has come by the number of the call     *)
(* that comes next, and that at most one handler runs, with interrupts     *)
(* off: from this every other invariant follows frame by frame.            *)
(***************************************************************************)
EXTENDS Interrupts, TLAPS

Names == {None, "timer_irq_handler", "keyboard_irq_handler", "syscall_dispatch"}

\* Who is registered before a call of kmain(), and which lines are open.
HandlersInv ==
    /\ handlers \in [Vectors -> Names]
    /\ step > 4 => handlers[SYSCALL_VECTOR] = "syscall_dispatch"
    /\ step > 6 => handlers[IRQ_BASE] = "timer_irq_handler"
    /\ step > 7 => handlers[KEYBOARD_VECTOR] = "keyboard_irq_handler"
    /\ handlers[IRQ_BASE + 7] = None

MasksInv ==
    /\ step < 6 => base = BIOS_BASE
    /\ step > 5 => base = IRQ_BASE
    /\ imr \subseteq Lines
    /\ step = 6 => imr = Lines
    /\ step = 7 => imr = Lines \ {0}
    /\ step > 7 => imr = Lines \ {0, 1}

BootInv ==
    /\ step \in 1 .. 11
    /\ idt \in BOOLEAN /\ (step > 3 => idt)
    /\ gdt \in BOOLEAN /\ (step > 2 => gdt)
    /\ HandlersInv
    /\ MasksInv
    /\ iflag \in BOOLEAN /\ (iflag => step = 11)
    /\ halted = FALSE

DataInv ==
    /\ Ring!TypeOK
    /\ step < 11 => key_buffer_head = 0 /\ key_buffer_tail = 0
    /\ ticks \in 0 .. TicksWrap - 1
    /\ irr \subseteq {0, KEYBOARD_IRQ} \cup Unhandled
    /\ port \in Scancodes \cup {NoByte}
    /\ early \in BOOLEAN
    /\ rested \subseteq Lines

\* The only interrupts that come once the vectors are moved: the two open lines,
\* noise, system calls.
Served ==
    {f \in [vector : {IRQ_BASE, KEYBOARD_VECTOR, IRQ_BASE + 7, SYSCALL_VECTOR}, eflags : BOOLEAN,
            at : {"dispatch", "handler", "eoi", "iret"}] :
        f.vector = IRQ_BASE + 7 => f.at # "handler"}

\* The line a frame keeps in service.
Serving(f) ==
    {i \in {0, KEYBOARD_IRQ} : f.vector = IRQ_BASE + i /\ f.at # "iret"}

Fetching(f) == f.vector = KEYBOARD_VECTOR /\ f.at \in {"dispatch", "handler"}
Announced == port # NoByte => KEYBOARD_IRQ \in irr \/ early

StackInv ==
    \/ stack = <<>> /\ isr = {} /\ Announced
    \/ /\ step = 11 /\ iflag = FALSE
       /\ \E f \in Served : /\ stack = <<f>> /\ isr = Serving(f)
                            /\ Announced \/ Fetching(f)

IInv == BootInv /\ DataInv /\ StackInv

-----------------------------------------------------------------------------
(* Facts about the parts *)

\* The place of every call in kmain().
LEMMA Order ==
    /\ Len(kmain) = 10
    /\ kmain[1] = "tty_init" /\ kmain[2] = "gdt_init" /\ kmain[3] = "interrupts_init"
    /\ kmain[4] = "syscalls_init" /\ kmain[5] = "pic_init" /\ kmain[6] = "timer_init"
    /\ kmain[7] = "keyboard_init" /\ kmain[8] = "vfs_init" /\ kmain[9] = "tmpfs_init"
    /\ kmain[10] = "interrupt_enable"
BY DEF kmain

\* A call that comes next tells how far boot has come.
LEMMA Places ==
    ASSUME NEW n \in 1 .. 10
    PROVE  /\ kmain[n] \in {"tty_init", "vfs_init", "tmpfs_init"} => n \in {1, 8, 9}
           /\ kmain[n] = "gdt_init" => n = 2
           /\ kmain[n] = "interrupts_init" => n = 3
           /\ kmain[n] = "syscalls_init" => n = 4
           /\ kmain[n] = "pic_init" => n = 5
           /\ kmain[n] = "timer_init" => n = 6
           /\ kmain[n] = "keyboard_init" => n = 7
           /\ kmain[n] = "interrupt_enable" => n = 10
<1>1. \/ n = 1 \/ n = 2 \/ n = 3 \/ n = 4 \/ n = 5
      \/ n = 6 \/ n = 7 \/ n = 8 \/ n = 9 \/ n = 10
  OBVIOUS
<1> QED
  BY <1>1, Order

\* A registration changes one entry of the table.
LEMMA Registers ==
    ASSUME handlers \in [Vectors -> Names], NEW v \in Vectors, NEW name \in Names,
           interrupt_register_handler(v, name)
    PROVE  /\ handlers' \in [Vectors -> Names] /\ handlers'[v] = name
           /\ \A w \in Vectors \ {v} : handlers'[w] = handlers[w]
BY DEF interrupt_register_handler

\* The vectors of the lines, as numbers.
LEMMA Numbers ==
    /\ IRQ_BASE = 32 /\ KEYBOARD_VECTOR = 33 /\ SYSCALL_VECTOR = 128 /\ KEYBOARD_IRQ = 1
    /\ {32, 33, 39, 128} \subseteq Vectors
BY DEF IRQ_BASE, KEYBOARD_VECTOR, SYSCALL_VECTOR, KEYBOARD_IRQ, Vectors

\* The ring's steps keep its types, as for Keyboard by itself.
LEMMA RingTyped ==
    ASSUME Ring!TypeOK, Ring!Next \/ UNCHANGED Ring!vars
    PROVE  Ring!TypeOK'
<1>1. \A i \in Ring!Slots : Ring!After(i) \in Ring!Slots
  BY InterruptsAssumption DEF Ring!After, Ring!Slots
<1>2. CASE UNCHANGED Ring!vars
  BY <1>2 DEF Ring!vars, Ring!TypeOK
<1>3. CASE \E scancode \in Scancodes : Ring!KeyboardIrq(scancode)
  <2>1. PICK scancode \in Scancodes : Ring!KeyboardIrq(scancode)
    BY <1>3
  <2>2. kbdus[scancode] \in Keys \cup {None}
    BY InterruptsAssumption
  <2> DEFINE press == [key |-> kbdus[scancode], odd |-> ~typed.odd]
             P == [key : Keys \cup {None}, odd : BOOLEAN]
  <2>3. typed' \in P
    <3>1. (~typed.odd) \in BOOLEAN
      OBVIOUS
    <3>2. press \in P
      BY <2>2, <3>1
    <3> HIDE DEF press, P
    <3>3. typed \in P
      BY DEF Ring!TypeOK, P
    <3>4. typed' = typed \/ typed' = press
      BY <2>1 DEF Ring!KeyboardIrq, press
    <3> QED
      BY <3>2, <3>3, <3>4
  <2>4. CASE UNCHANGED Ring!ring /\ UNCHANGED <<pc, seen, c, key>>
    BY <2>3, <2>4 DEF Ring!TypeOK, Ring!ring
  <2>5. CASE Ring!keyboard_buffer_push(kbdus[scancode]) /\ UNCHANGED <<pc, seen, c, key>>
    <3>1. /\ key_buffer \in [Ring!Slots -> Keys \cup {None}]
          /\ key_buffer_head \in Ring!Slots /\ key_buffer_tail \in Ring!Slots
      BY DEF Ring!TypeOK
    <3>2. /\ key_buffer' \in [Ring!Slots -> Keys \cup {None}]
          /\ key_buffer_head' \in Ring!Slots /\ key_buffer_tail' \in Ring!Slots
      BY <1>1, <2>2, <2>5, <3>1 DEF Ring!keyboard_buffer_push, Ring!ring
    <3> QED
      BY <2>3, <2>5, <3>2 DEF Ring!TypeOK
  <2> QED
    BY <2>1, <2>4, <2>5 DEF Ring!KeyboardIrq, Ring!ring
<1>4. CASE Ring!LoadHead /\ typed' = typed
  BY <1>4 DEF Ring!LoadHead, Ring!TypeOK, Ring!ring
<1>5. CASE Ring!Compare /\ typed' = typed
  BY <1>5 DEF Ring!Compare, Ring!TypeOK, Ring!ring
<1>6. CASE Ring!LoadKey /\ typed' = typed
  BY <1>6 DEF Ring!LoadKey, Ring!TypeOK, Ring!ring
<1>7. CASE Ring!Advance /\ typed' = typed
  BY <1>1, <1>7 DEF Ring!Advance, Ring!TypeOK
<1>8. CASE Ring!Return /\ typed' = typed
  BY <1>8 DEF Ring!Return, Ring!TypeOK, Ring!ring
<1> QED
  BY <1>2, <1>3, <1>4, <1>5, <1>6, <1>7, <1>8 DEF Ring!Next, Ring!Getchar

\* Moving the one frame there is.
LEMMA Moved ==
    ASSUME NEW f \in Served, stack = <<f>>, NEW where, GoTo(where)
    PROVE  stack' = <<[f EXCEPT !.at = where]>>
BY DEF GoTo

-----------------------------------------------------------------------------
(* The calls of kmain() *)

\* Between two calls: no handler runs, and the call is over at once.
AtRest ==
    /\ step \in 1 .. 10 /\ step' = step + 1
    /\ stack = <<>> /\ isr = {} /\ Announced
    /\ stack' = <<>> /\ halted' = FALSE /\ port' = port /\ rested' = Lines

\* A call finds the machine at rest.
LEMMA AtCall == ASSUME IInv, NEW name, Call(name) PROVE AtRest /\ kmain[step] = name
<1>1. step \in 1 .. 11 /\ halted = FALSE
  BY DEF IInv, BootInv
<1>2. stack = <<>> /\ isr = {} /\ Announced
  BY DEF IInv, StackInv, Call, ThreadRuns
<1> QED
  BY <1>1, <1>2, Order DEF Call, Booted, AtRest

\* A call that leaves ring, controller and clock alone.
LEMMA QuietCall ==
    ASSUME IInv, AtRest, BootInv', UNCHANGED <<keyboard, ticks, irr, isr, early>>
    PROVE  IInv' /\ UNCHANGED Ring!vars
<1>1. Ring!TypeOK' /\ UNCHANGED Ring!vars
  BY RingTyped DEF IInv, DataInv, keyboard, Ring!vars
<1>2. DataInv'
  BY <1>1 DEF IInv, DataInv, keyboard, AtRest
<1>3. StackInv'
  BY DEF StackInv, Announced, AtRest
<1> QED
  BY <1>1, <1>2, <1>3 DEF IInv

\* Every call keeps the invariant and leaves the ring alone.
LEMMA Boots == ASSUME IInv, Boot PROVE IInv' /\ UNCHANGED Ring!vars
<1>1. CASE InitElsewhere
  <2>1. PICK name \in {"tty_init", "vfs_init", "tmpfs_init"} : Call(name)
    BY <1>1 DEF InitElsewhere
  <2>2. AtRest /\ step \in {1, 8, 9}
    BY ZenonT(30), <2>1, AtCall, Places DEF AtRest
  <2>3. BootInv'
    BY <1>1, <2>2 DEF AtRest, InitElsewhere, tables, pic, IInv, BootInv, HandlersInv, MasksInv
  <2> QED
    BY <1>1, <2>2, <2>3, QuietCall DEF InitElsewhere, pic
<1>2. CASE gdt_init
  <2>1. AtRest /\ step = 2
    BY ZenonT(30), <1>2, AtCall, Places DEF gdt_init, AtRest
  <2>2. BootInv'
    BY <1>2, <2>1
    DEF AtRest, gdt_init, pic, IInv, BootInv, HandlersInv, MasksInv
  <2> QED
    BY <1>2, <2>1, <2>2, QuietCall DEF gdt_init, pic
<1>3. CASE interrupts_init
  <2>1. AtRest /\ step = 3
    BY <1>3, AtCall, Places DEF interrupts_init, AtRest
  <2>2. BootInv'
    BY <1>3, <2>1
    DEF AtRest, interrupts_init, pic, IInv, BootInv, HandlersInv, MasksInv, Vectors, Names, IRQ_BASE
  <2> QED
    BY <1>3, <2>1, <2>2, QuietCall DEF interrupts_init, pic
<1>4. CASE syscalls_init
  <2>1. AtRest /\ step = 4
    BY ZenonT(30), <1>4, AtCall, Places DEF syscalls_init, AtRest
  <2>r. handlers \in [Vectors -> Names] /\ SYSCALL_VECTOR \in Vectors /\ "syscall_dispatch" \in Names
    BY Numbers DEF IInv, BootInv, HandlersInv, Names
  <2>h. HandlersInv'
    BY <1>4, <2>1, <2>r, Registers, Numbers DEF AtRest, syscalls_init, IInv, BootInv, HandlersInv
  <2>2. BootInv'
    BY <1>4, <2>1, <2>h DEF AtRest, syscalls_init, pic, IInv, BootInv, MasksInv
  <2> QED
    BY <1>4, <2>1, <2>2, QuietCall DEF syscalls_init, pic
<1>5. CASE InitPic
  <2>1. AtRest /\ step = 5
    BY <1>5, AtCall, Places DEF InitPic, AtRest
  <2>2. BootInv'
    BY <1>5, <2>1
    DEF AtRest, InitPic, pic_init, tables, IInv, BootInv, HandlersInv, MasksInv, Lines
  <2>3. Ring!TypeOK' /\ UNCHANGED Ring!vars
    BY <1>5, RingTyped DEF InitPic, IInv, DataInv, keyboard, Ring!vars
  <2>4. DataInv'
    BY <1>5, <2>1, <2>3
    DEF AtRest, InitPic, pic_init, IInv, DataInv, keyboard
  <2>5. StackInv'
    BY <1>5, <2>1
    DEF AtRest, InitPic, pic_init, StackInv, Announced
  <2> QED
    BY <2>2, <2>3, <2>4, <2>5 DEF IInv
<1>6. CASE timer_init
  <2>1. AtRest /\ step = 6
    BY <1>6, AtCall, Places DEF timer_init, AtRest
  <2>r. handlers \in [Vectors -> Names] /\ IRQ_BASE \in Vectors /\ "timer_irq_handler" \in Names
    BY Numbers DEF IInv, BootInv, HandlersInv, Names
  <2>h. HandlersInv'
    BY <1>6, <2>1, <2>r, Registers, Numbers DEF AtRest, timer_init, IInv, BootInv, HandlersInv
  <2>m. MasksInv'
    BY <1>6, <2>1 DEF AtRest, timer_init, pic_unmask_irq, IInv, BootInv, MasksInv
  <2>2. BootInv'
    BY <1>6, <2>1, <2>h, <2>m DEF AtRest, timer_init, IInv, BootInv
  <2> QED
    BY <1>6, <2>1, <2>2, QuietCall DEF timer_init
<1>7. CASE keyboard_init
  <2>1. AtRest /\ step = 7
    BY ZenonT(30), <1>7, AtCall, Places DEF keyboard_init, AtRest
  <2>r. handlers \in [Vectors -> Names] /\ KEYBOARD_VECTOR \in Vectors /\ "keyboard_irq_handler" \in Names
    BY Numbers DEF IInv, BootInv, HandlersInv, Names
  <2>h. HandlersInv'
    BY <1>7, <2>1, <2>r, Registers, Numbers DEF AtRest, keyboard_init, IInv, BootInv, HandlersInv
  <2>m. MasksInv'
    BY <1>7, <2>1
    DEF AtRest, keyboard_init, pic_unmask_irq, IInv, BootInv, MasksInv, Lines, KEYBOARD_IRQ
  <2>2. BootInv'
    BY <1>7, <2>1, <2>h, <2>m DEF AtRest, keyboard_init, IInv, BootInv
  <2>3. UNCHANGED keyboard
    BY <1>7, <2>1 DEF keyboard_init, keyboard, IInv, DataInv
  <2> QED
    BY <1>7, <2>1, <2>2, <2>3, QuietCall DEF keyboard_init
<1>8. CASE interrupt_enable
  <2>c. AtRest /\ kmain[step] = "interrupt_enable"
    BY <1>8, AtCall DEF interrupt_enable
  <2>1. AtRest /\ step = 10
    BY <2>c, Places DEF AtRest
  <2>h. HandlersInv'
    BY <1>8, <2>1 DEF AtRest, interrupt_enable, tables, IInv, BootInv, HandlersInv
  <2>m. MasksInv'
    BY <1>8, <2>1 DEF AtRest, interrupt_enable, pic, IInv, BootInv, MasksInv
  <2>i. iflag' \in BOOLEAN /\ step' = 11 /\ step' \in 1 .. 11 /\ halted' = FALSE
    BY <1>8, <2>1 DEF AtRest, interrupt_enable
  <2>2. BootInv'
    BY <1>8, <2>1, <2>h, <2>m, <2>i DEF interrupt_enable, tables, IInv, BootInv
  <2> QED
    BY <1>8, <2>1, <2>2, QuietCall DEF interrupt_enable, pic
<1> QED
  BY <1>1, <1>2, <1>3, <1>4, <1>5, <1>6, <1>7, <1>8 DEF Boot

-----------------------------------------------------------------------------
(* The shell *)

\* A poll of the ring is a step of Keyboard.
LEMMA Polls == ASSUME IInv, Poll PROVE IInv' /\ Ring!Next
<1>1. Ring!Next /\ Ring!TypeOK'
  BY RingTyped DEF Poll, Ring!Next, IInv, DataInv
<1>2. BootInv'
  BY DEF Poll, tables, pic, IInv, BootInv, HandlersInv, MasksInv
<1>3. ~(step < 11)
  BY Order DEF Poll, Booted, IInv, BootInv
<1>4. DataInv'
  BY <1>1, <1>3 DEF Poll, pic, IInv, DataInv
<1>5. StackInv'
  BY DEF Poll, pic, IInv, StackInv, Announced, Serving, Fetching
<1> QED
  BY <1>1, <1>2, <1>4, <1>5 DEF IInv

-----------------------------------------------------------------------------
(* Frames *)

\* What is left alone from the gate to the return.
Stays == UNCHANGED <<step, tables, halted, base, imr, early>>

\* Where tables and masks stay, only IF has to be looked at.
LEMMA StaysInv ==
    ASSUME IInv, Stays, iflag' \in BOOLEAN, iflag' => step = 11
    PROVE  BootInv'
BY DEF Stays, tables, IInv, BootInv, HandlersInv, MasksInv

\* A handler starts only when none runs and boot is over.
LEMMA Entered ==
    ASSUME IInv, stack = <<>>, step = 11, NEW v \in {32, 33, 39, 128}, Enter(v),
           UNCHANGED <<base, imr>>
    PROVE  /\ BootInv'
           /\ iflag' = FALSE /\ UNCHANGED <<keyboard, step, tables, ticks, port, early>>
           /\ \E f \in Served : stack' = <<f>> /\ f.vector = v /\ f.at = "dispatch"
<1> DEFINE f == [vector |-> v, eflags |-> iflag, at |-> "dispatch"]
<1>1. iflag \in BOOLEAN /\ idt = TRUE /\ gdt = TRUE
  BY DEF IInv, BootInv
<1>2. f \in Served /\ f.vector = v /\ f.at = "dispatch"
  BY <1>1, Numbers DEF Served
<1>3. stack' = <<f>>
  BY DEF Enter
<1>4. iflag' = FALSE /\ UNCHANGED <<keyboard, step, tables, ticks, port, early>>
  BY DEF Enter, IfInHandler
<1>5. UNCHANGED halted
  BY <1>1 DEF Enter, IInv, BootInv
<1>6. BootInv'
  BY <1>4, <1>5, StaysInv DEF Stays
<1> QED
  BY <1>2, <1>3, <1>4, <1>6

\* The one frame of a handler that runs.
LEMMA Running ==
    ASSUME IInv, NEW where, In(where)
    PROVE  /\ step = 11 /\ iflag = FALSE
           /\ \E f \in Served : /\ stack = <<f>> /\ f.at = where
                                /\ isr = Serving(f) /\ (Announced \/ Fetching(f))
BY DEF IInv, StackInv, In, Top

\* A system call starts with nothing in service.
LEMMA Traps == ASSUME IInv, Trap PROVE IInv' /\ UNCHANGED Ring!vars
<1>1. stack = <<>> /\ isr = {} /\ Announced /\ step = 11
  <2>1. Booted
    BY DEF Trap
  <2>2. step = 11
    BY <2>1, Order DEF Booted, IInv, BootInv
  <2> QED
    BY <2>2 DEF Trap, ThreadRuns, IInv, StackInv
<1>2. Enter(128) /\ rested' = Lines /\ UNCHANGED pic
  BY Numbers DEF Trap
<1>3. BootInv'
  BY <1>1, <1>2, Entered DEF pic
<1>4. UNCHANGED Ring!vars
  BY <1>1, <1>2, Entered DEF pic, keyboard, Ring!vars
<1>5. DataInv'
  BY ZenonT(60), <1>1, <1>2, <1>4, Entered, RingTyped DEF pic, keyboard, IInv, DataInv
<1>6. StackInv'
  <2>1. PICK f \in Served : stack' = <<f>> /\ f.vector = 128
    BY <1>1, <1>2, Entered DEF pic
  <2>2. Serving(f) = {} /\ step' = 11 /\ iflag' = FALSE /\ isr' = {} /\ Announced'
    BY <1>1, <1>2, <2>1, Entered, Numbers DEF Serving, pic, Announced
  <2> QED
    BY <2>1, <2>2 DEF StackInv, Serving
<1> QED
  BY <1>3, <1>4, <1>5, <1>6 DEF IInv

\* After boot only the timer's and the keyboard's line are open: an interrupt taken
\* is one of them, and its line is the only one in service.
LEMMA Interrupted == ASSUME IInv, TakeInterrupt PROVE IInv' /\ UNCHANGED Ring!vars
<1>1. stack = <<>> /\ isr = {} /\ Announced /\ step = 11 /\ base = 32 /\ imr = Lines \ {0, 1}
  BY Numbers DEF TakeInterrupt, IInv, StackInv, BootInv, MasksInv
<1>2. PICK i \in Deliverable : irr' = irr \ {i} /\ isr' = isr \cup {i} /\ Enter(base + i)
  BY DEF TakeInterrupt
<1>3. i \in {0, 1}
  BY <1>1, <1>2, Numbers, InterruptsAssumption DEF Deliverable, IInv, DataInv, Lines
<1>4. base + i \in {32, 33, 39, 128} /\ UNCHANGED <<base, imr, rested>>
  BY <1>1, <1>3 DEF TakeInterrupt
<1>5. BootInv'
  BY <1>1, <1>2, <1>4, Entered
<1>6. UNCHANGED Ring!vars
  BY ZenonT(30), <1>1, <1>2, <1>4, Entered DEF keyboard, Ring!vars
<1>7. DataInv'
  BY ZenonT(60), <1>1, <1>2, <1>4, <1>6, Entered, RingTyped DEF keyboard, IInv, DataInv
<1>8. StackInv'
  <2>1. PICK f \in Served : stack' = <<f>> /\ f.vector = base + i /\ f.at = "dispatch"
    BY ZenonT(60), <1>1, <1>2, <1>4, Entered
  <2>2. step' = 11 /\ iflag' = FALSE /\ UNCHANGED <<port, early>>
    BY ZenonT(90), <1>1, <1>2, <1>4, Entered
  <2>3. Serving(f) = {i} /\ isr' = {i}
    BY <1>1, <1>2, <1>3, <2>1, Numbers DEF Serving
  <2>4. Announced' \/ Fetching(f)
    BY <1>1, <1>2, <1>3, <2>1, <2>2, Numbers DEF Announced, Fetching
  <2> QED
    BY <2>1, <2>2, <2>3, <2>4 DEF StackInv, Serving, Fetching
<1> QED
  BY <1>5, <1>6, <1>7, <1>8 DEF IInv

\* Noise arrives at the vector of line 7 and takes nothing into service.
LEMMA Noise == ASSUME IInv, Spurious PROVE IInv' /\ UNCHANGED Ring!vars
<1>1. stack = <<>> /\ isr = {} /\ Announced /\ step = 11 /\ base = 32
  BY Numbers DEF Spurious, IInv, StackInv, BootInv, MasksInv
<1>2. Enter(39) /\ rested' = rested \ {7} /\ UNCHANGED pic
  BY <1>1 DEF Spurious
<1>3. BootInv'
  BY <1>1, <1>2, Entered DEF pic
<1>4. UNCHANGED Ring!vars
  BY <1>1, <1>2, Entered DEF pic, keyboard, Ring!vars
<1>5. DataInv'
  BY ZenonT(60), <1>1, <1>2, <1>4, Entered, RingTyped DEF pic, keyboard, IInv, DataInv
<1>6. StackInv'
  <2>1. PICK f \in Served : stack' = <<f>> /\ f.vector = 39
    BY <1>1, <1>2, Entered DEF pic
  <2>2. Serving(f) = {} /\ step' = 11 /\ iflag' = FALSE /\ isr' = {} /\ Announced'
    BY <1>1, <1>2, <2>1, Entered, Numbers DEF Serving, pic, Announced
  <2> QED
    BY <2>1, <2>2 DEF StackInv, Serving
<1> QED
  BY <1>3, <1>4, <1>5, <1>6 DEF IInv

-----------------------------------------------------------------------------
(* Handlers *)

\* A frame that moves on without touching controller or port.
LEMMA FrameMoves ==
    ASSUME IInv, Stays, iflag' = FALSE, UNCHANGED rested, UNCHANGED <<ticks, irr, isr, port, keyboard>>,
           NEW f \in Served, stack = <<f>>, isr = Serving(f), Announced \/ Fetching(f), step = 11,
           NEW g \in Served, stack' = <<g>>, Serving(g) = Serving(f), Fetching(f) => Fetching(g)
    PROVE  IInv' /\ UNCHANGED Ring!vars
<1>1. BootInv'
  BY StaysInv
<1>2. UNCHANGED Ring!vars
  BY DEF keyboard, Ring!vars
<1>3. DataInv'
  BY <1>2, RingTyped DEF Stays, keyboard, IInv, DataInv
<1>4. StackInv'
  BY DEF Stays, StackInv, Serving, Fetching, Announced
<1> QED
  BY <1>1, <1>2, <1>3, <1>4 DEF IInv

\* Every vector that comes has its handler, save that of noise.
LEMMA Dispatched == ASSUME IInv, Dispatch PROVE IInv' /\ UNCHANGED Ring!vars
<1>1. PICK f \in Served :
        /\ stack = <<f>> /\ f.at = "dispatch" /\ isr = Serving(f) /\ (Announced \/ Fetching(f))
  BY Running DEF Dispatch
<1>2. step = 11 /\ iflag = FALSE /\ halted = FALSE /\ Top = f
  BY <1>1, Running DEF Dispatch, Top, IInv, BootInv
<1> DEFINE where == IF handlers[f.vector] # None THEN "handler" ELSE "eoi"
           g == [f EXCEPT !.at = where]
<1>3. f.vector \in {32, 33, 39, 128}
  BY <1>1, Numbers DEF Served
<1>4. f.vector = 39 => where = "eoi"
  BY Numbers DEF IInv, BootInv, HandlersInv
<1>5. f.vector = 33 => where = "handler"
  BY <1>2, Numbers, InterruptsAssumption DEF IInv, BootInv, HandlersInv
<1>6. g \in Served /\ Serving(g) = Serving(f) /\ (Fetching(f) => Fetching(g))
  BY <1>1, <1>4, <1>5, Numbers DEF Served, Serving, Fetching
<1>7. stack' = <<g>>
  <2>1. GoTo(where)
    BY <1>2 DEF Dispatch
  <2> QED
    BY <1>1, <2>1, Moved
<1>8. ~(f.vector < IRQ_BASE)
  BY <1>3, Numbers
<1>9. UNCHANGED halted /\ iflag' = FALSE
  BY <1>2, <1>8 DEF Dispatch
<1>10. UNCHANGED <<keyboard, step, tables, ticks, pic, port, early, rested>>
  BY DEF Dispatch
<1> QED
  BY <1>1, <1>2, <1>6, <1>7, <1>9, <1>10, FrameMoves DEF Stays, pic

\* The timer's handler and a system call leave the controller alone.
LEMMA Handled ==
    ASSUME IInv, timer_irq_handler \/ syscall_dispatch
    PROVE  IInv' /\ UNCHANGED Ring!vars
<1>1. PICK f \in Served :
        /\ stack = <<f>> /\ f.at = "handler" /\ isr = Serving(f) /\ (Announced \/ Fetching(f))
  BY Running DEF timer_irq_handler, syscall_dispatch
<1>2. step = 11 /\ iflag = FALSE /\ Top = f
  BY <1>1, Running DEF timer_irq_handler, syscall_dispatch, Top
<1> DEFINE g == [f EXCEPT !.at = "eoi"]
<1>3. f.vector # 33
  BY <1>2, Numbers DEF IInv, BootInv, HandlersInv, timer_irq_handler, syscall_dispatch
<1>4. g \in Served /\ Serving(g) = Serving(f) /\ ~Fetching(f)
  BY <1>1, <1>3, Numbers DEF Served, Serving, Fetching
<1>5. stack' = <<g>>
  BY <1>1, Moved DEF timer_irq_handler, syscall_dispatch
<1>6. UNCHANGED <<keyboard, step, tables, iflag, halted, pic, port, early, rested>>
  BY DEF timer_irq_handler, syscall_dispatch
<1>7. CASE UNCHANGED ticks
  BY <1>1, <1>2, <1>4, <1>5, <1>6, <1>7, FrameMoves DEF Stays, pic
<1>8. CASE ticks' = (ticks + 1) % TicksWrap
  <2>1. BootInv'
    BY <1>2, <1>6, StaysInv DEF Stays, pic
  <2>2. UNCHANGED Ring!vars
    BY <1>6 DEF keyboard, Ring!vars
  <2>3. ticks' \in 0 .. TicksWrap - 1
    BY <1>8, InterruptsAssumption DEF IInv, DataInv
  <2>4. DataInv'
    BY <1>6, <2>2, <2>3, RingTyped DEF pic, keyboard, IInv, DataInv
  <2>5. StackInv'
    BY <1>1, <1>2, <1>4, <1>5, <1>6 DEF pic, StackInv, Serving, Fetching, Announced
  <2> QED
    BY <2>1, <2>2, <2>4, <2>5 DEF IInv
<1> QED
  BY <1>7, <1>8 DEF timer_irq_handler, syscall_dispatch

\* The keyboard's handler empties the port.
LEMMA Fetched == ASSUME IInv, keyboard_irq_handler PROVE IInv' /\ (Ring!Next \/ UNCHANGED Ring!vars)
<1>1. PICK f \in Served :
        /\ stack = <<f>> /\ f.at = "handler" /\ isr = Serving(f) /\ (Announced \/ Fetching(f))
  BY Running DEF keyboard_irq_handler
<1>2. step = 11 /\ iflag = FALSE
  BY Running DEF keyboard_irq_handler
<1> DEFINE g == [f EXCEPT !.at = "eoi"]
<1>3. g \in Served /\ Serving(g) = Serving(f)
  BY <1>1, Numbers DEF Served, Serving
<1>4. stack' = <<g>>
  BY <1>1, Moved DEF keyboard_irq_handler
<1>5. port' = NoByte /\ UNCHANGED <<step, tables, ticks, iflag, halted, pic, early, rested>>
  BY DEF keyboard_irq_handler
<1>6. Ring!Next \/ UNCHANGED Ring!vars
  BY DEF keyboard_irq_handler, keyboard, Ring!vars, Ring!Next, IInv, DataInv
<1>7. BootInv'
  BY <1>2, <1>5, StaysInv DEF Stays, pic
<1>8. DataInv'
  BY <1>2, <1>5, <1>6, RingTyped DEF pic, IInv, DataInv
<1>9. StackInv'
  BY <1>1, <1>2, <1>3, <1>4, <1>5 DEF pic, StackInv, Serving, Announced
<1> QED
  BY <1>6, <1>7, <1>8, <1>9 DEF IInv

\* With one frame, the first line in service is the frame's own, or there is none.
LEMMA Acknowledged == ASSUME IInv, EndOfInterrupt PROVE IInv' /\ UNCHANGED Ring!vars
<1>1. PICK f \in Served :
        /\ stack = <<f>> /\ f.at = "eoi" /\ isr = Serving(f) /\ (Announced \/ Fetching(f))
  BY Running DEF EndOfInterrupt
<1>2. step = 11 /\ iflag = FALSE /\ Top = f
  BY <1>1, Running DEF EndOfInterrupt, Top
<1> DEFINE g == [f EXCEPT !.at = "iret"]
<1>3. g \in Served /\ Serving(g) = {} /\ ~Fetching(f)
  BY <1>1, Numbers DEF Served, Serving, Fetching
<1>4. stack' = <<g>>
  BY <1>1, Moved DEF EndOfInterrupt
<1>5. UNCHANGED <<keyboard, step, tables, ticks, iflag, halted, base, irr, imr, port, early, rested>>
  BY DEF EndOfInterrupt
<1>6. isr' = {}
  <2>1. CASE IsIrq(f.vector)
    <3>1. isr' = {i \in isr : ~IsFirst(i, isr)}
      BY <1>2, <2>1 DEF EndOfInterrupt, pic_send_eoi
    <3>2. \A i \in Serving(f) : Serving(f) = {i} /\ i \in Nat
      BY Numbers DEF Serving
    <3> QED
      BY <1>1, <3>1, <3>2 DEF IsFirst
  <2>2. CASE ~IsIrq(f.vector)
    <3>1. Serving(f) = {}
      BY <2>2, Numbers DEF IsIrq, Serving
    <3> QED
      BY <1>1, <1>2, <2>2, <3>1 DEF EndOfInterrupt
  <2> QED
    BY <2>1, <2>2
<1>7. BootInv'
  BY <1>2, <1>5, StaysInv DEF Stays
<1>8. UNCHANGED Ring!vars
  BY <1>5 DEF keyboard, Ring!vars
<1>9. DataInv'
  BY <1>5, <1>8, RingTyped DEF keyboard, IInv, DataInv
<1>10. StackInv'
  BY <1>1, <1>2, <1>3, <1>4, <1>5, <1>6 DEF StackInv, Serving, Announced
<1> QED
  BY <1>7, <1>8, <1>9, <1>10 DEF IInv

\* What iret leaves is a machine with no frame and nothing in service.
LEMMA Returned == ASSUME IInv, Iret PROVE IInv' /\ UNCHANGED Ring!vars
<1>1. PICK f \in Served :
        /\ stack = <<f>> /\ f.at = "iret" /\ isr = Serving(f) /\ (Announced \/ Fetching(f))
  BY Running DEF Iret
<1>2. step = 11 /\ Top = f
  BY <1>1, Running DEF Iret, Top
<1>3. Serving(f) = {} /\ ~Fetching(f) /\ f.eflags \in BOOLEAN
  BY <1>1 DEF Served, Serving, Fetching
<1>4. stack' = <<>> /\ iflag' \in BOOLEAN
  BY <1>1, <1>2, <1>3 DEF Iret
<1>5. UNCHANGED <<keyboard, step, tables, ticks, halted, pic, port, early, rested>>
  BY DEF Iret
<1>6. BootInv'
  BY <1>2, <1>4, <1>5, StaysInv DEF Stays, pic
<1>7. UNCHANGED Ring!vars
  BY <1>5 DEF keyboard, Ring!vars
<1>8. DataInv'
  BY <1>5, <1>7, RingTyped DEF pic, keyboard, IInv, DataInv
<1>9. StackInv'
  BY <1>1, <1>3, <1>4, <1>5 DEF pic, StackInv, Announced
<1> QED
  BY <1>6, <1>7, <1>8, <1>9 DEF IInv

-----------------------------------------------------------------------------
(* Devices *)

\* A request moves no frame; the keyboard's announces the byte it brings.
LEMMA Requested ==
    ASSUME IInv, NEW i \in {0, 1} \cup Unhandled, Request(i),
           \/ UNCHANGED port
           \/ i = KEYBOARD_IRQ /\ port' \in Scancodes
    PROVE  IInv' /\ UNCHANGED Ring!vars
<1>1. irr' = irr \cup {i} /\ rested' = rested \ {i}
  BY DEF Request
<1>2. UNCHANGED <<keyboard, step, tables, ticks, iflag, stack, halted, base, isr, imr, early>>
  BY DEF Request
<1>3. BootInv'
  BY <1>2, StaysInv DEF Stays, IInv, BootInv
<1>4. UNCHANGED Ring!vars
  BY <1>2 DEF keyboard, Ring!vars
<1>5. DataInv'
  BY <1>1, <1>2, <1>4, RingTyped, Numbers DEF keyboard, IInv, DataInv
<1>6. Announced => Announced'
  BY <1>1, <1>2 DEF Announced
<1>7. StackInv'
  BY <1>2, <1>6 DEF IInv, StackInv, Serving, Fetching
<1> QED
  BY <1>3, <1>4, <1>5, <1>7 DEF IInv

\* The timer, the keyboard and the unknown devices only request.
LEMMA Devices ==
    ASSUME IInv, Tick \/ ByteArrives \/ OtherDevice
    PROVE  IInv' /\ UNCHANGED Ring!vars
<1>1. CASE Tick
  BY <1>1, Requested DEF Tick
<1>2. CASE ByteArrives
  BY <1>2, Requested, Numbers DEF ByteArrives
<1>3. CASE OtherDevice
  BY <1>3, Requested DEF OtherDevice
<1> QED
  BY <1>1, <1>2, <1>3

-----------------------------------------------------------------------------
(* The whole machine *)

\* The machine starts with the invariant.
LEMMA InitInv == Init => IInv
<1> SUFFICES ASSUME Init PROVE IInv
  OBVIOUS
<1>1. Ring!TypeOK
  <2>1. Ring!Init /\ 0 \in Ring!Slots
    BY InterruptsAssumption DEF Init, Ring!Slots
  <2> QED
    BY <2>1 DEF Ring!Init, Ring!TypeOK
<1>2. HandlersInv
  BY Numbers DEF Init, HandlersInv, Names
<1>3. MasksInv
  BY DEF Init, MasksInv
<1>4. BootInv
  <2>1. step = 1 /\ idt \in BOOLEAN /\ gdt \in BOOLEAN /\ halted = FALSE
    BY DEF Init
  <2>2. iflag \in BOOLEAN /\ ~iflag
    BY DEF Init
  <2> QED
    BY <1>2, <1>3, <2>1, <2>2 DEF BootInv
<1>5. DataInv
  <2>1. key_buffer_head = 0 /\ key_buffer_tail = 0
    BY DEF Init, Ring!Init
  <2>2. ticks \in 0 .. TicksWrap - 1
    BY InterruptsAssumption DEF Init
  <2> QED
    BY <1>1, <2>1, <2>2 DEF Init, DataInv
<1>6. StackInv
  BY DEF Init, StackInv, Announced
<1> QED
  BY <1>4, <1>5, <1>6 DEF IInv

\* Every step keeps it, and is a step of Keyboard or leaves the ring alone.
LEMMA NextInv ==
    ASSUME IInv, [Next]_vars
    PROVE  IInv' /\ (Ring!Next \/ UNCHANGED Ring!vars)
<1>1. CASE UNCHANGED vars
  <2>1. UNCHANGED <<step, tables, halted, base, imr, early, iflag, stack, port, irr, isr, rested, ticks, keyboard>>
    BY <1>1 DEF vars, pic
  <2>2. BootInv' /\ UNCHANGED Ring!vars
    BY <2>1, StaysInv DEF Stays, keyboard, Ring!vars, IInv, BootInv
  <2>3. DataInv'
    BY <2>1, <2>2, RingTyped DEF keyboard, IInv, DataInv
  <2>4. StackInv'
    BY <2>1 DEF IInv, StackInv, Serving, Fetching, Announced
  <2> QED
    BY <2>2, <2>3, <2>4 DEF IInv
<1>2. CASE Boot
  BY <1>2, Boots
<1>3. CASE Poll
  BY <1>3, Polls
<1>4. CASE Trap
  BY <1>4, Traps
<1>5. CASE Handle
  BY <1>5, Interrupted, Dispatched, Handled, Fetched, Acknowledged, Returned DEF Handle
<1>6. CASE Spurious
  BY <1>6, Noise
<1> QED
  BY <1>1, <1>2, <1>3, <1>4, <1>5, <1>6, Devices DEF Next

\* The reading of the one frame in the properties.
LEMMA OneFrame ==
    ASSUME NEW f \in Served, stack = <<f>>
    PROVE  Unacknowledged \ {7} = Serving(f)
<1>1. DOMAIN stack = {1} /\ stack[1] = f
  OBVIOUS
<1>2. f.vector \in {32, 33, 39, 128} /\ f.at \in {"dispatch", "handler", "eoi", "iret"}
  BY Numbers DEF Served
<1>3. Unacknowledged = IF IsIrq(f.vector) /\ f.at \in {"dispatch", "handler", "eoi"}
                       THEN {f.vector - IRQ_BASE} ELSE {}
  BY <1>1 DEF Unacknowledged
<1> QED
  BY <1>2, <1>3, Numbers DEF IsIrq, Serving

\* What the invariant says of the types, but for the frames.
LEMMA TypedBut == ASSUME IInv, isr \subseteq Lines, stack \in Seq(Frames) PROVE TypeOK
<1>1. step \in 1 .. Len(kmain) + 1 /\ base \in {BIOS_BASE, IRQ_BASE}
  BY Order DEF IInv, BootInv, MasksInv
<1>2. handlers \in [Vectors -> {None, "timer_irq_handler", "keyboard_irq_handler", "syscall_dispatch"}]
  BY DEF IInv, BootInv, HandlersInv, Names
<1>3. irr \subseteq Lines
  BY Numbers, InterruptsAssumption DEF IInv, DataInv, Lines
<1>4. imr \subseteq Lines /\ idt \in BOOLEAN /\ gdt \in BOOLEAN /\ iflag \in BOOLEAN /\ halted \in BOOLEAN
  BY DEF IInv, BootInv, MasksInv
<1>5. /\ Ring!TypeOK /\ ticks \in 0 .. TicksWrap - 1 /\ port \in Scancodes \cup {NoByte}
      /\ early \in BOOLEAN /\ rested \subseteq Lines
  BY DEF IInv, DataInv
<1> QED
  BY <1>1, <1>2, <1>3, <1>4, <1>5 DEF TypeOK

\* The four properties follow from the invariant, frame by frame.
LEMMA Consequences == IInv => TypeOK /\ InServiceExact /\ BootSafe /\ EdgeNeverLost
<1> SUFFICES ASSUME IInv PROVE TypeOK /\ InServiceExact /\ BootSafe /\ EdgeNeverLost
  OBVIOUS
<1>1. CASE stack = <<>>
  <2>1. isr = {} /\ Announced
    BY <1>1 DEF IInv, StackInv
  <2>2. Unacknowledged = {}
    BY <1>1 DEF Unacknowledged
  <2>3. isr \subseteq Lines /\ stack \in Seq(Frames)
    BY <1>1, <2>1
  <2>4. BootSafe
    BY <1>1 DEF BootSafe, IInv, BootInv
  <2>5. TypeOK
    BY <2>3, TypedBut
  <2> QED
    BY <2>1, <2>2, <2>4, <2>5 DEF InServiceExact, EdgeNeverLost, Announced
<1>2. CASE stack # <<>>
  <2>1. PICK f \in Served : stack = <<f>> /\ isr = Serving(f) /\ (Announced \/ Fetching(f))
    BY <1>2 DEF IInv, StackInv
  <2>2. step = 11 /\ DOMAIN stack = {1} /\ stack[1] = f
    BY <1>2, <2>1 DEF IInv, StackInv
  <2>3. f \in Frames
    BY Numbers DEF Served, Frames
  <2>4. isr \subseteq Lines /\ stack \in Seq(Frames)
    BY <2>1, <2>3, Numbers DEF Serving, Lines
  <2>5. TypeOK
    BY <2>4, TypedBut
  <2>6. f.vector = 39 \/ handlers[f.vector] # None
    BY <2>2, Numbers, InterruptsAssumption DEF Served, IInv, BootInv, HandlersInv
  <2>7. BootSafe
    BY <2>2, <2>6, Numbers DEF BootSafe, IInv, BootInv
  <2>8. EdgeNeverLost
    BY <2>1, <2>2 DEF EdgeNeverLost, Announced, Fetching
  <2> QED
    BY <2>1, <2>5, <2>7, <2>8, OneFrame DEF InServiceExact
<1> QED
  BY <1>1, <1>2

\* Every variable of the machine keeps its type.
THEOREM InterruptsTyped == Spec => []TypeOK
BY InitInv, NextInv, Consequences, PTL DEF Spec

\* Each end of interrupt releases the line of the handler that sends it.
THEOREM ServiceExact == Spec => []InServiceExact
BY InitInv, NextInv, Consequences, PTL DEF Spec

\* No interrupt comes before the kernel is ready for it, whatever devices do.
THEOREM BootIsSafe == Spec => []BootSafe
BY InitInv, NextInv, Consequences, PTL DEF Spec

\* Only a byte that waited before the controller was set up can be missed.
THEOREM EdgesKept == Spec => []EdgeNeverLost
BY InitInv, NextInv, Consequences, PTL DEF Spec

\* Seen from the ring, the machine takes only steps of Keyboard: its handler is one
\* step, between two accesses of keyboard_getchar().
THEOREM RingRefined == Spec => Ring!Init /\ [][Ring!Next]_(Ring!vars)
<1>1. Init => Ring!Init
  BY DEF Init
<1>2. IInv /\ [Next]_vars => [Ring!Next]_(Ring!vars)
  BY NextInv
<1> QED
  BY <1>1, <1>2, InitInv, NextInv, PTL DEF Spec
=============================================================================
