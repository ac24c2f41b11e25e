----------------------------- MODULE Interrupts -----------------------------
(***************************************************************************)
(* kmain() and the interrupt path: the gates and handlers of               *)
(* kernel/arch/x86, the interrupt controller, the timer, the keyboard's    *)
(* port, and under them the ring of Keyboard, which the shell polls.       *)
(* The machine's part (8259, 8042, 8253, the processor's IF) is external.  *)
(*                                                                         *)
(* Only the first controller is modelled.  The second one reaches the      *)
(* processor through line 2 of the first, which nothing ever unmasks.      *)
(***************************************************************************)
EXTENDS Naturals, Sequences

CONSTANTS
    KEYBOARD_BUFFER_SIZE, Scancodes, Keys, kbdus, None,     \* see Keyboard
    NoByte,         \* the keyboard's output port is empty
    Unhandled,      \* lines with a device the kernel has no driver for
    TicksWrap       \* ticks counts modulo 2^32

VARIABLES
    key_buffer, key_buffer_head, key_buffer_tail, pc, seen, c, key, typed,  \* see Keyboard
    step,       \* the call of kmain() that comes next
    idt, gdt,   \* are they loaded
    handlers,   \* handlers[vector], or None
    ticks,
    iflag,      \* the processor's IF: does the processor take interrupts
    stack,      \* the frames of the handlers running, innermost first
    halted,     \* halt_kernel(), or a fault for want of tables
    base,       \* the controller's first vector
    irr, isr, imr,  \* lines requesting, in service, masked
    port,       \* the byte in the keyboard's output port
    early,      \* history: a byte was in the port when pic_init() ran
    rested      \* lines that may request again: see Devices

keyboard == <<key_buffer, key_buffer_head, key_buffer_tail, pc, seen, c, key, typed>>
tables == <<idt, gdt, handlers>>
pic == <<base, irr, isr, imr>>
vars == <<keyboard, step, tables, ticks, iflag, stack, halted, pic, port, early, rested>>

Ring == INSTANCE Keyboard

KEYBOARD_IRQ == 1
SYSCALL_VECTOR == 128
IRQ_BASE == 32
BIOS_BASE == 8      \* where the firmware leaves the lines: on the exceptions
Lines == 0 .. 7
Vectors == 0 .. 47 \cup {SYSCALL_VECTOR}
KEYBOARD_VECTOR == IRQ_BASE + KEYBOARD_IRQ

ASSUME InterruptsAssumption ==
    /\ KEYBOARD_BUFFER_SIZE \in Nat /\ KEYBOARD_BUFFER_SIZE > 1
    /\ None \notin Keys /\ kbdus \in [Scancodes -> Keys \cup {None}]
    /\ None \notin {"timer_irq_handler", "keyboard_irq_handler", "syscall_dispatch"}
    /\ NoByte \notin Scancodes
    /\ Unhandled \subseteq Lines \ {0, KEYBOARD_IRQ, 7}
    /\ TicksWrap \in Nat \ {0}

\* The loader enters kmain() with interrupts off and the firmware's controller
\* set-up: nothing masked.
Init ==
    /\ Ring!Init
    /\ step = 1
    /\ idt = FALSE /\ gdt = FALSE
    /\ handlers = [v \in Vectors |-> None]
    /\ ticks = 0
    /\ iflag = FALSE
    /\ stack = <<>>
    /\ halted = FALSE
    /\ base = BIOS_BASE /\ irr = {} /\ isr = {} /\ imr = {}
    /\ port = NoByte
    /\ early = FALSE
    /\ rested = Lines

-----------------------------------------------------------------------------
(* The controller *)

\* The lines it would interrupt the processor for: unmasked, and before every line
\* in service in the fixed order of priorities.
Deliverable == {i \in irr \ imr : \A s \in isr : i < s}
IsFirst(i, S) == i \in S /\ \A j \in S : i <= j

\* The first byte of the set-up forgets every request; a line that is high
\* already makes no new one.
pic_init ==
    /\ base' = IRQ_BASE
    /\ irr' = {} /\ isr' = {} /\ imr' = Lines
    /\ early' = (port # NoByte)

\* Mutant: the mask is written, not the old mask without one bit.
Bug_pic_unmask_irq(irq) == imr' = Lines \ {irq}

pic_unmask_irq(irq) == imr' = imr \ {irq}

\* Mutant: only the timer's interrupt is acknowledged.
Bug_pic_send_eoi(irq) == isr' = IF irq = 0 THEN isr \ {0} ELSE isr

\* An unspecific end of interrupt: it ends whatever is first in service.
pic_send_eoi(irq) == isr' = {i \in isr : ~IsFirst(i, isr)}

-----------------------------------------------------------------------------
(* kmain() *)

\* Mutant: the tables are made after the drivers registered with them.
Bug_kmain_tables_late ==
    <<"tty_init", "gdt_init", "syscalls_init", "pic_init", "timer_init", "keyboard_init",
      "interrupts_init", "vfs_init", "tmpfs_init", "interrupt_enable">>

kmain ==
    <<"tty_init", "gdt_init", "interrupts_init", "syscalls_init", "pic_init", "timer_init",
      "keyboard_init", "vfs_init", "tmpfs_init", "interrupt_enable">>

Booted == step > Len(kmain)     \* in shell_launch()

\* Outside every handler, and no interrupt comes first.
ThreadRuns == ~halted /\ stack = <<>> /\ (iflag => Deliverable = {})

Call(name) ==
    /\ ThreadRuns
    /\ ~Booted /\ kmain[step] = name
    /\ step' = step + 1
    /\ rested' = Lines
    /\ UNCHANGED <<stack, halted, port>>

\* Their state is that of Console, Namespace and OpenFiles.
InitElsewhere ==
    /\ \E name \in {"tty_init", "vfs_init", "tmpfs_init"} : Call(name)
    /\ UNCHANGED <<keyboard, tables, ticks, iflag, pic, early>>

gdt_init ==
    /\ Call("gdt_init")
    /\ gdt' = TRUE
    /\ UNCHANGED <<keyboard, idt, handlers, ticks, iflag, pic, early>>

interrupts_init ==
    /\ Call("interrupts_init")
    /\ handlers' = [v \in Vectors |-> None]
    /\ idt' = TRUE
    /\ UNCHANGED <<keyboard, gdt, ticks, iflag, pic, early>>

interrupt_register_handler(vector, handler) == handlers' = [handlers EXCEPT ![vector] = handler]

syscalls_init ==
    /\ Call("syscalls_init")
    /\ interrupt_register_handler(SYSCALL_VECTOR, "syscall_dispatch")
    /\ UNCHANGED <<keyboard, idt, gdt, ticks, iflag, pic, early>>

InitPic ==
    /\ Call("pic_init")
    /\ pic_init
    /\ UNCHANGED <<keyboard, tables, ticks, iflag>>

timer_init ==
    /\ Call("timer_init")
    /\ interrupt_register_handler(IRQ_BASE, "timer_irq_handler")
    /\ pic_unmask_irq(0)
    /\ UNCHANGED <<keyboard, idt, gdt, ticks, iflag, base, irr, isr, early>>

keyboard_init ==
    /\ Call("keyboard_init")
    /\ key_buffer_head' = 0 /\ key_buffer_tail' = 0
    /\ interrupt_register_handler(KEYBOARD_VECTOR, "keyboard_irq_handler")
    /\ pic_unmask_irq(KEYBOARD_IRQ)
    /\ UNCHANGED <<key_buffer, pc, seen, c, key, typed, idt, gdt, ticks, iflag, base, irr, isr, early>>

interrupt_enable ==
    /\ Call("interrupt_enable")
    /\ iflag' = TRUE
    /\ UNCHANGED <<keyboard, tables, ticks, pic, early>>

Boot ==
    \/ InitElsewhere \/ gdt_init \/ interrupts_init \/ syscalls_init \/ InitPic
    \/ timer_init \/ keyboard_init \/ interrupt_enable

-----------------------------------------------------------------------------
(* The shell *)

\* One access of keyboard_getchar() to the ring.
Poll ==
    /\ ThreadRuns /\ Booted
    /\ Ring!Getchar
    /\ rested' = Lines
    /\ UNCHANGED <<step, tables, ticks, iflag, stack, halted, pic, port, early>>

\* Mutant: a trap gate, 0x8F, which leaves IF alone.
Bug_IfInHandler == iflag

\* Every gate idt_init() sets is an interrupt gate, 0x8E: the processor clears IF
\* behind the saved flags.
IfInHandler == FALSE

\* An interrupt through the tables, or the end of the machine without them.
Enter(vector) ==
    /\ stack' = <<[vector |-> vector, eflags |-> iflag, at |-> "dispatch"]>> \o stack
    /\ iflag' = IfInHandler
    /\ halted' = ~(idt /\ gdt)
    /\ UNCHANGED <<keyboard, step, tables, ticks, port, early>>

\* int $0x80, between two polls of the ring.
Trap ==
    /\ ThreadRuns /\ Booted /\ pc = "load head"
    /\ Enter(SYSCALL_VECTOR)
    /\ rested' = Lines
    /\ UNCHANGED pic

-----------------------------------------------------------------------------
(* Interrupts *)

TakeInterrupt ==
    /\ iflag /\ ~halted
    /\ \E i \in Deliverable :
          /\ IsFirst(i, Deliverable)
          /\ irr' = irr \ {i} /\ isr' = isr \cup {i}
          /\ Enter(base + i)
    /\ UNCHANGED <<base, imr, rested>>

\* The frame that is being executed moves on.
Top == stack[1]
In(where) == ~halted /\ stack # <<>> /\ Top.at = where
GoTo(where) == stack' = [stack EXCEPT ![1].at = where]

IsIrq(vector) == vector >= IRQ_BASE /\ vector < IRQ_BASE + 16

\* interrupt_dispatch() up to the handler: an exception nobody handles halts the
\* kernel, any other vector nobody handles is only acknowledged.
Dispatch ==
    /\ In("dispatch")
    /\ LET handled == handlers[Top.vector] # None IN
       /\ halted' = (~handled /\ Top.vector < IRQ_BASE)
       /\ GoTo(IF handled THEN "handler" ELSE "eoi")
    /\ iflag' = (iflag /\ ~halted')
    /\ UNCHANGED <<keyboard, step, tables, ticks, pic, port, early, rested>>

timer_irq_handler ==
    /\ In("handler") /\ handlers[Top.vector] = "timer_irq_handler"
    /\ ticks' = (ticks + 1) % TicksWrap
    /\ GoTo("eoi")
    /\ UNCHANGED <<keyboard, step, tables, iflag, halted, pic, port, early, rested>>

\* Mutant: a full ring is noticed before the byte is fetched.
Bug_keyboard_irq_handler ==
    /\ In("handler") /\ handlers[Top.vector] = "keyboard_irq_handler"
    /\ IF port = NoByte \/ Ring!After(key_buffer_head) = key_buffer_tail
       THEN UNCHANGED <<keyboard, port>>
       ELSE Ring!KeyboardIrq(port) /\ port' = NoByte
    /\ GoTo("eoi")
    /\ UNCHANGED <<step, tables, ticks, iflag, halted, pic, early, rested>>

\* Mutant: what is no key goes into the ring as well.
Bug_keyboard_irq_handler_any ==
    /\ In("handler") /\ handlers[Top.vector] = "keyboard_irq_handler"
    /\ IF port = NoByte THEN UNCHANGED <<keyboard, port>>
       ELSE /\ Ring!keyboard_buffer_push(kbdus[port]) /\ port' = NoByte
            /\ UNCHANGED <<pc, seen, c, key, typed>>
    /\ GoTo("eoi")
    /\ UNCHANGED <<step, tables, ticks, iflag, halted, pic, early, rested>>

\* The status port tells whether there is a byte; reading it empties the port.
keyboard_irq_handler ==
    /\ In("handler") /\ handlers[Top.vector] = "keyboard_irq_handler"
    /\ IF port = NoByte THEN UNCHANGED <<keyboard, port>>
       ELSE Ring!KeyboardIrq(port) /\ port' = NoByte
    /\ GoTo("eoi")
    /\ UNCHANGED <<step, tables, ticks, iflag, halted, pic, early, rested>>

\* What the call does is OpenFiles.
syscall_dispatch ==
    /\ In("handler") /\ handlers[Top.vector] = "syscall_dispatch"
    /\ GoTo("eoi")
    /\ UNCHANGED <<keyboard, step, tables, ticks, iflag, halted, pic, port, early, rested>>

\* The end of interrupt_dispatch().
EndOfInterrupt ==
    /\ In("eoi")
    /\ IF IsIrq(Top.vector) THEN pic_send_eoi(Top.vector - IRQ_BASE) ELSE UNCHANGED isr
    /\ GoTo("iret")
    /\ UNCHANGED <<keyboard, step, tables, ticks, iflag, halted, base, irr, imr, port, early, rested>>

\* The end of isr_common_stub.
Iret ==
    /\ In("iret")
    /\ iflag' = Top.eflags
    /\ stack' = Tail(stack)
    /\ UNCHANGED <<keyboard, step, tables, ticks, halted, pic, port, early, rested>>

Handle ==
    \/ TakeInterrupt \/ Dispatch \/ timer_irq_handler \/ keyboard_irq_handler
    \/ syscall_dispatch \/ EndOfInterrupt \/ Iret

-----------------------------------------------------------------------------
(* Devices.  The timer's period is 10 ms and a keyboard sends some hundred *)
(* bytes a second, thousands of times longer than a handler runs: between  *)
(* two requests of a line the processor gets back to what it was doing.    *)

Request(i) ==
    /\ ~halted
    /\ i \in rested
    /\ rested' = rested \ {i}
    /\ irr' = irr \cup {i}
    /\ UNCHANGED <<keyboard, step, tables, ticks, iflag, stack, halted, base, isr, imr, early>>

Tick == Request(0) /\ UNCHANGED port

\* The keyboard holds its next byte back until the port is empty.
ByteArrives ==
    /\ port = NoByte
    /\ port' \in Scancodes
    /\ Request(KEYBOARD_IRQ)

OtherDevice == \E i \in Unhandled : Request(i) /\ UNCHANGED port

\* Noise: the controller has forgotten the line when the processor asks for it,
\* answers with line 7, and takes nothing into service.
Spurious ==
    /\ iflag /\ ~halted
    /\ 7 \in rested /\ rested' = rested \ {7}
    /\ Enter(base + 7)
    /\ UNCHANGED pic

Next == Boot \/ Poll \/ Trap \/ Handle \/ Tick \/ ByteArrives \/ OtherDevice \/ Spurious

\* The processor goes on; every turn of shell_launch() polls; the timer runs.
Fairness ==
    /\ WF_vars(Boot \/ Poll \/ Handle)
    /\ SF_vars(Poll)
    /\ WF_vars(Tick)

Spec == Init /\ [][Next]_vars /\ Fairness

-----------------------------------------------------------------------------
(* Properties *)

Frames == [vector : Vectors, eflags : BOOLEAN, at : {"dispatch", "handler", "eoi", "iret"}]

TypeOK ==
    /\ Ring!TypeOK
    /\ step \in 1 .. Len(kmain) + 1
    /\ idt \in BOOLEAN /\ gdt \in BOOLEAN
    /\ handlers \in [Vectors -> {None, "timer_irq_handler", "keyboard_irq_handler", "syscall_dispatch"}]
    /\ ticks \in 0 .. TicksWrap - 1
    /\ iflag \in BOOLEAN
    /\ stack \in Seq(Frames)
    /\ halted \in BOOLEAN
    /\ base \in {BIOS_BASE, IRQ_BASE}
    /\ irr \subseteq Lines /\ isr \subseteq Lines /\ imr \subseteq Lines
    /\ port \in Scancodes \cup {NoByte}
    /\ early \in BOOLEAN
    /\ rested \subseteq Lines

\* The lines whose handlers have not come to their end of interrupt.
Unacknowledged ==
    {stack[k].vector - IRQ_BASE : k \in
        {k \in DOMAIN stack : IsIrq(stack[k].vector) /\ stack[k].at \in {"dispatch", "handler", "eoi"}}}

\* The end-of-interrupt names no line, and noise is acknowledged like a device: all
\* the same it always ends the service of the line whose handler sends it, so no
\* line stays in service behind its handler and none is released early.
InServiceExact == isr = Unacknowledged \ {7}

\* However boot and the devices interleave, no interrupt comes through a missing
\* table or takes an exception's vector, and a line the kernel unmasked has its
\* handler when its first interrupt comes.
BootSafe ==
    /\ ~halted
    /\ \A k \in DOMAIN stack : stack[k].vector = IRQ_BASE + 7 \/ handlers[stack[k].vector] # None

\* Requests are edges, so one that is missed is never repeated: a byte in the port
\* is either announced or about to be fetched, except one that came before the
\* controller was set up.
EdgeNeverLost ==
    port # NoByte =>
        \/ KEYBOARD_IRQ \in irr
        \/ \E k \in DOMAIN stack :
              stack[k].vector = KEYBOARD_VECTOR /\ stack[k].at \in {"dispatch", "handler"}
        \/ early

\* A byte that comes once the controller is set up is fetched, while the timer, the
\* other devices, noise and system calls keep interrupting.
ByteFetched == (port # NoByte /\ base = IRQ_BASE /\ ~early) ~> (port = NoByte)

\* The clock never stops.
ClockRuns == \A n \in 0 .. TicksWrap - 1 : []<>(ticks = n)

\* What Keyboard assumes is true of the whole machine: its handler is one step as
\* seen from keyboard_getchar(), whose steps are never put off for ever.
ImplementsKeyboard == Ring!Spec
=============================================================================
