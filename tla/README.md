# A verification project for mini-unix

mini-unix is a small 32-bit x86 kernel in C: one kernel process, a virtual file
system over one in-memory file system (tmpfs), a descriptor table behind an
`int 0x80` system call gate, a keyboard, a text screen, a line-editing shell in
kernel mode and a few library modules.  This directory holds TLA+ models of its
components, TLC configurations that check them on small instances, and proofs
that TLAPS checks for every value of the constants.

Sources are named relative to the repository root (`kernel/...`, `include/...`);
`PROJECT.json` gives for every definition the lines it translates.

## 1. Inventory

| Part | State it keeps | Operations | Talks to |
|---|---|---|---|
| VFS (`kernel/fs/vfs.c`) | table of file system types, static `root_vnode`, `mounted_here` of every vnode | register, find, look-up, mount, open, close, read, write | tmpfs through `vnode_ops_t`; `file.c`; `process.c`; the heap |
| tmpfs (`kernel/fs/tmpfs`) | inode tree: type, name (63 characters kept), size, data, parent, first child, next sibling | mount, lookup, create, unlink, read, write | the heap; called by VFS |
| Open files (`kernel/fs/file.c`, `kernel/proc/process.c`) | `struct file` (vnode, offset, flags, count), `kernel_proc.files` | create, destroy, allocate a descriptor, find a file | vnode reference counts |
| System calls (`kernel/proc/syscalls.c`) | none of its own | open, close, read, write, unknown number | VFS; trapped to through an interrupt gate |
| Heap (`kernel/mm/heap.c`) | `heap_current`, `heap_end`, memory | kmalloc, krealloc; kfree does nothing | everything that allocates |
| Keyboard (`kernel/dev/keyboard.c`) | ring buffer, head, tail | interrupt handler pushes, `keyboard_getchar()` takes | PIC, controller ports; polled by the shell |
| Line editor (`kernel/dev/terminal.c`) | line buffer and its length | put, backspace, submit, execute a command | keyboard, TTY |
| TTY and VGA (`kernel/dev/tty.c`, `vga.c`) | cursor, video memory | putchar, write, clear | video memory |
| Interrupt path (`kernel/arch/x86`) | IDT, handler table, PIC masks, the frames on the stack | register, dispatch, end-of-interrupt, unmask | keyboard, timer, system calls |
| Timer (`kernel/dev/timer.c`) | tick counter, divisor | initialise, count | PIC |
| Boot (`kernel/init/kernel.c`) | order of initialisation | `kmain()` | all of the above |
| Bitmap (`kernel/lib/bitmap.c`) | the caller's bytes, number of bits | set, clear, toggle, ranges, searches, counts | nobody yet |
| List (`kernel/lib/list.c`) | circular doubly linked pointers | add, delete, move, splice, iterate | nobody yet |
| Strings (`kernel/lib/string.c`) | none | copy, move, fill, compare, search, measure | tmpfs, the shell |
| Printing, assert, panic | none | formatting, halt | TTY |
| User shell (`user/`) | line buffer, token array, its child; none shared with the kernel | read, split, built-in commands, fork, exec, wait | a hosted C library |

What is hard here, part by part, and what makes each part correct:

* **Name space.** Mounts stack, files are unlinked while they are open or covered,
  and each call can run out of memory half way.  Correct means: no path resolves
  to something freed; a directory loses no file and keeps none it should not; a
  failed call is invisible; a call changes the meaning only of paths it concerns;
  a mount that succeeds is visible.
* **Descriptors.** `close()` never gives a descriptor back, so a closed descriptor
  can be closed, read and written again.  Correct means: reference counts are
  exact through all of this, offsets stay within files, files and slots stay one
  to one.
* **File data and heap.** A file grows by moving in a bump allocator that keeps no
  sizes.  Correct means: blocks never meet, a file's growth is invisible to its
  neighbours, and what was written is read back.
* **Keyboard.** The interrupt handler runs between any two memory accesses of the
  polling loop.  Correct means: a bounded queue, first in first out, that loses
  keys only when full and whose keys are read in the end.
* **Console.** Cursor arithmetic at the ends of rows and of the screen.  Correct
  means: earlier output survives editing, nothing is written beyond the video
  memory, the screen shows the line that will be submitted.
* **Bitmap.** Bit, byte and `size_t` boundaries.  Correct means: it is a set of
  indices and touches nothing outside it.
* **Interrupt path and boot.** Requests are edges and the end-of-interrupt names no
  line, so what is missed once is missed for good.  Correct means: no interrupt
  finds the kernel unprepared; every line is released by the handler that served it
  and no other; no byte stays in the keyboard's port; the clock and the shell go on
  whatever interrupts them.
* **List.** Pointers in two directions, changed one store at a time, in calls that
  read what they have just written.  Correct means: every list is a sequence, a call
  changes only the lists it is given, and a loop survives the removal of its node.
* **Strings.** Overlapping ranges, lengths of zero, terminators at and past the bound.
  Correct means: what the C standard says, and no byte looked at beyond that.

The full list of hazards, each at its line, is in `PROJECT.json`.

## 2. Modules

| Module | Stands for | Extends / instantiates |
|---|---|---|
| `Namespace` | `vfs.c` registration, look-up, mount; tmpfs directories | |
| `OpenFiles` | `file.c`, `process.c`, `syscalls.c`, the rest of `vfs.c`; tmpfs sizes | EXTENDS `Namespace` |
| `HeapFiles` | `heap.c` under `tmpfs_read()` and `tmpfs_write()` | |
| `Keyboard` | `keyboard.c`, polled by `shell_launch()` | INSTANCE `KeyQueue` |
| `KeyQueue` | abstract: a bounded queue of keys | |
| `Console` | `terminal.c`, `tty.c`, `vga.c` | |
| `Interrupts` | `kmain()`, `interrupts.c`, `idt.c`, `isr.asm`, `pic.c`, `timer.c`, the port of `keyboard.c`, over the 8259 and 8042 as environment | INSTANCE `Keyboard` |
| `Bitmap` | `bitmap.c` | INSTANCE `BitSet` |
| `BitSet` | abstract: a set of indices below a bound | |
| `List` | `list.c`, `list_for_each_safe()` | INSTANCE `ListOrder` |
| `ListOrder` | abstract: every head a sequence of nodes | |
| `Strings` | `string.c` | |
| `OpenFilesProofs` | theorems about `Namespace` (first) and `OpenFiles` | EXTENDS `OpenFiles` |
| `HeapFilesProofs`, `KeyboardProofs`, `ConsoleProofs`, `InterruptsProofs`, `BitmapProofs`, `ListProofs`, `StringsProofs` | theorems | EXTEND the module they are about |
| `MC...` | the small instances for TLC | EXTEND the module they check |

Definitions named `Bug_...` are deliberate faults: replacing the definition that
follows them by one makes the named property fail, which shows the property is
about the code.

### Namespace

State: `registered_fs` (the table), `vnode` (inode and vnode of an identifier;
they are allocated together and never separated, so one identifier stands for the
pair), `children` (the list `first_child`/`next_sibling`, newest first),
`mounted_here` (reduced to the root of the mounted file system, the only field of
`mount_t` that is read), `freed`, and `ret`.

* A path is the sequence of components `next_component()` cuts it into; `NULL`
  and paths not beginning with `/` are the one value `Relative`.
* `Stored` is what the 64-byte name field of an inode keeps of a name; look-up
  and the duplicate test compare whole names with stored ones.
* `VfsMount`, `TmpfsCreate` and `TmpfsUnlink` are the whole handlers, each with
  one operator for its refusals, in the order of the code, and one for success.
  `kmalloc()` may refuse at any call; `NodeIds` is what the heap has room for.
* `freed` nodes keep their memory, as `kfree()` does nothing; identifiers are
  not used again, as the heap never gives a block twice.
* The caller of `create` and `unlink` holds a vnode some look-up returned.  A
  vnode kept from before its file was unlinked is not used by any caller in the
  kernel, and not here.
* Only tmpfs can be mounted: it is the one `filesystem_t` of the kernel.

### OpenFiles

Adds `files`, `file`, `refcount`, `size` and `undefined`.  Every system call is
one action from trap to return: the gate of vector 0x80 is an interrupt gate, so
`IF` is clear and nothing interleaves; the kernel has one process.  `Next` also
takes any step of `Namespace` between system calls, as kernel code calling VFS
directly does in the tests.

Where the C program has no defined behaviour left, `undefined` says why and the
model ends: descriptor `OPEN_MAX` reads the word after the table
(`process_get_file()` compares with `<=`), and `read()` on a descriptor that was
opened on the bare `root_vnode` calls through a null `ops`.  `RootStaysShut` says that
only a file opened there before the first mount on `/` is exposed to that.

A file's content is reduced to its size here.

### HeapFiles

The heap is an array of cells; a cell stands for a byte of data and for the word
`krealloc()` reads in front of a block.  `kmalloc()` rounds, compares with the end
and bumps; `krealloc()` takes the cell before the block for the block's old size;
the first block of the heap has before it a cell outside the array, which may hold
anything.  `objects` are the kernel's other allocations, which fill the cells that
are later taken for sizes.  `Memories` is what the memory may hold that
`heap_init()` is given: anything, in the theorems; in the runs the same value
everywhere, or another one in every cell of a block.  `content` is a history variable: what the writes should
have left in a file.

### Keyboard and KeyQueue

`KeyboardIrq` is one step, since the gate clears `IF` and `keyboard.c` runs on one
processor.  `keyboard_getchar()` is one step per access to a variable the handler
may change: `LoadHead`, `Compare` (which reads the tail that only this side
writes), `LoadKey`, `Advance`, `Return`.  The refinement maps the cells from tail
to head to the abstract queue; the key is taken in the abstract at `Advance`.
`typed` is a history variable of both: the key decoded last, with a bit that changes at
every one, so that the same key pressed again is a change too.  A key that leaves no
trace in the queue is therefore still a step of the abstract queue, and one it allows
only when the queue is full.

### Console

One step is one turn of the loop of `shell_launch()` with one key, with everything
it writes to the screen (`tty_write`, a recursive function that puts the output one
character after the other).  A cell keeps
only who wrote it: the prompt, other output, the line being edited, or nobody.
What a line says is reduced to the commands its length allows.  `begin` and `peak`
are history variables: where the prompt left the cursor and the longest the line
has been.  The 128th character makes the program store past the buffer; the model
ends there.

### Bitmap and BitSet

A byte is the set of the offsets of its bits.  Set and clear take a range; a range
of one is the single operation, and the loop over a range is written as its effect,
as the order of the loop does not matter.  Indices are counted modulo the width of
`size_t`, so a range can come round to 0, and the abstract set says so too.  `call`
is a history variable naming the operation, so that the refinement is operation by
operation and not merely step by step.  `AnswersExact` asks about ranges of at least one
bit: of a range of none the code compares only the start.  `bitmap_size()`'s own
overflow near `SIZE_MAX` is not modelled.

### Interrupts

The whole machine below the shell.  `kmain` is the list of its calls, `step` the one
that comes next, and each call that sets up something of the interrupt path is an
action of its own (`gdt_init`, `interrupts_init`, `syscalls_init`, `InitPic`,
`timer_init`, `keyboard_init`, `interrupt_enable`); the others are `InitElsewhere`.
After it `Poll` is one access of `keyboard_getchar()` to the ring, which is an
instance of `Keyboard`, and `Trap` an `int $0x80` between two polls.

An interrupt is a frame on `stack` that goes from `Dispatch` to its handler, to
`EndOfInterrupt` and to `Iret`, a step each, so that devices request in between.  Whether
another interrupt is taken in between is not assumed: it follows from `IfInHandler`,
the kind of gate `idt_init()` sets.  `TakeInterrupt` is taken before the next
instruction of the thread, as the processor does.

The environment: `irr`, `isr` and `imr` are the registers of the first 8259, with
fixed priorities and edge-triggered requests, `port` is the output buffer of the 8042,
which raises line 1 once for every byte and holds the next one back until the port is
read.  `Spurious` is an interrupt for a line that went away: it arrives as line 7, with
nothing in service.  `Unhandled` lines belong to devices without a driver; they stay
masked once `pic_init()` ran.  Lines 8 to 15 reach the processor through line 2, which
nothing unmasks, so the second controller is left out.

`rested` is the one assumption on rates: a line that has requested does so again only
after the thread came to run.  The timer's period is 10 ms and a keyboard's byte
takes about as long, against handlers of a few microseconds.  Without it the timer
alone could keep the shell from ever polling.

A byte that is in the port when `pic_init()` runs (a key pressed while the loader ran)
loses its request and, as nothing else empties the port, keeps the keyboard silent for
good.  `early` remembers that it happened, and `EdgeNeverLost` says that it is the only
way.

### List and ListOrder

`next` and `prev` are the memory; each helper (`link`, `unlink`, `splice`, `replaced`)
is a sequence of stores in the order of the code, later stores reading earlier ones.
`owner` is a history variable: the head of the list a cell is in.  Callers keep to what
`tests/test_list.c` shows: a node is added when it is in no list, a head emptied by
`list_splice()` is set up again before it is used.  `loop` is a running
`list_for_each_safe()` with `left`, what it had to visit when it began; the body may
delete the current node or move it to another list.

There are finitely many nodes (`NodesAssumption`), as memory is finite: a walk along
`next` comes to an end.

The abstract specification has one action per function, built from the effects calls
share (`PutFirst`, `Replace`, `Splice` and so on).  `call`, a history variable of both,
names the function and its arguments, so a call is refined by its own abstract action
and no other's, nor by a stutter; which list is which is read off `next`.  A splice of an
empty list does nothing and leaves its head in use, with both `list_splice()` and
`list_splice_init()`.  `Removed` takes a node out of a sequence by its place.

### Strings

Every function is its loop, one byte a step, over a memory of `Size` bytes; `memmove()`
and `memcpy()` share the forward loop.  `Legal` is what C lets a caller do: ranges in
the memory it is called in, strings that end, and only `memmove()` with ranges that
overlap.  `was` and
`reads` are history: the memory at the call, and the addresses looked at since.
`Contract` is written from the C standard with sets of offsets, not with loops.

## 3. What the runs check

All runs check deadlock except `open_files` and `console`, whose models end where the
program's behaviour becomes undefined.  The types of `Namespace` are checked as part of
those of `OpenFiles`, the types of `Keyboard` as part of those of `Interrupts`.

| Run | Bounds | Shows |
|---|---|---|
| `namespace` | 4 nodes, 3 types for 2 slots, names `b`, `cut`, `long` (kept as `cut`), `.`, `..`; paths of at most 2 | `DirectoryExact`, `ResolutionLive`, `RegistryExact`, `OnlyCutTwice`, `FailedCallKeepsNames`, `ResolutionScope`, `MountSeen` hold |
| `mount_visible` | the same, one type | finding: a third mount on `/` succeeds and cannot be seen |
| `unique_siblings` | the same, one type | finding: a name of 64 characters or more can be created twice |
| `open_files` | 3 nodes, 3 files, `OPEN_MAX` 3, counts 0 to 2, sizes to `MaxSize` 2, counts to `MinCount` -2 | `RefcountExact`, `OffsetWithinSize`, `OneSlotPerFile`, `FdZeroDead`, `GrowthByWriter`, `RootStaysShut` hold |
| `heap_files` | 12 cells, two files, offsets to `MaxOffset` 3 | `BlocksSound` (with the types), `NeighboursUntouched`, `WrongOnlyByMove` hold |
| `content_preserved` | the same | finding: a file that grows loses what it held |
| `keyboard` | ring of 4, two keys and a release | `SlotStable` and the refinement of `KeyQueue`, liveness included, hold |
| `console` | 6 by 3 screen, line buffer of 16 | `NothingAhead`, `EchoExact`, `OutputKept` hold |
| `interrupts` | ring of 3, one key and its release, one unknown device on line 4, `TicksWrap` 2 | `InServiceExact`, `BootSafe`, `EdgeNeverLost`, `ByteFetched`, `ClockRuns` and the refinement of `Keyboard` hold |
| `list` | 3 heads, 3 nodes | `Rings`, `LoopExact` and the refinement of `ListOrder` hold |
| `strings` | 4 bytes of memory with values 0, 1, 200; characters 0, -56, 257 | `CallExact`, `ReadsInBounds` hold |
| `bitmap` | bitmaps of 0, 8 and 10 bits in 3 bytes, 5-bit `size_t` | refinement of `BitSet`, `OutsideUntouched`, `AreaExact`, `AnswersExact` hold |

Why the bounds are enough:

* *Names and nodes.* Four nodes are a root, two more mounts or files, and one more
  of either: enough for three stacked mounts, three siblings, a file under a mount
  and a failed mount that leaks a root.  Two-component paths go through every
  directory there can be, since tmpfs creates only files and a directory is always a
  root.  `long`/`cut` is the pair a 63-character cut produces.
* *Descriptors.* Three slots are the dead descriptor 0 and two live ones, which can
  share a file; a write of 2 past a size of 1 grows a file under another
  descriptor.  `MinCount` stops the reference count of a file that is closed again
  and again; below zero every close does the same.
* *Heap.* Twelve cells hold three or four blocks, so a file moves at least twice
  with objects in between.  `ALIGN` is 2 cells where the code rounds to 8 bytes,
  two words.  Contents include 0, 1, 2 (sizes smaller than, and as large as, a
  block) and 9 (larger than any).
* *Ring.* Four slots are full with three keys; head and tail come round within one
  run of the loop.
* *Screen.* A line of 15 crosses two row ends of 6 columns and the bottom of 3 rows.
* *Interrupts.* A ring of 3 is full with two keys, so the handler meets a full ring.  Four
  kinds of request can be pending at once: timer, keyboard, the unknown device before it
  is masked, noise.  `ticks` is counted modulo 2, enough to tell that it moves.
* *Lists.* Three nodes give a list with a first, a middle and a last one, three heads
  one list to splice from, one to splice to, and one that must not notice.
* *Strings.* Four bytes hold every way two ranges of up to three bytes overlap, and
  strings with and without a terminator inside a bound.  200 is negative as a `char`,
  -56 is the same byte, 257 has a bit beyond a byte.
* *Bitmap.* 0, exactly one byte, and one byte and a bit more; one byte beyond what
  the largest bitmap needs; ranges that start near the largest `size_t`.

`VIEW` leaves out variables no guard reads (`ret`, `call`): two states that differ
only there have the same successors, and action properties that mention them are
still evaluated on every step.  `SYMMETRY` in the heap runs permutes the two
files, and in the list run heads and nodes, which nothing tells apart; no liveness is
checked there.

### Findings

1. `mounted_root()` follows one level of `mounted_here`.  `vfs_mount()` on a
   directory that is a mount root chains the new root one level deeper, and
   look-up follows a fixed number of levels, so the third mount on `/` returns 0 and
   `/` still resolves to the second root (`MountVisible`).  What does hold is
   `MountSeen`: a mount shows through every path whose walk comes to the vnode mounted
   on at its end and not before.
2. `tmpfs_create()` compares the whole new name with names cut to 63 characters,
   so a long name is never found and is created again; it also hides behind the
   file whose name is its first 63 characters (`UniqueSiblings`).  `OnlyCutTwice` shows
   that two siblings share a name only if it is what some longer name is cut to.
3. `krealloc()` takes the word before the block for its size, and nobody wrote one
   there; what is copied to the new block depends on what happens to lie there
   (`ContentPreserved`).  `WrongOnlyByMove` shows that this is the only way a byte
   of a file goes wrong.

Two more facts the invariants state as they are: the first `open()` returns
descriptor 0, which every other call refuses (`FdZeroDead`), and `close()` never
frees a descriptor, so `open()` succeeds at most `OPEN_MAX` times
(`OneSlotPerFile`).

### Fairness

`Keyboard` assumes weak fairness of `keyboard_getchar()`'s steps.
`shell_launch()` is a `while (1)` around the call, on a kernel with no scheduler, and
an interrupt handler always returns to what it interrupted, so a step that is ready
is taken in the end.  No fairness is assumed of the keyboard.  `KeyQueue` states the
corresponding promise: while the queue is not empty, a key is taken.

`Interrupts` does not assume that but shows it (`ImplementsKeyboard`), from less:

* `WF(Boot \/ Poll \/ Handle)`: the processor executes something while it can.
* `SF(Poll)`: every turn of the shell's loop polls, however many interrupts and system
  calls come between two accesses.  It is strong fairness because each interrupt
  disables `Poll` for its duration.
* `WF(Tick)`: the timer, once started, never stops.

Nothing is assumed of the keyboard, of other devices or of noise.

## 4. What is proved

All theorems hold for every value of the constants that satisfies the named
assumptions of the modules (`NULL` is not a node, `Stored` keeps `.` and `..`, ring
size above 1, the bytes of a bitmap have room for its bits, and the like).  Every
invariant and every action property the passing runs check is a theorem, and so are the
refinements of `BitSet` and `ListOrder` and the safety halves of those of `KeyQueue` and
`Keyboard`.

| Theorem | Property | Argument |
|---|---|---|
| `NamespaceTyped` | `NsTypeOK` | inductive as it stands; a look-up that succeeds returns a node because every place it reads is typed |
| `RegistryStaysExact` | `RegistryExact` | the slot taken is the least free one, and the name was searched for |
| `DirectoriesExact` | `DirectoryExact` | `DirInv` below |
| `ResolutionsLive` | `ResolutionLive` | `ResInv` below, and a least counterexample along the walk |
| `LookupScope` | `ResolutionScope` | the least stage at which the walks before and after a step part is at a vnode the step was about |
| `NamesKeptOnFailure` | `FailedCallKeepsNames` | a call that fails leaves every live directory and every mount alone, so no stage of a walk changes |
| `MountsSeen` | `MountSeen` | `MountsMade` below; the walks before and after the mount are the same up to their end, and the new root has nothing mounted on it |
| `NamesCutTwice` | `OnlyCutTwice` | inductive with `DirInv`: a file made beside one of its name was looked for and not found, so its name was cut (`FittingNameFound`) |
| `FittingNamesUnique` | `UniqueSiblings` | from `NamesCutTwice`, where every name fits its field |
| `NamesSoundUnderCalls` | `DirectoryExact`, `ResolutionLive`, `RegistryExact`, `OnlyCutTwice` of `OpenFiles` | every step of the composed system is one of `NsNext` or leaves `nsState` alone (`NamesStep`) |
| `NamesMoveUnderCalls` | `ResolutionScope`, `FailedCallKeepsNames`, `MountSeen` of `OpenFiles` | the same, with the step lemmas of the theorems above |
| `OpenFilesTyped` | `TypeOK` | part of `IInv` below |
| `RefcountsExact` | `RefcountExact` | `IInv`: the set of files open on a vnode gains one file per open and loses one per last close, so its cardinality follows the count |
| `OffsetsWithinSize` | `OffsetWithinSize` | `IInv`: sizes only grow; needs that a node never stops being a file or starts being another |
| `SlotsExact` | `OneSlotPerFile` | `IInv`: a slot is filled with a file that was not there before and never emptied |
| `FdZeroUnreachable` | `FdZeroDead` | `IInv`: the file in slot 0 is in no other slot, so no call that takes a descriptor above 0 reaches it |
| `GrowthOnlyByWriter` | `GrowthByWriter` | from `IInv`, one case per system call |
| `RootKeptShut` | `RootStaysShut` | a mount stays; once `/` is covered no turn of the walk ends on the bare root, and a file once made keeps its vnode |
| `BlocksApart` | `BlocksSound` | `Placed` below, and `RoundUp(n) >= n` |
| `NeighboursSafe` | `NeighboursUntouched` | `Placed` and `Intact`: a store ends before the next owner begins |
| `WrongByMoving` | `WrongOnlyByMove` | a file's size is the length of its history, so a byte the step did not write was there before |
| `KeyboardTyped`, `SlotsStable` | `TypeOK`, `SlotStable` | modular arithmetic of the ring; the handler stops one slot short of the tail |
| `QueueRefined` | safety of `Implements` (`KeyQueue`) | the cells from tail to head gain the key typed at the handler's store, unless they are one fewer than the ring, and lose one at `Advance`; `SlotStable` says the key returned is the one lost |
| `ConsoleTyped`, `NothingShownAhead`, `EchoIsExact` | `TypeOK`, `NothingAhead`, `EchoExact` | `IInv` below |
| `OutputIsKept` | `OutputKept` | from `IInv`: output is before `begin` (`Above`), what a key stores is not; only the character at the end of the last row takes the cursor to the bottom, where the screen is cleared |
| `InterruptsTyped` | `TypeOK` | part of `IInv` below |
| `ServiceExact` | `InServiceExact` | at most one frame has `IF` off, and only its line is in service |
| `BootIsSafe` | `BootSafe` | what is set up, as a function of `step` |
| `EdgesKept` | `EdgeNeverLost` | a full port is announced in `irr` or `isr`, or its byte was `early` |
| `RingRefined` | safety of `ImplementsKeyboard` | every step of the machine is one of `Keyboard` for the ring, or none |
| `RingsKept` | `Rings` | each call is a composition of stores; one lemma per helper says it keeps `Sound` |
| `ListRefined` | `Implements` (`ListOrder`) | `Ordered` below: one lemma per helper says which sequences it makes of the ones before it, one per call that they are those of the abstract call of its name and arguments |
| `LoopsExact` | `LoopExact` | `LoopInv` below; `list_empty()` and `list_is_singular()` from the length of the chain |
| `StringsExact` | `CallExact` | `Loops` and `Pads` below: what each loop has done after `i` turns |
| `ReadsKept` | `ReadsInBounds` | from the same: an offset before which no terminator was met is within the extent |
| `BitmapTyped`, `OutsideStaysTheCallers` | `TypeOK`, `OutsideUntouched` | every write is to an index below `bits`, and the last byte is masked |
| `BitmapImplements` | `Implements` (`BitSet`) | the arithmetic `i = 8 * (i / 8) + i % 8` carries every byte operation to the index it names |
| `AnswersAreExact` | `AnswersExact` | the same arithmetic; a count is the cardinality of a union of bytes' shares |
| `AreasExact` | `AreaExact` | after each turn the loop has counted exactly the clear bits before it, back to one that is set (`RunAt`), so the first long enough run is found as it is completed |

The inductive invariants, and why each is needed:

* *Namespace.* `DirInv` says of lists what `DirectoryExact` says of nodes: what is in a
  list is a live file of that directory and in one place (`ListsExact`), and every live
  file is in its directory's list (`FilesListed`); besides, nothing was freed that was
  not made, or a new node could be born freed.  `CreateKeeps` and `UnlinkKeeps` follow
  the places through the concatenation and the cut.
* *Look-up.* `ResInv` adds `MountsLive`: what is mounted is a directory, directories are
  roots, and only files are freed.  One turn of the loop then leads from a live vnode to
  a live one.  To compare two walks, of the states before and after a step, the lemmas
  say what a search of a directory and a turn of the loop depend on, and follow the two
  stage by stage.
* *Mounts.* `MountsMade` says nothing is mounted on a node before it is made, so a new
  root is bare and one level of `mounted_here` reaches it.  A walk that meets the vnode
  mounted on at its end only takes the same turns after the mount as before
  (`StagesSame`).  The hypothesis is needed: `/f/..` comes by the root of `/` before it
  ends there, and finds no `f` once something is mounted on that root.
* *Open files.* `IInv` is the conjunction of the type invariant and four of the
  properties: `FdZeroDead` is not inductive alone, since a file could sit in slot 0 and
  in another slot; it needs `OneSlotPerFile`.  `OffsetWithinSize` needs to know that an
  open file's node is allocated, which a look-up guarantees and no step undoes.
* *Heap.* `Placed` puts every owner below `heap_current` and every two owners one before
  the other, in terms of addresses rather than sets; `Intact` says the objects hold what
  was put there; and the history of a file is as long as the file.
* *Console.* `NothingAhead` is inductive (as `AheadBlank` of any terminal): a new row and
  an erasure keep everything after the cursor blank, and the cell at it in every column
  but 0.  There it may show what was typed in the column right of the screen, where a
  backspace over the edge of a row leaves the cursor.  `EchoExact` needs where the line
  is: while its longest extent fits the row the prompt is in, the cursor is `len` cells
  after `begin` in that row, and the line's cells are exactly those in between (`OneRow`).
  `Above` says that all output is before `begin` and the cursor at least `len` cells after
  it, also in later rows, or that there is no output left; `Lengths` that `len` does not
  exceed `peak` nor the buffer.
* *Interrupts.* The boot is an invariant about `step`: which tables are loaded, which
  handlers registered, which lines unmasked after each call.  After it, frames are
  counted: `IfInHandler` makes at most one of them run with `IF` off, and only such a
  frame's line is in service.
* *List.* `Sound` of a memory and of who owns its cells is `Rings` without the
  variables, so that it can be said of the memory between two stores.  `Rings` does not
  say that a ring is one circle; `Ordered` does: the ring of each head is a sequence
  without repetition of all the nodes it owns (`Chain`).  The sequence `Elements` reads off
  `next` is shown to be that chain, and from there the refinement is about sequences:
  `Cut`, `Insert`, `Contains`.  `LoopInv` says a running loop stands on the place after
  those it has passed (`Standing`), with the rest of the chain still to visit (`Rest`) and
  `tmp` the one after it: removing the node it stands on moves neither.
* *Strings.* `Loops` has one clause per function: the bytes moved so far and nothing else
  (`Moved`, from either end), the ranges the same so far (`Same`), no terminator so far
  (`NoEnd`).  A forward `memmove()` reads a byte it has not yet overwritten because the
  destination is lower, a backward one because it is higher, the others because `Legal`
  keeps the ranges apart.  `Pads` is what the second loop of `strncpy()` starts from: the
  copy ended at a terminator or at the bound.

Recursion and iteration are handled without induction, which the library states for an
operator as parameter and no installed prover can instantiate.  That a recursive
function exists, and that each of its values has a property, is shown by the least
argument at which it would fail, which exists as the naturals are well founded: the walk
of `vfs_lookup()` (`WalkExists`, `WalkGood`, `Trail`), `tty_write`, `bitmap_find_zero_area()`'s loop and
the reading of a list off its pointers.

Left to TLC:

* liveness under fairness, which the provers do not do: the promise of `KeyQueue` in
  `Implements`, the fairness of `Keyboard` in `ImplementsKeyboard`, `ByteFetched` and
  `ClockRuns`;
* the three runs that end in a violation: a counterexample is the whole argument.

## 5. What is not modelled

* Lines 8 to 15 and `pic_mask_irq()`: nothing unmasks the line of the second controller,
  and nothing calls the function.
* Formatting (`print.c`), `assert.c`, `panic.c`, descriptor encoding (`gdt.c`,
  `idt.c`), the timer's divisor, port instructions (`io.c`): no state worth exploring,
  or hardware.
* Register passing of system calls and the user-side wrappers in
  `include/proc/syscalls.h`, save that they trap.
* `process_close_fd()` and `print_buffer()`: no caller.
* Sizes near 2^32 in the heap and in tmpfs, where `offset + count` and the rounding of
  `kmalloc()` wrap.  No caller in the repository comes near, and nothing in the code or
  its documents says what should hold there.
* That `kmain()` calls neither `heap_init()` nor `vfs_mount()`, so that in the shipped
  image every `kmalloc()` fails and no path resolves: the models start from an
  initialised heap, as the tests do.
* The loop macros of `list.h` other than `list_for_each_safe()`; they differ in what
  their body may not do.
* `user/`: a hosted program against the host's C library, which the Makefile does not
  build; the kernel has no fork, exec or wait for it.
* `include/stdint.h` and the other headers of types: no behaviour.

## 6. Plan

What is open, in the order of what it would add:

1. A second word width for the heap: `kmalloc()` and `krealloc()` with sizes modulo
   2^w, once the code says what it promises there.
2. The positive side of the third finding as an invariant: a history variable for the
   moves of a file, and that a file that never moved holds what was written.
   `WrongByMoving` says so step by step.
3. A theorem for the boot as shipped, where the heap is never set up: every call that
   allocates fails and no path resolves, once that order is meant to stay.
