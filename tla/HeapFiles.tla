----------------------------- MODULE HeapFiles -----------------------------
(***************************************************************************)
(* What is in a file: tmpfs_read() and tmpfs_write() of                    *)
(* kernel/fs/tmpfs/tmpfs.c over the bump allocator of kernel/mm/heap.c.    *)
(* The heap is an array of cells; a cell stands for a byte of data and     *)
(* also for the machine word krealloc() reads in front of a block.         *)
(* Addresses count from heap_start.                                        *)
(***************************************************************************)
EXTENDS Integers, Sequences, FiniteSets

CONSTANTS
    HeapSize,   \* heap_end - heap_start
    ALIGN,      \* kmalloc() rounds up to 8 bytes: two words
    Files,      \* the inodes of type file
    Bytes,      \* what a cell may hold
    Memories,   \* what the memory given to heap_init() may hold
    Writes,     \* non-empty sequences of bytes a caller writes
    Objects,    \* contents of the other objects the kernel allocates
    MaxOffset,  \* bound: where a caller starts a write
    NULL

ASSUME HeapAssumption ==
    /\ HeapSize \in Nat \ {0} /\ ALIGN \in Nat \ {0} /\ MaxOffset \in Nat
    /\ 0 \in Bytes /\ Bytes \subseteq Nat
    /\ Memories \subseteq [0 .. HeapSize - 1 -> Bytes]
    /\ Writes \subseteq Seq(Bytes) \ {<<>>} /\ Objects \subseteq Seq(Bytes) \ {<<>>}
    /\ NULL \notin Int

VARIABLES
    heap_current,
    mem,        \* the cells of the heap
    data,       \* inode->data
    size,       \* inode->size
    objects,    \* where the other objects are and what they hold
    content,    \* history: what the writes to a file should have left in it
    ret
vars == <<heap_current, mem, data, size, objects, content, ret>>

ENOSPC == 28
Addresses == 0 .. HeapSize - 1

\* heap_init(); nothing clears the memory it is given.
Init ==
    /\ heap_current = 0
    /\ mem \in Memories
    /\ data = [f \in Files |-> NULL]
    /\ size = [f \in Files |-> 0]
    /\ objects = {}
    /\ content = [f \in Files |-> <<>>]
    /\ ret = 0

-----------------------------------------------------------------------------
\* Mutant: a size is rounded down to the alignment.
Bug_RoundUp(n) == (n \div ALIGN) * ALIGN

RoundUp(n) == ((n + ALIGN - 1) \div ALIGN) * ALIGN

\* kmalloc(): a block that would end at heap_end is refused as well.
Fits(n) == heap_current + RoundUp(n) < HeapSize

Kmalloc(n) == Fits(n) /\ heap_current' = heap_current + RoundUp(n)

\* The word in front of a block, which krealloc() takes for the block's size
\* although kmalloc() wrote none there.  What is in front of the heap is unknown.
OldSizes(f) ==
    CASE data[f] = NULL -> {0}      \* krealloc(NULL, n) is kmalloc(n)
      [] data[f] = 0    -> Bytes
      [] OTHER          -> {mem[data[f] - 1]}

\* memcpy() of bytes to address to.
Store(m, to, bytes) ==
    [a \in Addresses |-> IF a \in to .. to + Len(bytes) - 1 THEN bytes[a - to + 1] ELSE m[a]]

\* What should be in a file after a write: the write, over what there was, with
\* zeroes in the hole between.
Written(old, offset, bytes) ==
    LET end == offset + Len(bytes) IN
    [i \in 1 .. IF end > Len(old) THEN end ELSE Len(old) |->
        IF i \in offset + 1 .. end THEN bytes[i - offset]
        ELSE IF i <= Len(old) THEN old[i] ELSE 0]

WriteInside(f, offset, bytes) ==
    /\ offset + Len(bytes) <= size[f]
    /\ mem' = Store(mem, data[f] + offset, bytes)
    /\ UNCHANGED <<heap_current, data, size>>

\* Mutant: only the written range is set, not the hole before it.
Bug_Moved(f, kept, offset, bytes) ==
    [a \in Addresses |->
        IF a \in heap_current + offset .. heap_current + offset + Len(bytes) - 1
        THEN bytes[a - heap_current - offset + 1]
        ELSE IF a \in heap_current .. heap_current + kept - 1 THEN mem[data[f] + a - heap_current]
        ELSE mem[a]]

\* The heap after krealloc() copied kept cells to the new block, memset() filled
\* the hole and memcpy() stored the bytes: a later store wins.
Moved(f, kept, offset, bytes) ==
    [a \in Addresses |->
        IF a \in heap_current + offset .. heap_current + offset + Len(bytes) - 1
        THEN bytes[a - heap_current - offset + 1]
        ELSE IF a \in heap_current + size[f] .. heap_current + offset - 1 THEN 0
        ELSE IF a \in heap_current .. heap_current + kept - 1 THEN mem[data[f] + a - heap_current]
        ELSE mem[a]]

WriteGrows(f, offset, bytes) ==
    LET required == offset + Len(bytes) IN
    /\ required > size[f]
    /\ Kmalloc(required)
    /\ \E old_size \in OldSizes(f) :
          mem' = Moved(f, IF old_size < required THEN old_size ELSE required, offset, bytes)
    /\ data' = [data EXCEPT ![f] = heap_current]
    /\ size' = [size EXCEPT ![f] = required]

\* Mutant: inode->data is overwritten before the result is tested.
Bug_WriteRefused(f, offset, bytes) ==
    /\ offset + Len(bytes) > size[f]
    /\ ~Fits(offset + Len(bytes))
    /\ data' = [data EXCEPT ![f] = NULL]
    /\ ret' = -ENOSPC
    /\ UNCHANGED <<heap_current, mem, size, objects, content>>

\* krealloc() found no room: the file stays as it is.
WriteRefused(f, offset, bytes) ==
    /\ offset + Len(bytes) > size[f]
    /\ ~Fits(offset + Len(bytes))
    /\ ret' = -ENOSPC
    /\ UNCHANGED <<heap_current, mem, data, size, objects, content>>

tmpfs_write(f, offset, bytes) ==
    \/ WriteRefused(f, offset, bytes)
    \/ /\ WriteInside(f, offset, bytes) \/ WriteGrows(f, offset, bytes)
       /\ content' = [content EXCEPT ![f] = Written(@, offset, bytes)]
       /\ ret' = Len(bytes)
       /\ UNCHANGED objects

\* An inode, a vnode, a mount or an open file: a block its owner fills.
NewObject(words) ==
    /\ Kmalloc(Len(words))
    /\ mem' = Store(mem, heap_current, words)
    /\ objects' = objects \cup {[at |-> heap_current, holds |-> words]}
    /\ UNCHANGED <<data, size, content, ret>>

\* tmpfs_read() of a whole file.
tmpfs_read(f) == [i \in 1 .. size[f] |-> mem[data[f] + i - 1]]

Next ==
    \/ \E f \in Files, offset \in 0 .. MaxOffset, bytes \in Writes : tmpfs_write(f, offset, bytes)
    \/ \E words \in Objects : NewObject(words)

Spec == Init /\ [][Next]_vars

-----------------------------------------------------------------------------
(* Properties *)

TypeOK ==
    /\ heap_current \in 0 .. HeapSize - 1
    /\ mem \in [Addresses -> Bytes]
    /\ data \in [Files -> Addresses \cup {NULL}]
    /\ size \in [Files -> Nat]
    /\ content \in [Files -> Seq(Bytes)]
    /\ ret \in Int

\* The addresses a file or another object occupies.
Block(f) == IF data[f] = NULL THEN {} ELSE data[f] .. data[f] + size[f] - 1
Place(o) == o.at .. o.at + Len(o.holds) - 1

\* Every file with bytes has a block of its own for all of them, inside what
\* kmalloc() handed out, and no object of the kernel shares it: the rounding and
\* the test against heap_end never let two owners meet.
BlocksSound ==
    /\ TypeOK
    /\ \A f \in Files : size[f] > 0 => data[f] # NULL
    /\ \A f \in Files : Block(f) \subseteq 0 .. heap_current - 1
    /\ \A f, g \in Files : f # g => Block(f) \cap Block(g) = {}
    /\ \A f \in Files, o \in objects : Block(f) \cap Place(o) = {}

NeighboursStep ==
    /\ \A g \in Files : content'[g] = content[g] =>
          \A i \in 1 .. size'[g] : tmpfs_read(g)'[i] \in {tmpfs_read(g)[i], content[g][i]}
    /\ \A o \in objects : \A i \in DOMAIN o.holds : mem'[o.at + i - 1] = o.holds[i]

\* What happens to one file, in place, by moving or by failing, is seen neither in
\* another file nor in any object next to it in the heap: a byte no write of this
\* step should change stays, or is what it ought to have been all along.
NeighboursUntouched == [][NeighboursStep]_vars

MoveStep ==
    \A f \in Files : \A i \in 1 .. size'[f] :
        tmpfs_read(f)'[i] # content'[f][i] =>
            /\ i <= size[f]
            /\ tmpfs_read(f)[i] # content[f][i] \/ data'[f] # data[f]

\* A byte of a file is wrong only if it was there, and right or wrong, when the
\* file moved to a new block: a write itself, and the zeroes of its hole, are
\* always read back as they should be.
WrongOnlyByMove == [][MoveStep]_vars

\* tests/test_tmpfs.c, test_read_write_file(): what was written before a file grew is
\* still there after it grew.
ContentPreserved == \A f \in Files : tmpfs_read(f) = content[f]
=============================================================================
