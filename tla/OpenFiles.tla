----------------------------- MODULE OpenFiles -----------------------------
(***************************************************************************)
(* Open files: the descriptor table of kernel/proc/process.c, the file     *)
(* objects of kernel/fs/file.c and the system calls of                     *)
(* kernel/proc/syscalls.c, over the name space of module Namespace.  The   *)
(* kernel has one process, kernel_proc, and a system call runs with        *)
(* interrupts off, so each action is one call from trap to return.         *)
(*                                                                         *)
(* A file's content is reduced to its size: what the bytes are is          *)
(* the subject of HeapFiles.                                               *)
(***************************************************************************)
EXTENDS Namespace

CONSTANTS
    FileIds,    \* the struct file objects the kernel heap has room for
    OPEN_MAX,
    OpenFlags,  \* access modes a program passes to open()
    Counts,     \* byte counts a program passes to read() and write()
    MaxSize,    \* bound: a file grows no further
    MinCount    \* bound: a reference count falls no further

ASSUME OpenAssumption ==
    /\ OPEN_MAX \in Nat \ {0}
    /\ NULL \notin FileIds
    /\ OpenFlags \subseteq {"O_RDONLY", "O_WRONLY", "O_RDWR", "O_ACCMODE"}
    /\ Counts \subseteq Nat /\ MaxSize \in Nat /\ MinCount \in Int

VARIABLES
    files,      \* kernel_proc.files
    file,       \* the struct file behind an identifier, NULL before its kmalloc()
    refcount,   \* of each vnode
    size,       \* of each inode
    undefined   \* "no", or why the program has no defined behaviour any more

fdVars == <<files, file, refcount, size>>
vars == <<registered_fs, vnode, children, mounted_here, freed, ret,
          files, file, refcount, size, undefined>>

EBADF == 9      EACCES == 13    EFAULT == 14    EMFILE == 24    ENOSYS == 38

Modes == {"O_RDONLY", "O_WRONLY", "O_RDWR", "O_ACCMODE"}   \* flags & O_ACCMODE
Readable == {"O_RDONLY", "O_RDWR"}
Writable == {"O_WRONLY", "O_RDWR"}

Fds == 0 .. OPEN_MAX - 1
FileType == [node : Nodes, offset : Nat, flags : Modes, refcount : Int]

ASSUME FileAssumption == NULL \notin FileType /\ IsFiniteSet(FileIds)

OpenInit ==
    /\ files = [fd \in Fds |-> NULL]
    /\ file = [f \in FileIds |-> NULL]
    /\ refcount = [n \in Nodes |-> 1]
    /\ size = [n \in NodeIds |-> 0]
    /\ undefined = "no"

Init == NsInit /\ OpenInit

-----------------------------------------------------------------------------
\* A system call that fails changes nothing but what it returns.
Fail(e) == ret' = -e /\ UNCHANGED <<fdVars, undefined>>

\* The processor does what the source does not say; the model ends here.
Undefined(why) == undefined' = why /\ UNCHANGED <<fdVars, ret>>

\* Mutant: descriptor 0 passes the test.
Bug_GetFile(fd) == IF fd \in Fds THEN files[fd] ELSE NULL

\* process_get_file(): 0 is refused although process_alloc_fd() hands it out.
GetFile(fd) == IF fd \in 1 .. OPEN_MAX - 1 THEN files[fd] ELSE NULL

\* fd == OPEN_MAX passes the test and reads the word after the table, which is
\* NULL, as GetFile has it, or anything else.
PastTable(fd) == fd = OPEN_MAX

FreeFds == {fd \in Fds : files[fd] = NULL}

\* Mutant: the next descriptor is the number of files not yet closed.
Bug_AllocFd(fd) ==
    FreeFds # {} /\ fd = Cardinality({f \in FileIds : file[f] # NULL /\ file[f].refcount > 0})

\* process_alloc_fd(): the lowest free descriptor.
AllocFd(fd) == fd \in FreeFds /\ \A other \in FreeFds : fd <= other

HeapHasFile == \E f \in FileIds : file[f] = NULL
FreshFile == CHOOSE f \in FileIds : file[f] = NULL

FileCreate(n, flags) ==
    /\ file' = [file EXCEPT ![FreshFile] =
                   [node |-> n, offset |-> 0, flags |-> flags, refcount |-> 1]]
    /\ refcount' = [refcount EXCEPT ![n] = @ + 1]

-----------------------------------------------------------------------------
SysOpenRefused(path) ==
    \/ path = NULL /\ Fail(EFAULT)
    \/ path # NULL /\ \E e \in LookupErrors : VfsLookup(path) = Failed(e) /\ Fail(e)
    \/ /\ path # NULL /\ VfsLookup(path).err = 0
       /\ \/ FreeFds = {} /\ Fail(EMFILE)
          \/ FreeFds # {} /\ Fail(ENOMEM)      \* kmalloc() refuses the struct file

SysOpenDone(path, flags) ==
    /\ path # NULL
    /\ HeapHasFile
    /\ \E n \in Nodes :
          /\ VfsLookup(path) = Found(n)
          /\ FileCreate(n, flags)
    /\ \E fd \in Fds :
          /\ AllocFd(fd)
          /\ files' = [files EXCEPT ![fd] = FreshFile]
          /\ ret' = fd
    /\ UNCHANGED <<size, undefined>>

SysOpen(path, flags) == SysOpenRefused(path) \/ SysOpenDone(path, flags)

\* Mutant: vfs_close() and file_destroy() both give the vnode back.
Bug_CloseLast(f) ==
    /\ file[f].refcount = 1
    /\ file' = [file EXCEPT ![f].refcount = -1]
    /\ refcount' = [refcount EXCEPT ![file[f].node] = @ - 2]

\* Mutant: the file is destroyed whenever its count is not positive.
Bug_CloseAgain(f) ==
    /\ file[f].refcount # 1
    /\ file[f].refcount > MinCount
    /\ file' = [file EXCEPT ![f].refcount = @ - 1]
    /\ refcount' = [refcount EXCEPT ![file[f].node] = IF @ > 0 THEN @ - 1 ELSE @]

\* vfs_close(): the descriptor keeps its file.  file_destroy() takes one more
\* off the count it finds at zero, and gives the vnode back.
CloseLast(f) ==
    /\ file[f].refcount = 1
    /\ file' = [file EXCEPT ![f].refcount = -1]
    /\ refcount' = [refcount EXCEPT ![file[f].node] = IF @ > 0 THEN @ - 1 ELSE @]

CloseAgain(f) ==
    /\ file[f].refcount # 1
    /\ file[f].refcount > MinCount
    /\ file' = [file EXCEPT ![f].refcount = @ - 1]
    /\ UNCHANGED refcount

SysClose(fd) ==
    \/ PastTable(fd) /\ Undefined("past the table")
    \/ GetFile(fd) = NULL /\ Fail(ENOENT)
    \/ /\ GetFile(fd) # NULL
       /\ CloseLast(GetFile(fd)) \/ CloseAgain(GetFile(fd))
       /\ ret' = 0
       /\ UNCHANGED <<files, size, undefined>>

-----------------------------------------------------------------------------
\* The tests sys_read()/sys_write() and vfs_read()/vfs_write() make, in order;
\* they are over, with a file in hand, when IoReady holds.
IoRefused(fd, buf, count, allowed) ==
    \/ buf = NULL /\ Fail(EFAULT)
    \/ buf # NULL /\ count = 0 /\ ret' = 0 /\ UNCHANGED <<fdVars, undefined>>
    \/ /\ buf # NULL /\ count # 0
       /\ \/ PastTable(fd) /\ Undefined("past the table")
          \/ GetFile(fd) = NULL /\ Fail(EBADF)
          \/ /\ GetFile(fd) # NULL
             /\ file[GetFile(fd)].flags \notin allowed
             /\ Fail(EACCES)

IoReady(fd, buf, count, allowed) ==
    /\ buf # NULL /\ count # 0
    /\ GetFile(fd) # NULL
    /\ file[GetFile(fd)].flags \in allowed

Advance(f, n) == file' = [file EXCEPT ![f].offset = @ + n]

\* Mutant: a read that starts inside the file is not cut at its end.
Bug_Available(f, count) == IF file[f].offset >= size[file[f].node] THEN 0 ELSE count

\* tmpfs_read(): what is left of the file, at most count bytes.
Available(f, count) ==
    LET node == file[f].node IN
    IF file[f].offset >= size[node] THEN 0
    ELSE IF file[f].offset + count > size[node] THEN size[node] - file[f].offset ELSE count

SysReadDone(f, count) ==
    \/ file[f].node = RootVnode /\ Undefined("no ops")   \* vnode->ops->read, ops NULL
    \/ IsDir(file[f].node) /\ Fail(EINVAL)
    \/ /\ IsFile(file[f].node)
       /\ Advance(f, Available(f, count))
       /\ ret' = Available(f, count)
       /\ UNCHANGED <<files, refcount, size, undefined>>

SysRead(fd, buf, count) ==
    \/ IoRefused(fd, buf, count, Readable)
    \/ IoReady(fd, buf, count, Readable) /\ SysReadDone(GetFile(fd), count)

\* Mutant: the size is set to where the write ends, further in or not.
Bug_SysWriteDone(f, count) ==
    /\ IsFile(file[f].node)
    /\ file[f].offset + count <= MaxSize
    /\ size' = [size EXCEPT ![file[f].node] = file[f].offset + count]
    /\ Advance(f, count)
    /\ ret' = count
    /\ UNCHANGED <<files, refcount, undefined>>

\* tmpfs_write(): the file grows when the write ends past its size, which
\* krealloc() may refuse.
SysWriteDone(f, count) ==
    LET node == file[f].node
        required == file[f].offset + count
    IN
    \/ node = RootVnode /\ Fail(ENOSYS)
    \/ IsDir(node) /\ Fail(EINVAL)
    \/ IsFile(node) /\ required > size[node] /\ Fail(ENOSPC)
    \/ /\ IsFile(node)
       /\ required <= MaxSize
       /\ size' = [size EXCEPT ![node] = IF required > @ THEN required ELSE @]
       /\ Advance(f, count)
       /\ ret' = count
       /\ UNCHANGED <<files, refcount, undefined>>

SysWrite(fd, buf, count) ==
    \/ IoRefused(fd, buf, count, Writable)
    \/ IoReady(fd, buf, count, Writable) /\ SysWriteDone(GetFile(fd), count)

\* syscall_dispatch() on a number it has no call for, and sys_nosys().
DispatchUnknown == Fail(1)

-----------------------------------------------------------------------------
Buffers == {"buf", NULL}
FdArgs == -1 .. OPEN_MAX + 1

Syscall ==
    \/ \E path \in AllPaths \cup {NULL}, flags \in OpenFlags : SysOpen(path, flags)
    \/ \E fd \in FdArgs : SysClose(fd)
    \/ \E fd \in FdArgs, buf \in Buffers, count \in Counts :
          SysRead(fd, buf, count) \/ SysWrite(fd, buf, count)
    \/ DispatchUnknown

Next ==
    /\ undefined = "no"
    /\ \/ NsNext /\ UNCHANGED <<fdVars, undefined>>
       \/ Syscall /\ UNCHANGED nsState

Spec == Init /\ [][Next]_vars

-----------------------------------------------------------------------------
(* Properties *)

\* Every variable keeps its type.
TypeOK ==
    /\ NsTypeOK
    /\ files \in [Fds -> FileIds \cup {NULL}]
    /\ file \in [FileIds -> FileType \cup {NULL}]
    /\ refcount \in [Nodes -> Nat]
    /\ size \in [NodeIds -> Nat]
    /\ undefined \in {"no", "past the table", "no ops"}

Opened == {f \in FileIds : file[f] # NULL}
OpenOn(n) == {f \in Opened : file[f].node = n /\ file[f].refcount > 0}

\* A vnode's count is one more than the files open on it: file_destroy() gives
\* back exactly what file_create() took, although a closed descriptor can be
\* closed again and again and its count runs through zero and below.
RefcountExact == \A n \in Nodes : refcount[n] = 1 + Cardinality(OpenOn(n))

\* No descriptor stands past the end of its file, so the hole tmpfs_write() fills
\* with zeroes cannot come from a system call; on a directory it never moves.
OffsetWithinSize ==
    \A f \in Opened :
        IF IsFile(file[f].node) THEN file[f].offset <= size[file[f].node]
        ELSE file[f].offset = 0

\* Every file object sits in exactly one descriptor, closed or not: vfs_close()
\* never gives a descriptor back, so open() succeeds at most OPEN_MAX times.
OneSlotPerFile ==
    /\ \A fd \in Fds : files[fd] # NULL => files[fd] \in Opened
    /\ \A f \in Opened : \E fd \in Fds : files[fd] = f
    /\ \A fd, other \in Fds : files[fd] = files[other] /\ files[fd] # NULL => fd = other

\* The first open() returns 0, which process_get_file() refuses: that file is never
\* read, written or closed, and pins its vnode for ever.
FdZeroDead ==
    files[0] # NULL => file[files[0]].offset = 0 /\ file[files[0]].refcount = 1

\* A file's size changes only by a write through a descriptor opened for writing,
\* which then stands at the new end; no size ever shrinks.
Growth ==
    \A n \in NodeIds : size'[n] # size[n] =>
        /\ size'[n] > size[n]
        /\ \E f \in Opened : /\ file[f].node = n /\ file[f].flags \in Writable
                            /\ file[f].offset < file'[f].offset
                            /\ file'[f].offset = size'[n]
GrowthByWriter == [][Growth]_vars

\* Once a file system is mounted on "/" and no file, closed ones included, was opened
\* on the bare root_vnode before, none ever is, and no call finds a vnode without
\* operations: vfs_read(), which does not test for them, is exposed to no other file.
RootShut == mounted_here[RootVnode] # NULL /\ \A f \in Opened : file[f].node # RootVnode
ShutStays == RootShut => RootShut' /\ undefined' # "no ops"
RootStaysShut == [][ShutStays]_vars
=============================================================================
