----------------------------- MODULE Namespace -----------------------------
(***************************************************************************)
(* The name space of the kernel: the table of file system types and the    *)
(* mounts of kernel/fs/vfs.c, over the directories of kernel/fs/tmpfs.     *)
(*                                                                         *)
(* A tmpfs inode and the vnode made for it live and die together, so one   *)
(* identifier stands for the pair.  A mount_t is reduced to its root: the  *)
(* other fields, and vnode.parent, are written and never read.  A path is  *)
(* the sequence of the components next_component() returns; every path     *)
(* that is NULL or does not begin with '/' is the one value Relative.      *)
(***************************************************************************)
EXTENDS Naturals, Integers, Sequences, FiniteSets, SequencesExt

CONSTANTS
    NodeIds,    \* the inode/vnode pairs the kernel heap has room for
    RootVnode,  \* the static root_vnode of vfs.c: no ops, no inode
    NULL,
    MaxFs,      \* MAX_FILESYSTEMS
    FsNames,    \* names of file system types
    Tmpfs,      \* the one type of the source that can be mounted
    Names,      \* path components
    Dot, DotDot,
    RootName,   \* the "/" tmpfs_mount() gives its root inode
    Stored,     \* what the 64 byte name field of an inode keeps of a name
    Paths,      \* sequences of names
    Relative    \* a path vfs_lookup() refuses to parse

ASSUME NullAssumption ==
    /\ NULL \notin NodeIds /\ NULL # RootVnode /\ NULL \notin FsNames
    /\ RootVnode \notin NodeIds
ASSUME NamesAssumption ==
    /\ {Dot, DotDot} \subseteq Names /\ Dot # DotDot
    /\ RootName \notin Names
    /\ Stored \in [Names -> Names]
    /\ Stored[Dot] = Dot /\ Stored[DotDot] = DotDot
ASSUME PathsAssumption == Paths \subseteq Seq(Names) /\ Relative \notin Paths
ASSUME FsAssumption == MaxFs \in Nat \ {0} /\ Tmpfs \in FsNames

VARIABLES
    registered_fs,  \* the table of types, NULL where a slot is free
    vnode,          \* the inode and vnode behind an identifier, NULL before its kmalloc()
    children,       \* first_child, next_sibling, ...: newest first
    mounted_here,   \* root of the file system mounted on a vnode, or NULL
    freed,          \* nodes handed to kfree(), which keeps their memory as it was
    ret             \* what the last call returned

tree == <<vnode, children, mounted_here, freed>>
nsState == <<registered_fs, vnode, children, mounted_here, freed>>
nsVars == <<registered_fs, vnode, children, mounted_here, freed, ret>>

-----------------------------------------------------------------------------
(* include/kernel/errno.h *)
EPERM == 1      ENOENT == 2     ENOMEM == 12    EEXIST == 17    ENODEV == 19
ENOTDIR == 20   EINVAL == 22    ENOSPC == 28

Nodes == NodeIds \cup {RootVnode}
Slots == 0 .. MaxFs - 1
Types == {"TMPFS_TYPE_FILE", "TMPFS_TYPE_DIR"}
Inode == [type : Types, name : Names \cup {RootName}, parent : NodeIds \cup {NULL}]

ASSUME InodeAssumption == NULL \notin Inode

Allocated == {n \in NodeIds : vnode[n] # NULL}
IsFile(n) == n \in Allocated /\ vnode[n].type = "TMPFS_TYPE_FILE"
IsDir(n) == n \in Allocated /\ vnode[n].type = "TMPFS_TYPE_DIR"

-----------------------------------------------------------------------------
(* Look-up, vfs.c and tmpfs.c *)

\* Mutant: what is mounted on a vnode is overlooked.
Bug_MountedRoot(n) == n

\* One level only: the root of a mount may itself have a mount on top of it.
MountedRoot(n) == IF mounted_here[n] = NULL THEN n ELSE mounted_here[n]

\* Indices of the children the strcmp() loops of tmpfs stop at, or pass.
Matches(dir, name) ==
    {i \in DOMAIN children[dir] : vnode[children[dir][i]].name = name}

TmpfsFindChild(dir, name) ==
    IF Matches(dir, name) = {} THEN NULL
    ELSE children[dir][Min(Matches(dir, name))]

TmpfsLookup(dir, name) ==
    IF name = Dot THEN dir
    ELSE IF name # DotDot THEN TmpfsFindChild(dir, name)
    ELSE IF vnode[dir].parent = NULL THEN dir ELSE vnode[dir].parent

LookupErrors == {EINVAL, ENOENT, ENOTDIR}

Found(n) == [err |-> 0, node |-> n]
Failed(e) == [err |-> -e, node |-> NULL]

\* One turn of the loop of vfs_lookup(); an error ends the walk.
LookupStep(at, name) ==
    LET dir   == MountedRoot(at.node)
        child == TmpfsLookup(dir, name)
    IN  IF at.err # 0 THEN at
        ELSE IF dir = RootVnode THEN Failed(ENOTDIR)
        ELSE IF child = NULL THEN Failed(ENOENT) ELSE Found(child)

\* The loop of vfs_lookup(), from the covered root on.
Walk(path) ==
    LET at[k \in 0 .. Len(path)] ==
            IF k = 0 THEN Found(MountedRoot(RootVnode)) ELSE LookupStep(at[k - 1], path[k])
    IN  at[Len(path)]

\* Mutant: the vnode the walk ends at is taken without what is mounted on it.
Bug_VfsLookup(path) ==
    IF path = Relative THEN Failed(EINVAL) ELSE Walk(path)

VfsLookup(path) ==
    IF path = Relative THEN Failed(EINVAL)
    ELSE LET end == Walk(path)
         IN  IF end.err # 0 THEN end ELSE Found(MountedRoot(end.node))

-----------------------------------------------------------------------------
NsInit ==
    /\ registered_fs = [i \in Slots |-> NULL]
    /\ vnode = [n \in NodeIds |-> NULL]
    /\ children = [n \in NodeIds |-> <<>>]
    /\ mounted_here = [n \in Nodes |-> NULL]
    /\ freed = {}
    /\ ret = 0

Return(code) == ret' = code

\* A call that reports an error leaves the name space as it was.
NsFail(e) == Return(-e) /\ UNCHANGED nsState

-----------------------------------------------------------------------------
FreeSlots == {i \in Slots : registered_fs[i] = NULL}
Registered == {registered_fs[i] : i \in Slots} \ {NULL}

\* Mutant: the table is not searched for the name before a slot is taken.
Bug_RegisterFs(fs) ==
    \/ fs = NULL /\ NsFail(EINVAL)
    \/ /\ fs # NULL /\ FreeSlots = {}
       /\ NsFail(ENOSPC)
    \/ /\ fs # NULL /\ FreeSlots # {}
       /\ registered_fs' = [registered_fs EXCEPT ![Min(FreeSlots)] = fs]
       /\ Return(0)
       /\ UNCHANGED tree

RegisterFs(fs) ==
    \/ fs = NULL /\ NsFail(EINVAL)
    \/ fs \in Registered /\ NsFail(EEXIST)
    \/ /\ fs \notin Registered \cup {NULL}
       /\ FreeSlots = {}
       /\ NsFail(ENOSPC)
    \/ /\ fs \notin Registered \cup {NULL}
       /\ FreeSlots # {}
       /\ registered_fs' = [registered_fs EXCEPT ![Min(FreeSlots)] = fs]
       /\ Return(0)
       /\ UNCHANGED tree

\* tmpfs_alloc_inode() and tmpfs_create_vnode(): the next pair of the heap,
\* which of the equal blocks it is being of no consequence.
Fresh == CHOOSE n \in NodeIds : n \notin Allocated

NewNode(type, name, parent) ==
    /\ Allocated # NodeIds
    /\ vnode' = [vnode EXCEPT ![Fresh] = [type |-> type, name |-> name, parent |-> parent]]

NewRoot == NewNode("TMPFS_TYPE_DIR", RootName, NULL)

VfsMountRefused(path, fs) ==
    \/ fs \notin Registered /\ NsFail(ENODEV)
    \/ /\ fs \in Registered
       /\ \E e \in LookupErrors : VfsLookup(path) = Failed(e) /\ NsFail(e)

\* Mutant: the root is mounted before the mount_t is known to exist.
Bug_VfsMountNoMemory(path, fs) ==
    /\ fs \in Registered /\ fs = Tmpfs
    /\ VfsLookup(path).err = 0
    /\ NewRoot
    /\ mounted_here' = [mounted_here EXCEPT ![VfsLookup(path).node] = Fresh]
    /\ Return(-ENOMEM)
    /\ UNCHANGED <<registered_fs, children, freed>>

\* kmalloc() refuses the inode or the vnode of the root; or it refuses the
\* mount_t, and the root already made is never given back.
VfsMountNoMemory(path, fs) ==
    /\ fs \in Registered /\ fs = Tmpfs
    /\ VfsLookup(path).err = 0
    /\ \/ NsFail(ENOMEM)
       \/ /\ NewRoot
          /\ Return(-ENOMEM)
          /\ UNCHANGED <<registered_fs, children, mounted_here, freed>>

VfsMountDone(path, fs) ==
    /\ fs \in Registered /\ fs = Tmpfs
    /\ VfsLookup(path).err = 0
    /\ NewRoot
    /\ mounted_here' = [mounted_here EXCEPT ![VfsLookup(path).node] = Fresh]
    /\ Return(0)
    /\ UNCHANGED <<registered_fs, children, freed>>

VfsMount(path, fs) ==
    VfsMountRefused(path, fs) \/ VfsMountNoMemory(path, fs) \/ VfsMountDone(path, fs)

-----------------------------------------------------------------------------
(* tmpfs_create() and tmpfs_unlink(); dir is a vnode some look-up returned *)

TmpfsCreateRefused(dir, name) ==
    \/ ~IsDir(dir) /\ NsFail(EINVAL)
    \/ IsDir(dir) /\ TmpfsFindChild(dir, name) # NULL /\ NsFail(EEXIST)
    \/ IsDir(dir) /\ TmpfsFindChild(dir, name) = NULL /\ NsFail(ENOMEM)

AddChild(dir, n) == children' = [children EXCEPT ![dir] = <<n>> \o @]

\* Mutant: the directory is not searched for the name before it is added.
Bug_TmpfsCreateDone(dir, name) ==
    /\ IsDir(dir)
    /\ NewNode("TMPFS_TYPE_FILE", Stored[name], dir)
    /\ AddChild(dir, Fresh)
    /\ Return(0)
    /\ UNCHANGED <<registered_fs, mounted_here, freed>>

TmpfsCreateDone(dir, name) ==
    /\ IsDir(dir)
    /\ TmpfsFindChild(dir, name) = NULL
    /\ NewNode("TMPFS_TYPE_FILE", Stored[name], dir)
    /\ AddChild(dir, Fresh)
    /\ Return(0)
    /\ UNCHANGED <<registered_fs, mounted_here, freed>>

TmpfsCreate(dir, name) == TmpfsCreateRefused(dir, name) \/ TmpfsCreateDone(dir, name)

TmpfsUnlinkRefused(dir, name) ==
    \/ ~IsDir(dir) /\ NsFail(EINVAL)
    \/ IsDir(dir) /\ name \in {Dot, DotDot} /\ NsFail(EPERM)
    \/ IsDir(dir) /\ name \notin {Dot, DotDot} /\ TmpfsFindChild(dir, name) = NULL /\ NsFail(ENOENT)

\* Mutant: the list loses the siblings before the match (prev is forgotten).
Bug_TmpfsUnlinkDone(dir, name) ==
    /\ IsDir(dir)
    /\ name \notin {Dot, DotDot}
    /\ Matches(dir, name) # {}
    /\ children' = [children EXCEPT ![dir] = SubSeq(@, Min(Matches(dir, name)) + 1, Len(@))]
    /\ freed' = freed \cup {TmpfsFindChild(dir, name)}
    /\ Return(0)
    /\ UNCHANGED <<registered_fs, vnode, mounted_here>>

\* Mutant: the file is freed and stays in the list.
Bug_TmpfsUnlinkListed(dir, name) ==
    /\ IsDir(dir)
    /\ name \notin {Dot, DotDot}
    /\ Matches(dir, name) # {}
    /\ freed' = freed \cup {TmpfsFindChild(dir, name)}
    /\ Return(0)
    /\ UNCHANGED <<registered_fs, vnode, children, mounted_here>>

\* The first match leaves the list and is freed, open or mounted on or not.
\* Only roots are directories, so the ENOTEMPTY test never succeeds.
TmpfsUnlinkDone(dir, name) ==
    /\ IsDir(dir)
    /\ name \notin {Dot, DotDot}
    /\ Matches(dir, name) # {}
    /\ children' = [children EXCEPT ![dir] = RemoveAt(@, Min(Matches(dir, name)))]
    /\ freed' = freed \cup {TmpfsFindChild(dir, name)}
    /\ Return(0)
    /\ UNCHANGED <<registered_fs, vnode, mounted_here>>

TmpfsUnlink(dir, name) == TmpfsUnlinkRefused(dir, name) \/ TmpfsUnlinkDone(dir, name)

-----------------------------------------------------------------------------
AllPaths == Paths \cup {Relative}

\* The caller of a directory operation holds the vnode a path leads to.
Resolved == {VfsLookup(path).node : path \in AllPaths} \ {NULL}

NsNext ==
    \/ \E fs \in FsNames \cup {NULL} : RegisterFs(fs)
    \/ \E path \in AllPaths, fs \in FsNames : VfsMount(path, fs)
    \/ \E dir \in Resolved, name \in Names : TmpfsCreate(dir, name) \/ TmpfsUnlink(dir, name)

NsSpec == NsInit /\ [][NsNext]_nsVars

-----------------------------------------------------------------------------
(* Properties *)

\* Every variable keeps its type; a list names allocated nodes only, and a
\* parent is a directory.
NsTypeOK ==
    /\ registered_fs \in [Slots -> FsNames \cup {NULL}]
    /\ vnode \in [NodeIds -> Inode \cup {NULL}]
    /\ children \in [NodeIds -> Seq(NodeIds)]
    /\ mounted_here \in [Nodes -> NodeIds \cup {NULL}]
    /\ freed \in SUBSET NodeIds
    /\ ret \in Int

\* Where a node is listed: the directories and positions that hold it.
Listings(n) ==
    UNION {{<<dir, i>> : i \in {i \in DOMAIN children[dir] : children[dir][i] = n}} : dir \in NodeIds}

\* Every file not yet unlinked is in the list of its own directory exactly once
\* and in no other; a root, a freed file or a node never made is in none.  The
\* pointer surgery of tmpfs_add_child() and tmpfs_unlink() loses no sibling.
DirectoryExact ==
    \A n \in NodeIds :
        IF IsFile(n) /\ n \notin freed
        THEN LET dir == vnode[n].parent IN
             IsDir(dir) /\ \E i \in DOMAIN children[dir] : Listings(n) = {<<dir, i>>}
        ELSE Listings(n) = {}

\* vfs_lookup() never hands out a vnode that was freed or never made, whatever
\* mounts, unlinks and failed calls came before; it is the static root_vnode only
\* while nothing is mounted there.
ResolutionLive ==
    \A path \in Paths :
        LET to == VfsLookup(path) IN
        to.err = 0 => IF to.node = RootVnode THEN mounted_here[RootVnode] = NULL
                      ELSE to.node \in Allocated \ freed

\* The table of types fills from the bottom and never holds a name twice, so
\* vfs_find_fs() has at most one answer, full table or not.
RegistryExact ==
    /\ \A i, j \in Slots : i < j /\ registered_fs[j] # NULL => registered_fs[i] # NULL
    /\ \A i, j \in Slots : i # j /\ registered_fs[i] = registered_fs[j] => registered_fs[i] = NULL

\* TLC evaluates the action below before its subscript; this keeps it cheap.
Moved == nsState' # nsState

\* A call that reports an error changes what no path resolves to, even when
\* vfs_mount() or tmpfs_create() ran out of memory half way.
FailedCallKeepsNames ==
    [][Moved /\ ret' < 0 => \A path \in Paths : VfsLookup(path)' = VfsLookup(path)]_nsState

\* The vnodes a path comes to, each before what is mounted there takes its place.
Trail(path) == {RootVnode} \cup {Walk(SubSeq(path, 1, k)).node : k \in 0 .. Len(path)}

\* What a step marks: the vnodes it mounts on or frees, and the files it makes.
Marked == (freed' \ freed) \cup {n \in Nodes : mounted_here'[n] # mounted_here[n]}
MadeFiles == {n \in NodeIds : IsFile(n)' /\ n \notin Allocated}

\* A path changes its meaning only by a mount on, or the unlinking of, a vnode it
\* went through, or by the creation of a file it now goes through: nothing else
\* in the name space moves when a file system is mounted or a file goes away.
ResolutionScope ==
    [][Moved => \A path \in Paths :
          VfsLookup(path)' # VfsLookup(path) =>
              Trail(path) \cap Marked # {} \/ Trail(path)' \cap MadeFiles # {}]_nsState

\* A mount is seen through every path whose walk comes to the vnode mounted on at its
\* end and not before.  The walk stops short of it only where one level of
\* mounted_here is not enough, as MountVisible shows.
MountSeen ==
    [][\A at \in Nodes : mounted_here'[at] # mounted_here[at] =>
          \A path \in Paths :
              Walk(path) = Found(at) /\ (\A k \in 0 .. Len(path) - 1 : Walk(SubSeq(path, 1, k)).node # at)
                  => VfsLookup(path)' = Found(mounted_here'[at])]_nsState

\* tests/test_vfs.c: after vfs_mount(path) == 0, vfs_lookup(path) finds the root
\* of the file system just mounted.
MountVisible ==
    [][\A at \in Nodes : mounted_here'[at] # mounted_here[at] =>
          \A path \in Paths :
              VfsLookup(path) = Found(at) => VfsLookup(path)' = Found(mounted_here'[at])]_nsState

\* tests/test_tmpfs.c: a name that exists in a directory cannot be created there
\* again (-EEXIST), so no two live siblings share a name.
UniqueSiblings ==
    \A m, n \in NodeIds \ freed :
        IsFile(m) /\ IsFile(n) /\ m # n =>
            vnode[m].parent # vnode[n].parent \/ vnode[m].name # vnode[n].name

\* Two live siblings share a name only if it is what some longer name is cut to: with
\* any other name the duplicate test of tmpfs_create() does its work.
OnlyCutTwice ==
    \A m, n \in NodeIds \ freed :
        IsFile(m) /\ IsFile(n) /\ m # n /\ vnode[m].parent = vnode[n].parent /\ vnode[m].name = vnode[n].name
            => \E name \in Names : name # Stored[name] /\ Stored[name] = vnode[m].name
=============================================================================
