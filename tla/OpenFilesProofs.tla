-------------------------- MODULE OpenFilesProofs --------------------------
(***************************************************************************)
(* Theorems about the name space and the open files, for any number of     *)
(* nodes and files, any names and paths of any length and every size of    *)
(* the descriptor table.                                                   *)
(*                                                                         *)
(* The name space is first.  Its types, its table and its directories: a   *)
(* step of the system uses only that a look-up found a node or failed.     *)
(* Then the walk of vfs_lookup(), a recursive function: it exists, its     *)
(* stages follow from each other, and each is at a live vnode, all three   *)
(* by the least stage that would be wrong.  Then what a step changes for   *)
(* a path: what a search finds, where a turn of the loop leads, and the    *)
(* whole.                                                                  *)
(*                                                                         *)
(* The files come after it.  IInv is inductive.  RefcountExact needs only  *)
(* the types.  OffsetWithinSize needs NodesPersist: a file stays a file.   *)
(* FdZeroDead needs OneSlotPerFile: what a call does to the file in        *)
(* another descriptor it does not do to the file in descriptor 0.          *)
(***************************************************************************)
EXTENDS OpenFiles, TLAPS, WellFoundedInduction, SequenceTheorems, FiniteSetTheorems

\* A non-empty set of naturals has a least element, so Min() picks a member.
LEMMA MinIsMember ==
    ASSUME NEW S, S \subseteq Nat, S # {}
    PROVE  Min(S) \in S /\ \A m \in S : Min(S) <= m
<1>1. \E x \in S : \A y \in S : ~ (<<y, x>> \in OpToRel(<, Nat))
  BY NatLessThanWellFounded, WFMin, Zenon
<1>2. PICK x \in S : \A y \in S : ~ (<<y, x>> \in OpToRel(<, Nat))
  BY <1>1
<1>3. \A y \in S : x <= y
  <2> SUFFICES ASSUME NEW y \in S PROVE x <= y
    OBVIOUS
  <2>1. ~(y < x)
    BY <1>2 DEF OpToRel
  <2> QED
    BY <2>1
<1> QED
  BY <1>3 DEF Min

\* The node kmalloc() hands out was not in use.
LEMMA FreshNode ==
    ASSUME Allocated # NodeIds
    PROVE  Fresh \in NodeIds /\ Fresh \notin Allocated
BY DEF Fresh, Allocated

\* Cutting one element out of a list leaves a list of the same elements.
LEMMA RemoveAtType ==
    ASSUME NEW S, NEW s \in Seq(S), NEW i \in 1 .. Len(s)
    PROVE  RemoveAt(s, i) \in Seq(S)
<1>1. SubSeq(s, 1, i - 1) \in Seq(S)
  BY SubSeqProperties, LenProperties
<1>2. SubSeq(s, i + 1, Len(s)) \in Seq(S)
  BY SubSeqProperties, LenProperties
<1> QED
  BY <1>1, <1>2, ConcatProperties DEF RemoveAt

\* A child that is found is a node of the directory's list.
LEMMA FoundChild ==
    ASSUME NsTypeOK, NEW dir \in NodeIds, NEW name, Matches(dir, name) # {}
    PROVE  /\ Min(Matches(dir, name)) \in 1 .. Len(children[dir])
           /\ TmpfsFindChild(dir, name) \in NodeIds
<1>1. children[dir] \in Seq(NodeIds)
  BY DEF NsTypeOK
<1>2. DOMAIN children[dir] = 1 .. Len(children[dir]) /\ Len(children[dir]) \in Nat
  BY <1>1
<1>3. Matches(dir, name) \subseteq 1 .. Len(children[dir])
  BY <1>2 DEF Matches
<1>4. Matches(dir, name) \subseteq Nat
  BY <1>2, <1>3
<1>5. Min(Matches(dir, name)) \in 1 .. Len(children[dir])
  BY <1>3, <1>4, MinIsMember
<1>6. children[dir][Min(Matches(dir, name))] \in NodeIds
  BY <1>1, <1>5, ElementOfSeq
<1> QED
  BY <1>5, <1>6 DEF TmpfsFindChild

-----------------------------------------------------------------------------
\* The initial state is well typed.
LEMMA NsInitType == NsInit => NsTypeOK
<1> SUFFICES ASSUME NsInit PROVE NsTypeOK
  OBVIOUS
<1>1. \A n \in NodeIds : children[n] \in Seq(NodeIds)
  BY EmptySeq DEF NsInit
<1> QED
  BY <1>1, NullAssumption DEF NsInit, NsTypeOK, Nodes

\* A refused call changes only the return value.
LEMMA NsFailType ==
    ASSUME NsTypeOK, NEW e \in Int, NsFail(e)
    PROVE  NsTypeOK'
BY DEF NsTypeOK, NsFail, Return, nsState

\* A new inode is well typed.
LEMMA NewNodeType ==
    ASSUME NsTypeOK, NEW type \in Types, NEW name \in Names \cup {RootName},
           NEW parent \in NodeIds \cup {NULL}, NewNode(type, name, parent)
    PROVE  vnode' \in [NodeIds -> Inode \cup {NULL}]
<1>1. [type |-> type, name |-> name, parent |-> parent] \in Inode
  BY DEF Inode
<1> QED
  BY <1>1 DEF NewNode, NsTypeOK

\* vfs_register_fs() keeps the types.
LEMMA RegisterFsType ==
    ASSUME NsTypeOK, NEW fs \in FsNames \cup {NULL}, RegisterFs(fs)
    PROVE  NsTypeOK'
<1>1. CASE fs = NULL /\ NsFail(EINVAL)
  BY <1>1, NsFailType DEF EINVAL
<1>2. CASE fs \in Registered /\ NsFail(EEXIST)
  BY <1>2, NsFailType DEF EEXIST
<1>3. CASE fs \notin Registered \cup {NULL} /\ FreeSlots = {} /\ NsFail(ENOSPC)
  BY <1>3, NsFailType DEF ENOSPC
<1>4. CASE /\ fs \notin Registered \cup {NULL}
           /\ registered_fs' = [registered_fs EXCEPT ![Min(FreeSlots)] = fs]
           /\ Return(0)
           /\ UNCHANGED tree
  <2>1. registered_fs' \in [Slots -> FsNames \cup {NULL}]
    BY <1>4 DEF NsTypeOK
  <2>2. ret' \in Int
    BY <1>4 DEF Return
  <2> QED
    BY <1>4, <2>1, <2>2 DEF NsTypeOK, tree
<1> QED
  BY <1>1, <1>2, <1>3, <1>4 DEF RegisterFs

\* vfs_mount() keeps the types, whichever of its kmalloc() calls fails.
LEMMA VfsMountType ==
    ASSUME NsTypeOK, NEW path, NEW fs, VfsMount(path, fs)
    PROVE  NsTypeOK'
<1>1. CASE VfsMountRefused(path, fs)
  <2>1. CASE NsFail(ENODEV)
    BY <2>1, NsFailType DEF ENODEV
  <2>2. CASE \E e \in LookupErrors : NsFail(e)
    BY <2>2, NsFailType DEF LookupErrors, EINVAL, ENOENT, ENOTDIR
  <2> QED
    BY <1>1, <2>1, <2>2 DEF VfsMountRefused
<1>2. CASE VfsMountNoMemory(path, fs)
  <2>1. CASE NsFail(ENOMEM)
    BY <2>1, NsFailType DEF ENOMEM
  <2>2. CASE /\ NewRoot
             /\ Return(-ENOMEM)
             /\ UNCHANGED <<registered_fs, children, mounted_here, freed>>
    <3>1. vnode' \in [NodeIds -> Inode \cup {NULL}]
      BY <2>2, NewNodeType DEF NewRoot, Types
    <3>2. ret' \in Int
      BY <2>2 DEF Return, ENOMEM
    <3> QED
      BY <2>2, <3>1, <3>2 DEF NsTypeOK
  <2> QED
    BY <1>2, <2>1, <2>2 DEF VfsMountNoMemory
<1>3. CASE VfsMountDone(path, fs)
  <2>1. Fresh \in NodeIds
    BY <1>3, FreshNode DEF VfsMountDone, NewRoot, NewNode
  <2>2. vnode' \in [NodeIds -> Inode \cup {NULL}]
    BY <1>3, NewNodeType DEF VfsMountDone, NewRoot, Types
  <2>3. mounted_here' \in [Nodes -> NodeIds \cup {NULL}]
    BY <1>3, <2>1 DEF VfsMountDone, NsTypeOK
  <2> QED
    BY <1>3, <2>2, <2>3 DEF VfsMountDone, NsTypeOK, Return
<1> QED
  BY <1>1, <1>2, <1>3 DEF VfsMount

\* tmpfs_create() keeps the types.
LEMMA TmpfsCreateType ==
    ASSUME NsTypeOK, NEW dir, NEW name \in Names, TmpfsCreate(dir, name)
    PROVE  NsTypeOK'
<1>1. CASE TmpfsCreateRefused(dir, name)
  BY <1>1, NsFailType DEF TmpfsCreateRefused, EINVAL, EEXIST, ENOMEM
<1>2. CASE TmpfsCreateDone(dir, name)
  <2>1. dir \in NodeIds /\ Fresh \in NodeIds
    BY <1>2, FreshNode DEF TmpfsCreateDone, IsDir, Allocated, NewNode
  <2>2. vnode' \in [NodeIds -> Inode \cup {NULL}]
    BY <1>2, <2>1, NewNodeType, NamesAssumption DEF TmpfsCreateDone, Types
  <2>3. <<Fresh>> \o children[dir] \in Seq(NodeIds)
    BY <2>1, ConcatProperties DEF NsTypeOK
  <2>4. children' \in [NodeIds -> Seq(NodeIds)]
    BY <1>2, <2>1, <2>3 DEF TmpfsCreateDone, AddChild, NsTypeOK
  <2> QED
    BY <1>2, <2>2, <2>4 DEF TmpfsCreateDone, NsTypeOK, Return
<1> QED
  BY <1>1, <1>2 DEF TmpfsCreate

\* tmpfs_unlink() keeps the types.
LEMMA TmpfsUnlinkType ==
    ASSUME NsTypeOK, NEW dir, NEW name \in Names, TmpfsUnlink(dir, name)
    PROVE  NsTypeOK'
<1>1. CASE TmpfsUnlinkRefused(dir, name)
  BY <1>1, NsFailType DEF TmpfsUnlinkRefused, EINVAL, EPERM, ENOENT
<1>2. CASE TmpfsUnlinkDone(dir, name)
  <2>1. dir \in NodeIds
    BY <1>2 DEF TmpfsUnlinkDone, IsDir, Allocated
  <2>2. /\ Min(Matches(dir, name)) \in 1 .. Len(children[dir])
        /\ TmpfsFindChild(dir, name) \in NodeIds
    BY <1>2, <2>1, FoundChild DEF TmpfsUnlinkDone
  <2>3. RemoveAt(children[dir], Min(Matches(dir, name))) \in Seq(NodeIds)
    BY <2>1, <2>2, RemoveAtType DEF NsTypeOK
  <2>4. children' \in [NodeIds -> Seq(NodeIds)]
    BY <1>2, <2>1, <2>3 DEF TmpfsUnlinkDone, NsTypeOK
  <2> QED
    BY <1>2, <2>2, <2>4 DEF TmpfsUnlinkDone, NsTypeOK, Return
<1> QED
  BY <1>1, <1>2 DEF TmpfsUnlink

\* Every call on the name space preserves the types.
LEMMA NsNextType == NsTypeOK /\ NsNext => NsTypeOK'
<1> SUFFICES ASSUME NsTypeOK, NsNext PROVE NsTypeOK'
  OBVIOUS
<1>1. CASE \E fs \in FsNames \cup {NULL} : RegisterFs(fs)
  BY <1>1, RegisterFsType
<1>2. CASE \E path \in AllPaths, fs \in FsNames : VfsMount(path, fs)
  BY <1>2, VfsMountType
<1>3. CASE \E dir \in Resolved, name \in Names : TmpfsCreate(dir, name) \/ TmpfsUnlink(dir, name)
  BY <1>3, TmpfsCreateType, TmpfsUnlinkType
<1> QED
  BY <1>1, <1>2, <1>3 DEF NsNext

\* No call ever rewrites an inode that exists: its type, kept name and parent are
\* fixed from tmpfs_alloc_inode() on, also after it was freed.
LEMMA NodesPersist ==
    ASSUME NsTypeOK, NsNext, NEW n \in NodeIds, vnode[n] # NULL
    PROVE  vnode'[n] = vnode[n]
<1>1. ASSUME NEW type, NEW name, NEW parent, NewNode(type, name, parent)
      PROVE  vnode'[n] = vnode[n]
  <2>1. Fresh # n
    BY <1>1, FreshNode DEF NewNode, Allocated
  <2> QED
    BY <1>1, <2>1 DEF NewNode, NsTypeOK
<1>2. CASE \E fs \in FsNames \cup {NULL} : RegisterFs(fs)
  BY <1>2 DEF RegisterFs, NsFail, nsState, tree
<1>3. CASE \E path \in AllPaths, fs \in FsNames : VfsMount(path, fs)
  BY <1>1, <1>3 DEF VfsMount, VfsMountRefused, VfsMountNoMemory, VfsMountDone, NewRoot,
       NsFail, nsState
<1>4. CASE \E dir \in Resolved, name \in Names : TmpfsCreate(dir, name)
  BY <1>1, <1>4 DEF TmpfsCreate, TmpfsCreateRefused, TmpfsCreateDone, NsFail, nsState
<1>5. CASE \E dir \in Resolved, name \in Names : TmpfsUnlink(dir, name)
  BY <1>5 DEF TmpfsUnlink, TmpfsUnlinkRefused, TmpfsUnlinkDone, NsFail, nsState
<1> QED
  BY <1>2, <1>3, <1>4, <1>5 DEF NsNext

\* The name space is well typed in every reachable state.
THEOREM NamespaceTyped == NsSpec => []NsTypeOK
<1>1. NsTypeOK /\ UNCHANGED nsVars => NsTypeOK'
  BY DEF NsTypeOK, nsVars
<1> QED
  BY <1>1, NsInitType, NsNextType, PTL DEF NsSpec

-----------------------------------------------------------------------------
(* The table of types *)

\* A refused call leaves the table alone, and so does every other call.
LEMMA RegistryKept ==
    ASSUME NsTypeOK, RegistryExact, [NsNext]_nsVars
    PROVE  RegistryExact'
<1>1. CASE UNCHANGED registered_fs
  BY <1>1 DEF RegistryExact
<1>2. ASSUME NEW fs \in FsNames, fs \notin Registered \cup {NULL}, FreeSlots # {},
             registered_fs' = [registered_fs EXCEPT ![Min(FreeSlots)] = fs]
      PROVE  RegistryExact'
  <2> DEFINE at == Min(FreeSlots)
  <2>1. at \in FreeSlots /\ \A i \in FreeSlots : at <= i
    <3>1. FreeSlots \subseteq Nat
      BY DEF FreeSlots, Slots
    <3> QED
      BY <1>2, <3>1, MinIsMember
  <2> HIDE DEF at
  <2>2. at \in Slots /\ registered_fs[at] = NULL /\ registered_fs' = [registered_fs EXCEPT ![at] = fs]
    BY <1>2, <2>1 DEF at, FreeSlots
  <2>3. fs # NULL /\ \A i \in Slots : registered_fs[i] # fs
    BY <1>2, NullAssumption DEF Registered
  <2>4. registered_fs'[at] = fs /\ \A i \in Slots \ {at} : registered_fs'[i] = registered_fs[i]
    BY <2>2 DEF NsTypeOK
  <2>5. \A i \in Slots : i < at => registered_fs[i] # NULL
    BY <2>1, <2>2 DEF FreeSlots, Slots
  <2> QED
    BY <2>2, <2>3, <2>4, <2>5 DEF RegistryExact
<1>3. CASE \E fs \in FsNames \cup {NULL} : RegisterFs(fs)
  <2>1. PICK fs \in FsNames \cup {NULL} : RegisterFs(fs)
    BY <1>3
  <2> QED
    BY <1>1, <1>2, <2>1 DEF RegisterFs, NsFail, nsState
<1>4. CASE \E path \in AllPaths, fs \in FsNames : VfsMount(path, fs)
  BY <1>1, <1>4 DEF VfsMount, VfsMountRefused, VfsMountNoMemory, VfsMountDone, NsFail, nsState
<1>5. CASE \E dir \in Resolved, name \in Names : TmpfsCreate(dir, name) \/ TmpfsUnlink(dir, name)
  BY <1>1, <1>5 DEF TmpfsCreate, TmpfsCreateRefused, TmpfsCreateDone, TmpfsUnlink,
       TmpfsUnlinkRefused, TmpfsUnlinkDone, NsFail, nsState
<1> QED
  BY <1>1, <1>3, <1>4, <1>5 DEF NsNext, nsVars

\* The table never holds a name twice and fills from the bottom, for any size of it.
THEOREM RegistryStaysExact == NsSpec => []RegistryExact
<1>1. NsInit => RegistryExact
  BY DEF NsInit, RegistryExact
<1> QED
  BY <1>1, RegistryKept, NamespaceTyped, PTL DEF NsSpec

-----------------------------------------------------------------------------
(* Directories *)

\* What is in a list, and at most once.
ListsExact ==
    /\ \A dir \in NodeIds : \A i \in 1 .. Len(children[dir]) :
          LET n == children[dir][i] IN
          /\ vnode[n] # NULL /\ vnode[n].type = "TMPFS_TYPE_FILE" /\ vnode[n].parent = dir
          /\ n \notin freed
    /\ \A dir \in NodeIds : \A i, j \in 1 .. Len(children[dir]) :
          children[dir][i] = children[dir][j] => i = j

\* What has to be in a list, and that it is.
FilesListed ==
    \A n \in NodeIds : vnode[n] # NULL /\ vnode[n].type = "TMPFS_TYPE_FILE" =>
        LET dir == vnode[n].parent IN
        /\ dir \in NodeIds /\ vnode[dir] # NULL /\ vnode[dir].type = "TMPFS_TYPE_DIR"
        /\ n \notin freed => \E i \in 1 .. Len(children[dir]) : children[dir][i] = n

\* Nothing is freed that was not made.
DirInv == ListsExact /\ FilesListed /\ \A n \in freed : vnode[n] # NULL

\* A new node with no name in a list disturbs none.
LEMMA RootKeeps ==
    ASSUME NsTypeOK, DirInv, NewRoot, UNCHANGED <<children, freed>>
    PROVE  DirInv'
<1>1. Fresh \in NodeIds /\ vnode[Fresh] = NULL
  BY FreshNode DEF NewRoot, NewNode, Allocated
<1>2. /\ vnode'[Fresh] = [type |-> "TMPFS_TYPE_DIR", name |-> RootName, parent |-> NULL]
      /\ vnode'[Fresh] # NULL
      /\ \A n \in NodeIds \ {Fresh} : vnode'[n] = vnode[n]
  <2>1. [type |-> "TMPFS_TYPE_DIR", name |-> RootName, parent |-> NULL] \in Inode
    BY DEF Inode, Types
  <2> QED
    BY <1>1, <2>1, InodeAssumption DEF NewRoot, NewNode, NsTypeOK
<1>3. \A dir \in NodeIds : \A i \in 1 .. Len(children[dir]) : children[dir][i] \in NodeIds \ {Fresh}
  <2>1. \A dir \in NodeIds : \A i \in 1 .. Len(children[dir]) : children[dir][i] \in NodeIds
    BY ElementOfSeq DEF NsTypeOK
  <2> QED
    BY <1>1, <2>1 DEF DirInv, ListsExact
<1>4. ListsExact'
  BY <1>2, <1>3 DEF DirInv, ListsExact
<1>5. FilesListed'
  BY <1>1, <1>2 DEF DirInv, FilesListed
<1>6. \A n \in freed' : vnode'[n] # NULL
  BY <1>1, <1>2 DEF DirInv, NsTypeOK
<1> QED
  BY <1>4, <1>5, <1>6 DEF DirInv

\* The first place of a name in a list, and its absence.
FoundAt(dir, name, i) ==
    /\ i \in 1 .. Len(children[dir]) /\ vnode[children[dir][i]].name = name
    /\ \A j \in 1 .. i - 1 : vnode[children[dir][j]].name # name
NotFound(dir, name) == \A i \in 1 .. Len(children[dir]) : vnode[children[dir][i]].name # name

\* The list after a file is made: it, and then the others.
LEMMA CreateShape ==
    ASSUME NsTypeOK, NEW dir, NEW name \in Names, TmpfsCreateDone(dir, name)
    PROVE  \E new \in NodeIds :
              /\ vnode[new] = NULL /\ vnode'[new] # NULL
              /\ vnode'[new] = [type |-> "TMPFS_TYPE_FILE", name |-> Stored[name], parent |-> dir]
              /\ dir \in NodeIds
              /\ \A n \in NodeIds \ {new} : vnode'[n] = vnode[n]
              /\ \A d \in NodeIds \ {dir} : children'[d] = children[d]
              /\ Len(children[dir]) \in Nat
              /\ Len(children'[dir]) = Len(children[dir]) + 1
              /\ children'[dir][1] = new
              /\ \A i \in 2 .. Len(children[dir]) + 1 : children'[dir][i] = children[dir][i - 1]
<1> DEFINE new == Fresh
<1>1. new \in NodeIds /\ vnode[new] = NULL /\ dir \in NodeIds
  BY FreshNode DEF TmpfsCreateDone, NewNode, IsDir, Allocated
<1>2. /\ vnode'[new] = [type |-> "TMPFS_TYPE_FILE", name |-> Stored[name], parent |-> dir]
      /\ vnode'[new] # NULL
      /\ \A n \in NodeIds \ {new} : vnode'[n] = vnode[n]
  <2>1. [type |-> "TMPFS_TYPE_FILE", name |-> Stored[name], parent |-> dir] \in Inode
    BY <1>1, NamesAssumption DEF Inode, Types
  <2> QED
    BY <1>1, <2>1, InodeAssumption DEF TmpfsCreateDone, NewNode, NsTypeOK
<1> HIDE DEF new
<1>3. children[dir] \in Seq(NodeIds) /\ Len(children[dir]) \in Nat
  BY <1>1, LenProperties DEF NsTypeOK
<1>4. /\ children'[dir] = <<new>> \o children[dir]
      /\ \A d \in NodeIds \ {dir} : children'[d] = children[d]
  BY <1>1 DEF TmpfsCreateDone, AddChild, NsTypeOK, new
<1>5. /\ Len(children'[dir]) = Len(children[dir]) + 1
      /\ children'[dir][1] = new
      /\ \A i \in 2 .. Len(children[dir]) + 1 : children'[dir][i] = children[dir][i - 1]
  <2>1. <<new>> \in Seq(NodeIds) /\ Len(<<new>>) = 1
    BY <1>1
  <2>2. /\ Len(children'[dir]) = 1 + Len(children[dir])
        /\ \A i \in 1 .. 1 + Len(children[dir]) :
              children'[dir][i] = IF i <= 1 THEN <<new>>[i] ELSE children[dir][i - 1]
    BY <1>1, <1>3, <1>4, <2>1, ConcatProperties
  <2> QED
    BY <1>1, <1>3, <2>2
<1> QED
  BY <1>1, <1>2, <1>3, <1>4, <1>5

\* A new file goes before the others, whose places all move by one.
LEMMA CreateKeeps ==
    ASSUME NsTypeOK, DirInv, NEW dir, NEW name \in Names, TmpfsCreateDone(dir, name)
    PROVE  DirInv'
<1>1. PICK new \in NodeIds :
              /\ vnode[new] = NULL /\ vnode'[new] # NULL
              /\ vnode'[new] = [type |-> "TMPFS_TYPE_FILE", name |-> Stored[name], parent |-> dir]
              /\ dir \in NodeIds
              /\ \A n \in NodeIds \ {new} : vnode'[n] = vnode[n]
              /\ \A d \in NodeIds \ {dir} : children'[d] = children[d]
              /\ Len(children'[dir]) = Len(children[dir]) + 1
              /\ children'[dir][1] = new
              /\ \A i \in 2 .. Len(children[dir]) + 1 : children'[dir][i] = children[dir][i - 1]
  BY SMTT(30), CreateShape
<1>2. vnode[dir] # NULL /\ vnode[dir].type = "TMPFS_TYPE_DIR"
  BY DEF TmpfsCreateDone, IsDir, Allocated
<1>3. \A d \in NodeIds : children[d] \in Seq(NodeIds) /\ Len(children[d]) \in Nat
        /\ \A i \in 1 .. Len(children[d]) : children[d][i] \in NodeIds \ {new}
  <2>1. \A d \in NodeIds : children[d] \in Seq(NodeIds) /\ Len(children[d]) \in Nat
    BY LenProperties DEF NsTypeOK
  <2>2. \A d \in NodeIds : \A i \in 1 .. Len(children[d]) : children[d][i] \in NodeIds
    BY <2>1, ElementOfSeq
  <2> QED
    BY <1>1, <2>1, <2>2 DEF DirInv, ListsExact
<1>4. ASSUME NEW k \in 1 .. Len(children'[dir])
      PROVE  /\ k \in Nat
             /\ k # 1 => k - 1 \in 1 .. Len(children[dir]) /\ children'[dir][k] = children[dir][k - 1]
  <2>1. /\ Len(children[dir]) \in Nat /\ Len(children'[dir]) = Len(children[dir]) + 1
        /\ \A i \in 2 .. Len(children[dir]) + 1 : children'[dir][i] = children[dir][i - 1]
    BY <1>1, <1>3
  <2>2. k \in Nat /\ (k # 1 => k \in 2 .. Len(children[dir]) + 1 /\ k - 1 \in 1 .. Len(children[dir]))
    BY <2>1
  <2> QED
    BY <2>1, <2>2
<1>6. freed' = freed /\ new \notin freed
  BY <1>1 DEF TmpfsCreateDone, DirInv
<1>5. ASSUME NEW d \in NodeIds, NEW k \in 1 .. Len(children[d]), NEW n, n = children[d][k]
      PROVE  /\ vnode'[n] # NULL /\ vnode'[n].type = "TMPFS_TYPE_FILE" /\ vnode'[n].parent = d
             /\ n \notin freed'
  <2>1. vnode[n] # NULL /\ vnode[n].type = "TMPFS_TYPE_FILE" /\ vnode[n].parent = d /\ n \notin freed
    BY <1>5 DEF DirInv, ListsExact
  <2>2. vnode'[n] = vnode[n]
    BY <1>1, <1>3, <1>5
  <2> QED
    BY <1>6, <2>1, <2>2
<1>7. ListsExact'
  <2>1. ASSUME NEW d \in NodeIds, NEW i \in 1 .. Len(children'[d])
        PROVE  LET n == children'[d][i] IN
               /\ vnode'[n] # NULL /\ vnode'[n].type = "TMPFS_TYPE_FILE" /\ vnode'[n].parent = d
               /\ n \notin freed'
    <3>1. CASE d # dir
      BY <1>1, <1>5, <2>1, <3>1
    <3>2. CASE d = dir /\ i = 1
      BY <1>2, <1>1, <1>6, <3>2
    <3>3. CASE d = dir /\ i # 1
      <4>1. i - 1 \in 1 .. Len(children[dir]) /\ children'[d][i] = children[dir][i - 1]
        <5>1. i \in 1 .. Len(children'[dir]) /\ children'[d] = children'[dir]
          BY <2>1, <3>3
        <5> QED
          BY <1>4, <3>3, <5>1
      <4> QED
        BY <1>5, <3>3, <4>1
    <3> QED
      BY <3>1, <3>2, <3>3
  <2>2. ASSUME NEW d \in NodeIds, NEW i \in 1 .. Len(children'[d]), NEW j \in 1 .. Len(children'[d]),
               children'[d][i] = children'[d][j]
        PROVE  i = j
    <3>1. CASE d # dir
      <4>1. children'[d] = children[d]
        BY <1>1, <3>1
      <4> QED
        BY <2>2, <4>1 DEF DirInv, ListsExact
    <3>2. CASE d = dir /\ i # 1 /\ j # 1
      <4>1. /\ i - 1 \in 1 .. Len(children[dir]) /\ children'[d][i] = children[dir][i - 1]
            /\ j - 1 \in 1 .. Len(children[dir]) /\ children'[d][j] = children[dir][j - 1]
        <5>1. i \in 1 .. Len(children'[dir]) /\ j \in 1 .. Len(children'[dir]) /\ children'[d] = children'[dir]
          BY <2>2, <3>2
        <5>2. i - 1 \in 1 .. Len(children[dir]) /\ children'[dir][i] = children[dir][i - 1]
          BY <1>4, <3>2, <5>1
        <5>3. j - 1 \in 1 .. Len(children[dir]) /\ children'[dir][j] = children[dir][j - 1]
          BY <1>4, <3>2, <5>1
        <5> QED
          BY <5>1, <5>2, <5>3
      <4>2. \A k, l \in 1 .. Len(children[dir]) :
              children[dir][k] = children[dir][l] => k = l
        BY <1>1 DEF DirInv, ListsExact
      <4>3. children[dir][i - 1] = children[dir][j - 1]
        BY <2>2, <4>1
      <4>4. i - 1 = j - 1
        BY <4>1, <4>2, <4>3
      <4>5. i \in Nat /\ j \in Nat
        BY <1>4, <2>2, <3>2
      <4> QED
        BY <4>4, <4>5
    <3>3. CASE d = dir /\ (i = 1 \/ j = 1)
      <4>1. ASSUME NEW k \in 1 .. Len(children'[dir]), k # 1 PROVE children'[dir][k] # new
        <5>1. k - 1 \in 1 .. Len(children[dir]) /\ children'[dir][k] = children[dir][k - 1]
          BY <1>4, <4>1
        <5>2. children[dir][k - 1] \in NodeIds \ {new}
          BY <1>1, <1>3, <5>1
        <5> QED
          BY <5>1, <5>2
      <4> QED
        BY <1>1, <2>2, <3>3, <4>1
    <3> QED
      BY <3>1, <3>2, <3>3
  <2> QED
    BY <2>1, <2>2 DEF ListsExact
<1>8. FilesListed'
  <2>1. ASSUME NEW n \in NodeIds, vnode'[n] # NULL, vnode'[n].type = "TMPFS_TYPE_FILE"
        PROVE  LET d == vnode'[n].parent IN
               /\ d \in NodeIds /\ vnode'[d] # NULL /\ vnode'[d].type = "TMPFS_TYPE_DIR"
               /\ n \notin freed' => \E i \in 1 .. Len(children'[d]) : children'[d][i] = n
    <3>1. CASE n = new
      <4>1. vnode'[n].parent = dir /\ dir # new /\ vnode'[dir] = vnode[dir]
        BY <1>1, <1>2, <3>1
      <4>2. 1 \in 1 .. Len(children'[dir]) /\ children'[dir][1] = n
        BY <1>1, <1>3, <3>1
      <4> QED
        BY <1>1, <1>2, <4>1, <4>2
    <3>2. CASE n # new
      <4> DEFINE d == vnode[n].parent
      <4>1. /\ vnode'[n].parent = d /\ d \in NodeIds /\ vnode[d] # NULL /\ d # new
            /\ vnode[d].type = "TMPFS_TYPE_DIR" /\ vnode'[d] = vnode[d]
            /\ n \notin freed => \E i \in 1 .. Len(children[d]) : children[d][i] = n
        BY <1>1, <1>2, <2>1, <3>2 DEF DirInv, FilesListed
      <4> HIDE DEF d
      <4>2. ASSUME n \notin freed PROVE \E i \in 1 .. Len(children'[d]) : children'[d][i] = n
        <5>1. PICK i \in 1 .. Len(children[d]) : children[d][i] = n
          BY <4>1, <4>2
        <5>2. CASE d = dir
          <6>1. i + 1 \in 2 .. Len(children[dir]) + 1 /\ (i + 1) - 1 = i
            BY <1>1, <1>3, <5>1, <5>2
          <6>2. children'[dir][i + 1] = n /\ i + 1 \in 1 .. Len(children'[dir])
            BY <1>1, <1>3, <5>1, <5>2, <6>1
          <6> QED
            BY <5>2, <6>2
        <5>3. CASE d # dir
          BY <1>1, <4>1, <5>1, <5>3
        <5> QED
          BY <5>2, <5>3
      <4> QED
        BY <1>6, <4>1, <4>2
    <3> QED
      BY <3>1, <3>2
  <2> QED
    BY <2>1 DEF FilesListed
<1>9. \A n \in freed' : vnode'[n] # NULL
  BY <1>1, <1>6 DEF DirInv, NsTypeOK
<1> QED
  BY <1>7, <1>8, <1>9 DEF DirInv

\* The places of what is left when one element is cut out.
LEMMA RemoveAtFacts ==
    ASSUME NEW S, NEW s \in Seq(S), NEW k \in 1 .. Len(s)
    PROVE  LET t == RemoveAt(s, k) IN
           /\ Len(t) = Len(s) - 1 /\ Len(s) \in Nat
           /\ \A i \in 1 .. Len(s) - 1 : t[i] = IF i < k THEN s[i] ELSE s[i + 1]
<1> DEFINE a == SubSeq(s, 1, k - 1)
           b == SubSeq(s, k + 1, Len(s))
           t == RemoveAt(s, k)
<1>1. Len(s) \in Nat /\ k \in Nat /\ k >= 1 /\ k <= Len(s)
  BY LenProperties
<1>2. \A i \in 1 .. Len(s) : s[i] \in S
  BY ElementOfSeq
<1>3. /\ a \in Seq(S) /\ Len(a) = k - 1
      /\ \A i \in 1 .. k - 1 : a[i] = s[i]
  <2>1. \A i \in 1 .. k - 1 : s[i] \in S
    BY <1>1, <1>2
  <2>2. /\ a \in Seq(S) /\ Len(a) = (IF 1 <= k - 1 THEN k - 1 - 1 + 1 ELSE 0)
        /\ \A i \in 1 .. k - 1 - 1 + 1 : a[i] = s[1 + i - 1]
    BY <1>1, <2>1, SubSeqProperties
  <2>3. k - 1 - 1 + 1 = k - 1 /\ \A i \in 1 .. k - 1 : 1 + i - 1 = i
    BY <1>1
  <2> QED
    BY <1>1, <2>2, <2>3
<1>4. /\ b \in Seq(S) /\ Len(b) = Len(s) - k
      /\ \A i \in 1 .. Len(s) - k : b[i] = s[k + i]
  <2>1. \A i \in k + 1 .. Len(s) : s[i] \in S
    BY <1>1, <1>2
  <2>2. /\ b \in Seq(S) /\ Len(b) = (IF k + 1 <= Len(s) THEN Len(s) - (k + 1) + 1 ELSE 0)
        /\ \A i \in 1 .. Len(s) - (k + 1) + 1 : b[i] = s[k + 1 + i - 1]
    BY <1>1, <2>1, SubSeqProperties
  <2>3. Len(s) - (k + 1) + 1 = Len(s) - k /\ \A i \in 1 .. Len(s) - k : k + 1 + i - 1 = k + i
    BY <1>1
  <2>4. Len(b) = Len(s) - k
    BY <1>1, <2>2
  <2>5. \A i \in 1 .. Len(s) - k : b[i] = s[k + i]
    BY <2>2, <2>3
  <2> QED
    BY <2>2, <2>4, <2>5
<1> HIDE DEF a, b
<1>5. t = a \o b
  BY DEF RemoveAt, a, b
<1> HIDE DEF t
<1>6. /\ Len(t) = Len(a) + Len(b)
      /\ \A i \in 1 .. Len(a) + Len(b) : t[i] = IF i <= Len(a) THEN a[i] ELSE b[i - Len(a)]
  <2>1. a \in Seq(S) /\ b \in Seq(S)
    BY <1>3, <1>4
  <2>2. /\ Len(a \o b) = Len(a) + Len(b)
        /\ \A i \in 1 .. Len(a) + Len(b) :
              (a \o b)[i] = IF i <= Len(a) THEN a[i] ELSE b[i - Len(a)]
    BY ONLY <2>1, ConcatProperties
  <2> QED
    BY <1>5, <2>2
<1>7. Len(t) = Len(s) - 1
  BY <1>1, <1>3, <1>4, <1>6
<1>8. ASSUME NEW i \in 1 .. Len(s) - 1
      PROVE  t[i] = IF i < k THEN s[i] ELSE s[i + 1]
  <2>1. t[i] = IF i <= k - 1 THEN a[i] ELSE b[i - (k - 1)]
    BY <1>1, <1>3, <1>4, <1>6
  <2>2. CASE i < k
    BY <1>1, <1>3, <2>1, <2>2
  <2>3. CASE i >= k
    <3>1. i - (k - 1) \in 1 .. Len(s) - k /\ k + (i - (k - 1)) = i + 1
      BY <1>1, <2>3
    <3>2. b[i - (k - 1)] = s[i + 1]
      BY <1>4, <3>1
    <3> QED
      BY <1>1, <2>1, <2>3, <3>2
  <2> QED
    BY <1>1, <2>2, <2>3
<1> QED
  BY <1>1, <1>7, <1>8 DEF t

\* The list after a file is unlinked: the others, in their order.
LEMMA UnlinkShape ==
    ASSUME NsTypeOK, NEW dir, NEW name \in Names, TmpfsUnlinkDone(dir, name)
    PROVE  /\ dir \in NodeIds /\ vnode' = vnode /\ Len(children[dir]) \in Nat
           /\ \A d \in NodeIds \ {dir} : children'[d] = children[d]
           /\ \E k \in 1 .. Len(children[dir]) :
                 /\ FoundAt(dir, name, k)
                 /\ freed' = freed \cup {children[dir][k]}
                 /\ Len(children'[dir]) = Len(children[dir]) - 1
                 /\ \A i \in 1 .. Len(children[dir]) - 1 :
                       children'[dir][i] = IF i < k THEN children[dir][i] ELSE children[dir][i + 1]
<1> DEFINE k == Min(Matches(dir, name))
<1>1. dir \in NodeIds /\ Matches(dir, name) # {}
  BY DEF TmpfsUnlinkDone, IsDir, Allocated
<1>2. children[dir] \in Seq(NodeIds) /\ Len(children[dir]) \in Nat
  BY <1>1, LenProperties DEF NsTypeOK
<1>3. k \in 1 .. Len(children[dir])
  BY <1>1, FoundChild
<1>4. TmpfsFindChild(dir, name) = children[dir][k]
  BY <1>1 DEF TmpfsFindChild
<1>5. /\ children'[dir] = RemoveAt(children[dir], k)
      /\ \A d \in NodeIds \ {dir} : children'[d] = children[d]
      /\ freed' = freed \cup {children[dir][k]} /\ vnode' = vnode
  BY <1>1, <1>4 DEF TmpfsUnlinkDone, NsTypeOK
<1>6. FoundAt(dir, name, k)
  <2>1. /\ Matches(dir, name) = {i \in 1 .. Len(children[dir]) : vnode[children[dir][i]].name = name}
        /\ Matches(dir, name) \subseteq Nat
    BY <1>1, <1>2 DEF Matches
  <2>2. k \in Matches(dir, name) /\ \A j \in Matches(dir, name) : k <= j
    BY <1>1, <2>1, MinIsMember
  <2> HIDE DEF k
  <2> QED
    BY <1>2, <1>3, <2>1, <2>2 DEF FoundAt
<1> HIDE DEF k
<1>7. LET t == RemoveAt(children[dir], k) IN
      /\ Len(t) = Len(children[dir]) - 1 /\ Len(children[dir]) \in Nat
      /\ \A i \in 1 .. Len(children[dir]) - 1 :
            t[i] = IF i < k THEN children[dir][i] ELSE children[dir][i + 1]
  BY <1>2, <1>3, RemoveAtFacts, Zenon
<1> QED
  BY <1>1, <1>2, <1>3, <1>5, <1>6, <1>7

\* What unlink cuts out is freed, was in no other place, and the rest keeps its order.
LEMMA UnlinkKeeps ==
    ASSUME NsTypeOK, DirInv, NEW dir, NEW name \in Names, TmpfsUnlinkDone(dir, name)
    PROVE  DirInv'
<1>1. /\ dir \in NodeIds /\ vnode' = vnode
      /\ \A d \in NodeIds \ {dir} : children'[d] = children[d]
  BY UnlinkShape
<1>2. PICK k \in 1 .. Len(children[dir]) :
          /\ freed' = freed \cup {children[dir][k]}
          /\ Len(children'[dir]) = Len(children[dir]) - 1
          /\ \A i \in 1 .. Len(children[dir]) - 1 :
                children'[dir][i] = IF i < k THEN children[dir][i] ELSE children[dir][i + 1]
  BY UnlinkShape
<1> DEFINE gone == children[dir][k]
           len(d) == Len(children[d])
           old(d, i) == IF d = dir /\ i >= k THEN i + 1 ELSE i
<1>3. \A d \in NodeIds : children[d] \in Seq(NodeIds) /\ len(d) \in Nat
  BY LenProperties DEF NsTypeOK
<1>4. k \in 1 .. len(dir) /\ k \in Nat /\ gone \in NodeIds
  BY <1>1, <1>3, ElementOfSeq
<1>5. freed' = freed \cup {gone} /\ Len(children'[dir]) = len(dir) - 1
  BY <1>2
<1>6. ASSUME NEW d \in NodeIds, NEW i \in 1 .. Len(children'[d])
      PROVE  /\ old(d, i) \in 1 .. len(d)
             /\ children'[d][i] = children[d][old(d, i)]
             /\ d = dir => old(d, i) # k
  <2>1. CASE d = dir
    <3>1. i \in 1 .. len(dir) - 1 /\ len(dir) \in Nat /\ k \in Nat
      BY <1>1, <1>2, <1>3, <1>4, <1>5, <1>6, <2>1
    <3>2. children'[dir][i] = IF i < k THEN children[dir][i] ELSE children[dir][i + 1]
      BY <1>1, <1>2, <1>3, <1>4, <1>5, <3>1
    <3> QED
      BY <2>1, <3>1, <3>2
  <2>2. CASE d # dir
    BY <1>1, <1>2, <1>3, <1>4, <1>5, <1>6, <2>2
  <2> QED
    BY <2>1, <2>2
<1>7. /\ vnode[gone] # NULL /\ vnode[gone].parent = dir
      /\ \A d \in NodeIds : \A i \in 1 .. len(d) :
            (children[d][i] = gone => d = dir /\ i = k)
  <2>1. vnode[gone] # NULL /\ vnode[gone].parent = dir
    BY <1>1, <1>2, <1>3, <1>4, <1>5 DEF DirInv, ListsExact
  <2>2. ASSUME NEW d \in NodeIds, NEW i \in 1 .. len(d), children[d][i] = gone
        PROVE  d = dir /\ i = k
    <3>1. vnode[children[d][i]].parent = d
      BY <2>2 DEF DirInv, ListsExact
    <3>2. d = dir
      BY <2>1, <2>2, <3>1
    <3>3. \A m, l \in 1 .. len(dir) : children[dir][m] = children[dir][l] => m = l
      BY <1>1, <1>2, <1>3, <1>4, <1>5 DEF DirInv, ListsExact
    <3> QED
      BY <1>1, <1>2, <1>3, <1>4, <1>5, <2>2, <3>2, <3>3
  <2> QED
    BY <2>1, <2>2
<1>8. ListsExact'
  <2>1. ASSUME NEW d \in NodeIds, NEW i \in 1 .. Len(children'[d])
        PROVE  LET n == children'[d][i] IN
               /\ vnode'[n] # NULL /\ vnode'[n].type = "TMPFS_TYPE_FILE" /\ vnode'[n].parent = d
               /\ n \notin freed'
    <3> DEFINE n == children[d][old(d, i)]
    <3>1. old(d, i) \in 1 .. len(d) /\ children'[d][i] = n /\ (d = dir => old(d, i) # k)
      BY <1>6
    <3> HIDE DEF old
    <3>2. n # gone
      BY <1>7, <3>1
    <3>3. /\ vnode[n] # NULL /\ vnode[n].type = "TMPFS_TYPE_FILE" /\ vnode[n].parent = d
          /\ n \notin freed
      BY <3>1 DEF DirInv, ListsExact
    <3> QED
      BY <1>1, <1>2, <1>3, <1>4, <1>5, <3>1, <3>2, <3>3
  <2>2. ASSUME NEW d \in NodeIds, NEW i \in 1 .. Len(children'[d]), NEW j \in 1 .. Len(children'[d]),
               children'[d][i] = children'[d][j]
        PROVE  i = j
    <3>1. /\ old(d, i) \in 1 .. len(d) /\ children'[d][i] = children[d][old(d, i)]
          /\ old(d, j) \in 1 .. len(d) /\ children'[d][j] = children[d][old(d, j)]
      BY <1>6
    <3>2. \A m, l \in 1 .. len(d) : children[d][m] = children[d][l] => m = l
      BY DEF DirInv, ListsExact
    <3>3. old(d, i) = old(d, j)
      <4> HIDE DEF old
      <4> QED
        BY <2>2, <3>1, <3>2
    <3>4. i \in Nat /\ j \in Nat /\ k \in Nat
      BY <1>1, <1>2, <1>3, <1>4, <1>5, <2>2
    <3> QED
      BY <3>3, <3>4
  <2> QED
    BY <2>1, <2>2 DEF ListsExact
<1>9. FilesListed'
  <2>1. ASSUME NEW n \in NodeIds, vnode'[n] # NULL, vnode'[n].type = "TMPFS_TYPE_FILE"
        PROVE  LET d == vnode'[n].parent IN
               /\ d \in NodeIds /\ vnode'[d] # NULL /\ vnode'[d].type = "TMPFS_TYPE_DIR"
               /\ n \notin freed' => \E i \in 1 .. Len(children'[d]) : children'[d][i] = n
    <3> DEFINE d == vnode[n].parent
    <3>1. /\ vnode'[n].parent = d /\ d \in NodeIds
          /\ vnode'[d] # NULL /\ vnode'[d].type = "TMPFS_TYPE_DIR"
          /\ n \notin freed => \E i \in 1 .. len(d) : children[d][i] = n
      BY <1>1, <1>2, <1>3, <1>4, <1>5, <2>1 DEF DirInv, FilesListed
    <3> HIDE DEF d
    <3>2. ASSUME n \notin freed' PROVE \E i \in 1 .. Len(children'[d]) : children'[d][i] = n
      <4>1. n \notin freed /\ n # gone
        BY <1>1, <1>2, <1>3, <1>4, <1>5, <3>2
      <4>2. PICK i \in 1 .. len(d) : children[d][i] = n
        BY <3>1, <4>1
      <4>3. CASE d # dir
        BY <1>1, <1>2, <1>3, <1>4, <1>5, <3>1, <4>2, <4>3
      <4>4. CASE d = dir
        <5>1. i # k /\ i \in 1 .. len(dir) /\ len(dir) \in Nat
          BY <1>1, <1>2, <1>3, <1>4, <1>5, <4>1, <4>2, <4>4
        <5>2. CASE i < k
          <6>1. i \in 1 .. len(dir) - 1
            BY <1>1, <1>2, <1>3, <1>4, <1>5, <5>1, <5>2
          <6>2. children'[dir][i] = n
            BY <1>1, <1>2, <1>3, <1>4, <1>5, <4>2, <4>4, <5>2, <6>1
          <6> QED
            BY <1>1, <1>2, <1>3, <1>4, <1>5, <4>4, <6>1, <6>2
        <5>3. CASE i > k
          <6>1. i - 1 \in 1 .. len(dir) - 1 /\ (i - 1) + 1 = i /\ ~(i - 1 < k)
            BY <1>1, <1>2, <1>3, <1>4, <1>5, <5>1, <5>3
          <6>2. children'[dir][i - 1] = n
            BY <1>1, <1>2, <1>3, <1>4, <1>5, <4>2, <4>4, <6>1
          <6> QED
            BY <1>1, <1>2, <1>3, <1>4, <1>5, <4>4, <6>1, <6>2
        <5> QED
          BY <1>1, <1>2, <1>3, <1>4, <1>5, <5>1, <5>2, <5>3
      <4> QED
        BY <4>3, <4>4
    <3> QED
      BY <3>1, <3>2
  <2> QED
    BY <2>1 DEF FilesListed
<1>10. \A n \in freed' : vnode'[n] # NULL
  BY <1>1, <1>2, <1>3, <1>4, <1>5, <1>7 DEF DirInv
<1> QED
  BY <1>8, <1>9, <1>10 DEF DirInv

\* Every call on the name space leaves the directories exact.
LEMMA DirKept ==
    ASSUME NsTypeOK, DirInv, [NsNext]_nsVars
    PROVE  DirInv'
<1>1. CASE UNCHANGED <<vnode, children, freed>>
  BY <1>1 DEF DirInv, ListsExact, FilesListed
<1>2. CASE \E fs \in FsNames \cup {NULL} : RegisterFs(fs)
  BY <1>1, <1>2 DEF RegisterFs, NsFail, nsState, tree
<1>3. CASE \E path \in AllPaths, fs \in FsNames : VfsMount(path, fs)
  BY <1>1, <1>3, RootKeeps DEF VfsMount, VfsMountRefused, VfsMountNoMemory, VfsMountDone,
       NsFail, nsState
<1>4. CASE \E dir \in Resolved, name \in Names : TmpfsCreate(dir, name)
  BY <1>1, <1>4, CreateKeeps DEF TmpfsCreate, TmpfsCreateRefused, NsFail, nsState
<1>5. CASE \E dir \in Resolved, name \in Names : TmpfsUnlink(dir, name)
  BY <1>1, <1>5, UnlinkKeeps DEF TmpfsUnlink, TmpfsUnlinkRefused, NsFail, nsState
<1>6. CASE UNCHANGED nsVars
  BY <1>1, <1>6 DEF nsVars
<1> QED
  BY <1>2, <1>3, <1>4, <1>5, <1>6 DEF NsNext

\* A node is listed where the invariant says, and nowhere else.
LEMMA DirExact ==
    ASSUME NsTypeOK, DirInv
    PROVE  DirectoryExact
<1>1. \A d \in NodeIds : DOMAIN children[d] = 1 .. Len(children[d])
  BY DEF NsTypeOK
<1>2. ASSUME NEW n \in NodeIds, IsFile(n), n \notin freed
      PROVE  /\ IsDir(vnode[n].parent)
             /\ \E i \in DOMAIN children[vnode[n].parent] : Listings(n) = {<<vnode[n].parent, i>>}
  <2> DEFINE dir == vnode[n].parent
  <2>1. /\ dir \in NodeIds /\ vnode[dir] # NULL /\ vnode[dir].type = "TMPFS_TYPE_DIR"
        /\ \E i \in 1 .. Len(children[dir]) : children[dir][i] = n
    BY <1>2 DEF IsFile, Allocated, DirInv, FilesListed
  <2>2. PICK i \in 1 .. Len(children[dir]) : children[dir][i] = n
    BY <2>1
  <2>3. ASSUME NEW d \in NodeIds, NEW j \in 1 .. Len(children[d]), children[d][j] = n
        PROVE  d = dir /\ j = i
    <3>1. vnode[children[d][j]].parent = d
      BY <2>3 DEF DirInv, ListsExact
    <3>2. d = dir
      BY <2>3, <3>1
    <3>3. \A m, l \in 1 .. Len(children[dir]) : children[dir][m] = children[dir][l] => m = l
      BY <2>1 DEF DirInv, ListsExact
    <3> QED
      BY <2>2, <2>3, <3>2, <3>3
  <2> HIDE DEF dir
  <2>4. Listings(n) = {<<dir, i>>}
    <3>1. <<dir, i>> \in Listings(n)
      <4>1. i \in {j \in DOMAIN children[dir] : children[dir][j] = n}
        BY <1>1, <2>1, <2>2
      <4> QED
        BY <2>1, <4>1 DEF Listings
    <3>2. ASSUME NEW x \in Listings(n) PROVE x = <<dir, i>>
      <4>1. PICK d \in NodeIds : x \in {<<d, j>> : j \in {j \in DOMAIN children[d] : children[d][j] = n}}
        BY <3>2 DEF Listings
      <4>2. PICK j \in DOMAIN children[d] : children[d][j] = n /\ x = <<d, j>>
        BY <4>1
      <4>3. d = dir /\ j = i
        BY <1>1, <2>3, <4>2
      <4> QED
        BY <4>2, <4>3
    <3> QED
      BY <3>1, <3>2
  <2>5. IsDir(dir) /\ i \in DOMAIN children[dir]
    BY <1>1, <2>1, <2>2 DEF IsDir, Allocated
  <2> QED
    BY <2>4, <2>5 DEF dir
<1>3. ASSUME NEW n \in NodeIds, ~(IsFile(n) /\ n \notin freed)
      PROVE  Listings(n) = {}
  <2>1. \A d \in NodeIds : \A i \in 1 .. Len(children[d]) : children[d][i] # n
    BY <1>3 DEF DirInv, ListsExact, IsFile, Allocated
  <2> QED
    BY <1>1, <2>1 DEF Listings
<1> QED
  BY <1>2, <1>3 DEF DirectoryExact

\* Every live file is in its own directory's list once and in no other, for any
\* number of nodes and names: no create, unlink, mount or failed call loses one.
THEOREM DirectoriesExact == NsSpec => []DirectoryExact
<1>1. NsInit => DirInv
  BY DEF NsInit, DirInv, ListsExact, FilesListed
<1>2. NsTypeOK /\ DirInv => DirectoryExact
  BY DirExact
<1> QED
  BY <1>1, <1>2, DirKept, NamespaceTyped, PTL DEF NsSpec

-----------------------------------------------------------------------------
(* What a path resolves to *)

Live(n) == n \in Allocated \ freed
Reachable(n) == Live(n) \/ (n = RootVnode /\ mounted_here[RootVnode] = NULL)
Good(at) == at.err = 0 => Reachable(at.node)

\* Directories are roots, and only files are ever freed.
MountsLive ==
    /\ \A n \in Nodes : mounted_here[n] # NULL => IsDir(mounted_here[n])
    /\ \A n \in freed : vnode[n].type = "TMPFS_TYPE_FILE"
    /\ \A n \in NodeIds : IsDir(n) => vnode[n].parent = NULL

ResInv == NsTypeOK /\ DirInv /\ MountsLive

-----------------------------------------------------------------------------
(* One stage of the walk *)

\* The file system mounted on a vnode that can be reached can be reached.
LEMMA MountedRootReachable ==
    ASSUME ResInv, NEW n, Reachable(n)
    PROVE  Reachable(MountedRoot(n))
<1>1. n \in Nodes
  BY DEF Reachable, Live, Allocated, Nodes
<1>2. ASSUME mounted_here[n] # NULL PROVE Live(mounted_here[n])
  BY <1>1, <1>2 DEF ResInv, MountsLive, IsDir, Live
<1> QED
  BY <1>2 DEF Reachable, MountedRoot

\* So is the root vnode, or what is mounted there.
LEMMA RootReachable ==
    ASSUME ResInv
    PROVE  Reachable(MountedRoot(RootVnode))
<1>1. ASSUME mounted_here[RootVnode] # NULL PROVE Live(mounted_here[RootVnode])
  BY <1>1 DEF ResInv, MountsLive, IsDir, Live, Nodes
<1> QED
  BY <1>1 DEF Reachable, MountedRoot

\* The child, the directory itself and its parent are live when the directory is.
LEMMA LookupReachable ==
    ASSUME ResInv, NEW dir, Live(dir), NEW name, TmpfsLookup(dir, name) # NULL
    PROVE  Live(TmpfsLookup(dir, name))
<1>1. dir \in NodeIds /\ vnode[dir] # NULL
  BY DEF Live, Allocated
<1>2. ASSUME vnode[dir].parent # NULL PROVE Live(vnode[dir].parent)
  <2>1. vnode[dir].type = "TMPFS_TYPE_FILE"
    BY <1>1, <1>2 DEF ResInv, MountsLive, NsTypeOK, Inode, Types, IsDir, Allocated
  <2>2. /\ vnode[dir].parent \in NodeIds /\ vnode[vnode[dir].parent] # NULL
        /\ vnode[vnode[dir].parent].type = "TMPFS_TYPE_DIR"
    BY <1>1, <2>1 DEF ResInv, DirInv, FilesListed
  <2> QED
    BY <2>2 DEF ResInv, MountsLive, Live, Allocated
<1>3. ASSUME TmpfsFindChild(dir, name) # NULL PROVE Live(TmpfsFindChild(dir, name))
  <2>1. Matches(dir, name) # {}
    BY <1>3 DEF TmpfsFindChild
  <2>2. /\ Min(Matches(dir, name)) \in 1 .. Len(children[dir])
        /\ TmpfsFindChild(dir, name) \in NodeIds
        /\ TmpfsFindChild(dir, name) = children[dir][Min(Matches(dir, name))]
    BY <1>1, <2>1, FoundChild DEF ResInv, TmpfsFindChild
  <2>3. \A i \in 1 .. Len(children[dir]) :
            vnode[children[dir][i]] # NULL /\ children[dir][i] \notin freed
    BY <1>1 DEF ResInv, DirInv, ListsExact
  <2> QED
    BY <2>2, <2>3 DEF Live, Allocated
<1>4. CASE name = Dot
  BY <1>4 DEF TmpfsLookup
<1>5. CASE name # Dot /\ name = DotDot
  BY <1>2, <1>5 DEF TmpfsLookup
<1>6. CASE name # Dot /\ name # DotDot
  BY <1>3, <1>6 DEF TmpfsLookup
<1> QED
  BY <1>4, <1>5, <1>6

\* A turn of the loop leads from a live vnode to a live one, or fails.
LEMMA StepGood ==
    ASSUME ResInv, NEW at, Good(at), NEW name
    PROVE  Good(LookupStep(at, name))
<1> DEFINE dir == MountedRoot(at.node)
<1>1. CASE at.err # 0
  BY <1>1 DEF LookupStep, Good
<1>2. CASE at.err = 0 /\ (dir = RootVnode \/ TmpfsLookup(dir, name) = NULL)
  BY <1>2 DEF LookupStep, Good, Failed, ENOTDIR, ENOENT
<1>3. CASE at.err = 0 /\ dir # RootVnode /\ TmpfsLookup(dir, name) # NULL
  <2>1. Live(dir)
    BY <1>3, MountedRootReachable DEF Good, Reachable
  <2>2. Live(TmpfsLookup(dir, name))
    BY <1>3, <2>1, LookupReachable
  <2>3. LookupStep(at, name) = Found(TmpfsLookup(dir, name))
    BY <1>3 DEF LookupStep
  <2> QED
    BY <2>2, <2>3 DEF Good, Found, Reachable
<1> QED
  BY <1>1, <1>2, <1>3

-----------------------------------------------------------------------------
(* The whole walk *)

WalkStage(path, f, k) ==
    IF k = 0 THEN Found(MountedRoot(RootVnode)) ELSE LookupStep(f[k - 1], path[k])

\* A function with the stages of the walk exists for every number of turns.
LEMMA WalkExists ==
    ASSUME NEW path, NEW n \in Nat
    PROVE  \E f : f = [k \in 0 .. n |-> WalkStage(path, f, k)]
<1> DEFINE Some(m) == \E f : f = [k \in 0 .. m |-> WalkStage(path, f, k)]
           bad == {m \in Nat : ~Some(m)}
<1>1. ASSUME bad # {} PROVE FALSE
  <2> DEFINE m == Min(bad)
  <2>1. bad \subseteq Nat
    OBVIOUS
  <2>2. m \in bad /\ \A y \in bad : m <= y
    <3> HIDE DEF bad
    <3> QED
      BY <1>1, <2>1, MinIsMember
  <2> HIDE DEF m
  <2>3. m \in Nat /\ ~Some(m)
    BY <2>2
  <2>4. CASE m = 0
    <3> DEFINE f == [k \in 0 .. 0 |-> Found(MountedRoot(RootVnode))]
    <3>1. f = [k \in 0 .. 0 |-> WalkStage(path, f, k)]
      <4>1. \A k \in 0 .. 0 : WalkStage(path, f, k) = Found(MountedRoot(RootVnode))
        BY DEF WalkStage
      <4> QED
        BY <4>1
    <3> QED
      BY <2>3, <2>4, <3>1
  <2>5. CASE m # 0
    <3>1. m - 1 \in Nat /\ m - 1 \notin bad
      BY <2>1, <2>2, <2>3, <2>5
    <3>2. PICK f : f = [k \in 0 .. m - 1 |-> WalkStage(path, f, k)]
      BY <3>1
    <3> DEFINE g == [k \in 0 .. m |-> IF k = m THEN WalkStage(path, f, m) ELSE f[k]]
    <3>3. ASSUME NEW k \in 0 .. m PROVE g[k] = WalkStage(path, g, k)
      <4>1. CASE k = 0
        <5>1. g[0] = f[0] /\ 0 \in 0 .. m - 1
          BY <2>3, <2>5
        <5>2. f[0] = WalkStage(path, f, 0)
          BY <3>2, <5>1
        <5> QED
          BY <4>1, <5>1, <5>2 DEF WalkStage
      <4>2. CASE k # 0
        <5>1. k - 1 \in 0 .. m - 1 /\ k - 1 \in 0 .. m /\ k - 1 # m
          BY <2>3, <3>3, <4>2
        <5>2. g[k - 1] = f[k - 1]
          BY <5>1
        <5> HIDE DEF g
        <5>3. WalkStage(path, g, k) = WalkStage(path, f, k)
          BY <4>2, <5>2 DEF WalkStage
        <5>4. g[k] = IF k = m THEN WalkStage(path, f, m) ELSE f[k]
          BY <3>3 DEF g
        <5>5. k # m => k \in 0 .. m - 1
          BY <2>3, <3>3
        <5>6. k # m => f[k] = WalkStage(path, f, k)
          BY <3>2, <5>5
        <5> QED
          BY <5>3, <5>4, <5>6
      <4> QED
        BY <4>1, <4>2
    <3>4. g = [k \in 0 .. m |-> WalkStage(path, g, k)]
      <4>1. g = [k \in 0 .. m |-> g[k]]
        OBVIOUS
      <4> HIDE DEF g
      <4> QED
        BY <3>3, <4>1
    <3> HIDE DEF g
    <3> QED
      BY <2>3, <3>4
  <2> QED
    BY <2>4, <2>5
<1> QED
  BY <1>1

\* The walk along the first k components of a path.
Stage(path, k) == Walk(SubSeq(path, 1, k))

\* Its stages follow from each other, and the last is the whole walk.
WalkFacts ==
    \A path \in Paths :
        /\ Stage(path, 0) = Found(MountedRoot(RootVnode))
        /\ \A k \in 1 .. Len(path) : \A at :
              Stage(path, k - 1) = at => Stage(path, k) = LookupStep(at, path[k])
        /\ Walk(path) = Stage(path, Len(path))

\* The function that is the walk, for paths of any length.
LEMMA WalkFunction ==
    ASSUME NEW path, Len(path) \in Nat
    PROVE  \E at : /\ Walk(path) = at[Len(path)]
                   /\ \A k \in 0 .. Len(path) : at[k] = WalkStage(path, at, k)
<1> DEFINE at == CHOOSE f : f = [k \in 0 .. Len(path) |-> WalkStage(path, f, k)]
<1>1. at = [k \in 0 .. Len(path) |-> WalkStage(path, at, k)]
  BY WalkExists
<1>2. Walk(path) = at[Len(path)]
  BY DEF Walk, WalkStage
<1> HIDE DEF at
<1>3. \A k \in 0 .. Len(path) : at[k] = WalkStage(path, at, k)
  BY <1>1
<1> QED
  BY <1>2, <1>3

\* Two walks that see the same components agree.
LEMMA SameWalk ==
    ASSUME NEW path, NEW prefix, NEW f, NEW g, NEW n \in Nat,
           \A k \in 0 .. n : f[k] = WalkStage(path, f, k),
           \A k \in 0 .. n : g[k] = WalkStage(prefix, g, k),
           \A k \in 1 .. n : prefix[k] = path[k]
    PROVE  f[n] = g[n]
<1> DEFINE bad == {k \in 0 .. n : f[k] # g[k]}
<1>1. ASSUME bad # {} PROVE FALSE
  <2> DEFINE k == Min(bad)
  <2>1. bad \subseteq Nat
    OBVIOUS
  <2>2. k \in bad /\ \A y \in bad : k <= y
    <3> HIDE DEF bad
    <3> QED
      BY <1>1, <2>1, MinIsMember
  <2> HIDE DEF k
  <2>3. k \in 0 .. n /\ f[k] # g[k]
    BY <2>2
  <2>4. k # 0
    BY <2>3 DEF WalkStage
  <2>5. k \in 1 .. n /\ k - 1 \in 0 .. n /\ k - 1 \notin bad
    BY <2>2, <2>3, <2>4
  <2>6. f[k - 1] = g[k - 1]
    BY <2>5
  <2>7. f[k] = LookupStep(f[k - 1], path[k]) /\ g[k] = LookupStep(g[k - 1], prefix[k])
    BY <2>3, <2>4 DEF WalkStage
  <2> QED
    BY <2>3, <2>5, <2>6, <2>7
<1> QED
  BY <1>1

\* The stages of every walk.
LEMMA WalkStages == WalkFacts
<1> SUFFICES ASSUME NEW path \in Paths
             PROVE  /\ Stage(path, 0) = Found(MountedRoot(RootVnode))
                    /\ \A k \in 1 .. Len(path) :
                          Stage(path, k) = LookupStep(Stage(path, k - 1), path[k])
                    /\ Walk(path) = Stage(path, Len(path))
  BY DEF WalkFacts
<1>1. path \in Seq(Names) /\ Len(path) \in Nat
  BY PathsAssumption, LenProperties
<1>2. PICK at : /\ Walk(path) = at[Len(path)]
                /\ \A k \in 0 .. Len(path) : at[k] = WalkStage(path, at, k)
  BY <1>1, WalkFunction
<1>3. ASSUME NEW k \in 0 .. Len(path)
      PROVE  Stage(path, k) = at[k]
  <2> DEFINE prefix == SubSeq(path, 1, k)
  <2>1. k \in Nat /\ k <= Len(path)
    BY <1>1
  <2>2. Len(prefix) = k /\ \A j \in 1 .. k : prefix[j] = path[j]
    BY <1>1, <2>1
  <2> HIDE DEF prefix
  <2>3. PICK f : /\ Walk(prefix) = f[k]
                 /\ \A j \in 0 .. k : f[j] = WalkStage(prefix, f, j)
    BY <2>1, <2>2, WalkFunction
  <2>4. \A j \in 0 .. k : at[j] = WalkStage(path, at, j)
    BY <1>1, <1>2, <2>1
  <2>5. at[k] = f[k]
    BY SMTT(30), <2>1, <2>2, <2>3, <2>4, SameWalk
  <2> QED
    BY <2>3, <2>5 DEF Stage, prefix
<1>4. Stage(path, 0) = Found(MountedRoot(RootVnode))
  BY <1>1, <1>2, <1>3 DEF WalkStage
<1>5. ASSUME NEW k \in 1 .. Len(path)
      PROVE  Stage(path, k) = LookupStep(Stage(path, k - 1), path[k])
  <2>1. k \in 0 .. Len(path) /\ k - 1 \in 0 .. Len(path) /\ k # 0
    BY <1>1
  <2> QED
    BY <1>2, <1>3, <2>1 DEF WalkStage
<1>6. Walk(path) = Stage(path, Len(path))
  BY <1>1, <1>2, <1>3
<1> QED
  BY <1>4, <1>5, <1>6

\* And of every walk in the state after a step.
LEMMA WalkStagesNext == WalkFacts'
BY WalkStages, PTL

\* Every stage is at a live vnode, or past a failure.
LEMMA StagesGood ==
    ASSUME ResInv, NEW path \in Paths, NEW n \in 0 .. Len(path)
    PROVE  Good(Stage(path, n))
<1>1. Len(path) \in Nat
  BY PathsAssumption, LenProperties
<1> DEFINE bad == {k \in 0 .. Len(path) : ~Good(Stage(path, k))}
<1>2. ASSUME bad # {} PROVE FALSE
  <2> DEFINE k == Min(bad)
  <2>1. bad \subseteq Nat
    BY <1>1
  <2>2. k \in bad /\ \A y \in bad : k <= y
    <3> HIDE DEF bad
    <3> QED
      BY <1>2, <2>1, MinIsMember
  <2> HIDE DEF k
  <2>3. k \in 0 .. Len(path) /\ ~Good(Stage(path, k))
    BY <2>2
  <2>4. CASE k = 0
    BY <2>3, <2>4, RootReachable, WalkStages DEF WalkFacts, Good, Found
  <2>5. CASE k # 0
    <3>1. k \in 1 .. Len(path) /\ k - 1 \in 0 .. Len(path) /\ k - 1 \notin bad
      BY <1>1, <2>2, <2>3, <2>5
    <3>2. Good(Stage(path, k - 1))
      BY <3>1
    <3>3. Good(LookupStep(Stage(path, k - 1), path[k]))
      BY <3>2, StepGood
    <3>4. Stage(path, k) = LookupStep(Stage(path, k - 1), path[k])
      BY <3>1, WalkStages DEF WalkFacts
    <3> QED
      BY <2>3, <3>3, <3>4
  <2> QED
    BY <2>4, <2>5
<1> QED
  BY <1>2

\* So is the last one.
LEMMA WalkGood ==
    ASSUME ResInv, NEW path \in Paths
    PROVE  Good(Walk(path))
<1>1. Len(path) \in 0 .. Len(path)
  BY PathsAssumption, LenProperties
<1> QED
  BY <1>1, StagesGood, WalkStages DEF WalkFacts

\* A look-up that succeeds ends at a live vnode.
LEMMA LookupGood ==
    ASSUME ResInv, NEW path \in Paths, VfsLookup(path).err = 0
    PROVE  Reachable(VfsLookup(path).node)
<1>1. path # Relative
  BY PathsAssumption
<1>2. CASE Walk(path).err # 0
  BY <1>1, <1>2 DEF VfsLookup
<1>3. CASE Walk(path).err = 0
  <2>1. Reachable(MountedRoot(Walk(path).node))
    BY <1>3, WalkGood, MountedRootReachable DEF Good
  <2> QED
    BY <1>1, <1>3, <2>1 DEF VfsLookup, Found
<1> QED
  BY <1>2, <1>3

-----------------------------------------------------------------------------
(* The invariant *)

\* Making a node disturbs no mount and no directory.
LEMMA NewNodeKeeps ==
    ASSUME ResInv, NEW type \in Types, NEW name \in Names \cup {RootName},
           NEW parent \in NodeIds \cup {NULL}, NewNode(type, name, parent),
           type = "TMPFS_TYPE_DIR" => parent = NULL, freed' = freed
    PROVE  /\ Fresh \in NodeIds
           /\ vnode'[Fresh] # NULL /\ vnode'[Fresh].type = type
           /\ \A n \in NodeIds : IsDir(n) => IsDir(n)'
           /\ \A n \in freed' : vnode'[n].type = "TMPFS_TYPE_FILE"
           /\ \A n \in NodeIds : IsDir(n)' => vnode'[n].parent = NULL
<1>1. Fresh \in NodeIds /\ vnode[Fresh] = NULL
  BY FreshNode DEF NewNode, Allocated
<1>2. [type |-> type, name |-> name, parent |-> parent] \in Inode
  BY DEF Inode
<1>3. /\ vnode'[Fresh] = [type |-> type, name |-> name, parent |-> parent]
      /\ vnode'[Fresh] # NULL
      /\ \A n \in NodeIds \ {Fresh} : vnode'[n] = vnode[n]
  BY <1>1, <1>2, InodeAssumption DEF NewNode, ResInv, NsTypeOK
<1>4. Fresh \notin freed /\ freed \subseteq NodeIds
  BY <1>1 DEF ResInv, DirInv, NsTypeOK
<1>5. \A n \in NodeIds : IsDir(n) => IsDir(n)'
  BY <1>1, <1>3 DEF IsDir, Allocated
<1>6. \A n \in freed' : vnode'[n].type = "TMPFS_TYPE_FILE"
  BY <1>3, <1>4 DEF ResInv, MountsLive
<1>7. \A n \in NodeIds : IsDir(n)' => vnode'[n].parent = NULL
  BY <1>3 DEF ResInv, MountsLive, IsDir, Allocated
<1> QED
  BY <1>1, <1>3, <1>5, <1>6, <1>7

\* Every call keeps roots alive and directories roots.
LEMMA MountsKept ==
    ASSUME ResInv, [NsNext]_nsVars
    PROVE  MountsLive'
<1>1. CASE UNCHANGED <<vnode, mounted_here, freed>>
  BY <1>1 DEF ResInv, MountsLive, IsDir, Allocated
<1>2. CASE \E fs \in FsNames \cup {NULL} : RegisterFs(fs)
  BY <1>1, <1>2 DEF RegisterFs, NsFail, nsState, tree
<1>3. ASSUME NewRoot, freed' = freed,
             mounted_here' = mounted_here
             \/ \E n \in Nodes : mounted_here' = [mounted_here EXCEPT ![n] = Fresh]
      PROVE  MountsLive'
  <2>1. /\ Fresh \in NodeIds
        /\ vnode'[Fresh] # NULL /\ vnode'[Fresh].type = "TMPFS_TYPE_DIR"
        /\ \A n \in NodeIds : IsDir(n) => IsDir(n)'
        /\ \A n \in freed' : vnode'[n].type = "TMPFS_TYPE_FILE"
        /\ \A n \in NodeIds : IsDir(n)' => vnode'[n].parent = NULL
    BY <1>3, NewNodeKeeps DEF NewRoot, Types
  <2>2. PICK new \in NodeIds : new = Fresh
    BY <2>1
  <2>3. IsDir(new)'
    BY <2>1, <2>2 DEF IsDir, Allocated
  <2>4. ASSUME NEW n \in Nodes, mounted_here'[n] # NULL
        PROVE  IsDir(mounted_here[n])'
    <3>1. PICK m \in NodeIds : m = mounted_here'[n]
      <4>1. mounted_here'[n] = mounted_here[n] \/ mounted_here'[n] = new
        BY <1>3, <2>2 DEF ResInv, NsTypeOK
      <4>2. mounted_here[n] \in NodeIds \cup {NULL}
        BY DEF ResInv, NsTypeOK
      <4> QED
        BY <2>4, <4>1, <4>2
    <3>2. m = mounted_here[n] \/ m = new
      BY <1>3, <2>2, <3>1 DEF ResInv, NsTypeOK
    <3>3. m = mounted_here[n] => IsDir(m)
      BY <2>4, <3>1 DEF ResInv, MountsLive
    <3>4. IsDir(m)'
      BY <2>1, <2>3, <3>2, <3>3
    <3> QED
      BY <3>1, <3>4
  <2> QED
    BY <2>1, <2>4 DEF MountsLive
<1>4. CASE \E path \in AllPaths, fs \in FsNames : VfsMount(path, fs)
  <2>1. PICK path \in AllPaths, fs \in FsNames : VfsMount(path, fs)
    BY <1>4
  <2>2. CASE VfsMountRefused(path, fs) \/ VfsMountNoMemory(path, fs)
    BY <1>1, <1>3, <2>2 DEF VfsMountRefused, VfsMountNoMemory, NsFail, nsState
  <2>3. CASE VfsMountDone(path, fs)
    <3>1. /\ NewRoot /\ freed' = freed
          /\ mounted_here' = [mounted_here EXCEPT ![VfsLookup(path).node] = Fresh]
      BY <2>3 DEF VfsMountDone
    <3>2. CASE VfsLookup(path).node \in Nodes
      BY <1>3, <3>1, <3>2
    <3>3. CASE VfsLookup(path).node \notin Nodes
      <4>1. mounted_here' = mounted_here
        BY <3>1, <3>3 DEF ResInv, NsTypeOK
      <4> QED
        BY <1>3, <3>1, <4>1
    <3> QED
      BY <3>2, <3>3
  <2> QED
    BY <2>1, <2>2, <2>3 DEF VfsMount
<1>5. ASSUME NEW dir, NEW name \in Names, TmpfsCreateDone(dir, name)
      PROVE  MountsLive'
  <2>1. dir \in NodeIds
    BY <1>5 DEF TmpfsCreateDone, IsDir, Allocated
  <2>2. /\ \A n \in NodeIds : IsDir(n) => IsDir(n)'
        /\ \A n \in freed' : vnode'[n].type = "TMPFS_TYPE_FILE"
        /\ \A n \in NodeIds : IsDir(n)' => vnode'[n].parent = NULL
    BY <1>5, <2>1, NewNodeKeeps, NamesAssumption DEF TmpfsCreateDone, Types
  <2>3. mounted_here' = mounted_here
    BY <1>5 DEF TmpfsCreateDone
  <2> QED
    BY <2>2, <2>3 DEF ResInv, MountsLive, IsDir, Allocated
<1>6. ASSUME NEW dir, NEW name \in Names, TmpfsUnlinkDone(dir, name)
      PROVE  MountsLive'
  <2>1. dir \in NodeIds /\ Matches(dir, name) # {}
    BY <1>6 DEF TmpfsUnlinkDone, IsDir, Allocated
  <2>2. /\ Min(Matches(dir, name)) \in 1 .. Len(children[dir])
        /\ TmpfsFindChild(dir, name) = children[dir][Min(Matches(dir, name))]
    BY <2>1, FoundChild DEF ResInv, TmpfsFindChild
  <2>3. vnode[TmpfsFindChild(dir, name)].type = "TMPFS_TYPE_FILE"
    BY <2>1, <2>2 DEF ResInv, DirInv, ListsExact
  <2>4. UNCHANGED <<vnode, mounted_here>> /\ freed' = freed \cup {TmpfsFindChild(dir, name)}
    BY <1>6 DEF TmpfsUnlinkDone
  <2> QED
    BY <2>3, <2>4 DEF ResInv, MountsLive, IsDir, Allocated
<1>7. CASE \E dir \in Resolved, name \in Names : TmpfsCreate(dir, name) \/ TmpfsUnlink(dir, name)
  BY <1>1, <1>5, <1>6, <1>7 DEF TmpfsCreate, TmpfsCreateRefused, TmpfsUnlink, TmpfsUnlinkRefused,
       NsFail, nsState
<1>8. CASE UNCHANGED nsVars
  BY <1>1, <1>8 DEF nsVars
<1> QED
  BY <1>2, <1>4, <1>7, <1>8 DEF NsNext

\* The initial state has no node.
LEMMA InitResInv == NsInit => ResInv
<1> SUFFICES ASSUME NsInit PROVE ResInv
  OBVIOUS
<1>1. NsTypeOK
  BY NsInitType
<1>2. DirInv
  BY DEF NsInit, DirInv, ListsExact, FilesListed
<1>3. MountsLive
  BY DEF NsInit, MountsLive, IsDir, Allocated
<1> QED
  BY <1>1, <1>2, <1>3 DEF ResInv

\* The invariant is inductive.
LEMMA NextResInv == ResInv /\ [NsNext]_nsVars => ResInv'
<1> SUFFICES ASSUME ResInv, [NsNext]_nsVars PROVE ResInv'
  OBVIOUS
<1>1. NsTypeOK'
  BY NsNextType DEF ResInv, NsTypeOK, nsVars
<1> QED
  BY <1>1, DirKept, MountsKept DEF ResInv

\* What the invariant says of look-ups.
LEMMA LiveResolution == ResInv => ResolutionLive
<1> SUFFICES ASSUME ResInv, NEW path \in Paths, VfsLookup(path).err = 0
             PROVE  IF VfsLookup(path).node = RootVnode THEN mounted_here[RootVnode] = NULL
                    ELSE VfsLookup(path).node \in Allocated \ freed
  BY DEF ResolutionLive
<1>1. Reachable(VfsLookup(path).node)
  BY LookupGood
<1> QED
  BY <1>1, NullAssumption DEF Reachable, Live, Allocated

\* vfs_lookup() never hands out a freed or unmade vnode, for any number of nodes,
\* any names and paths of any length.
THEOREM ResolutionsLive == NsSpec => []ResolutionLive
BY LiveResolution, InitResInv, NextResInv, PTL DEF NsSpec

-----------------------------------------------------------------------------
(* What a search of a directory finds *)

\* The first child of that name, or none.
FindFacts ==
    \A dir \in NodeIds : \A name :
        /\ NotFound(dir, name) \/ \E i : FoundAt(dir, name, i)
        /\ NotFound(dir, name) => TmpfsFindChild(dir, name) = NULL
        /\ \A i : FoundAt(dir, name, i) => TmpfsFindChild(dir, name) = children[dir][i]

\* The least index is found, as the loop stops at the first match.
LEMMA FindsFirst == NsTypeOK => FindFacts
<1> SUFFICES ASSUME NsTypeOK, NEW dir \in NodeIds, NEW name
             PROVE  /\ NotFound(dir, name) \/ \E i : FoundAt(dir, name, i)
                    /\ NotFound(dir, name) => TmpfsFindChild(dir, name) = NULL
                    /\ \A i : FoundAt(dir, name, i) => TmpfsFindChild(dir, name) = children[dir][i]
  BY DEF FindFacts
<1>1. DOMAIN children[dir] = 1 .. Len(children[dir]) /\ Len(children[dir]) \in Nat
  BY DEF NsTypeOK
<1>2. Matches(dir, name) = {i \in 1 .. Len(children[dir]) : vnode[children[dir][i]].name = name}
  BY <1>1 DEF Matches
<1>3. Matches(dir, name) \subseteq Nat
  BY <1>1, <1>2
<1>4. CASE Matches(dir, name) = {}
  BY <1>2, <1>4 DEF NotFound, FoundAt, TmpfsFindChild
<1>5. CASE Matches(dir, name) # {}
  <2> DEFINE m == Min(Matches(dir, name))
  <2>1. m \in Matches(dir, name) /\ \A j \in Matches(dir, name) : m <= j
    BY <1>3, <1>5, MinIsMember
  <2>2. TmpfsFindChild(dir, name) = children[dir][m]
    BY <1>5 DEF TmpfsFindChild
  <2> HIDE DEF m
  <2>3. FoundAt(dir, name, m)
    BY <1>1, <1>2, <2>1 DEF FoundAt
  <2>4. ~NotFound(dir, name)
    BY <1>2, <2>1 DEF NotFound
  <2>5. ASSUME NEW i, FoundAt(dir, name, i) PROVE i = m
    <3>1. i \in Matches(dir, name)
      BY <1>2, <2>5 DEF FoundAt
    <3>2. m <= i /\ m \in 1 .. Len(children[dir]) /\ i \in Nat
      BY <1>2, <1>3, <2>1, <3>1
    <3>3. ~(m < i)
      BY <1>2, <2>1, <2>5, <3>2 DEF FoundAt
    <3> QED
      BY <3>2, <3>3
  <2> QED
    BY <2>2, <2>3, <2>4, <2>5
<1> QED
  BY <1>4, <1>5

\* After a step as well.
LEMMA FindsFirstNext == NsTypeOK' => FindFacts'
BY FindsFirst, PTL

\* One turn of the loop of vfs_lookup(), in terms of the directory it searches.
TurnFacts ==
    \A at, dir, name : MountedRoot(at.node) = dir =>
        LookupStep(at, name) =
            IF at.err # 0 THEN at
            ELSE IF dir = RootVnode THEN Failed(ENOTDIR)
            ELSE IF TmpfsLookup(dir, name) = NULL THEN Failed(ENOENT)
            ELSE Found(TmpfsLookup(dir, name))

\* That is what it does.
LEMMA Turns == TurnFacts
BY DEF TurnFacts, LookupStep

\* After a step as well.
LEMMA TurnsNext == TurnFacts'
BY Turns, PTL

\* What a search for a name finds, through . and .. as well.
SearchFacts ==
    \A dir, name :
        TmpfsLookup(dir, name) =
            IF name = Dot THEN dir
            ELSE IF name # DotDot THEN TmpfsFindChild(dir, name)
            ELSE IF vnode[dir].parent = NULL THEN dir ELSE vnode[dir].parent

\* That is what it does.
LEMMA Searches == SearchFacts
BY DEF SearchFacts, TmpfsLookup

\* After a step as well.
LEMMA SearchesNext == SearchFacts'
BY Searches, PTL

-----------------------------------------------------------------------------
(* What a step leaves as it was *)

\* A directory whose list a step leaves alone finds what it found.
LEMMA ListSame ==
    ASSUME ResInv, NsTypeOK', NEW dir \in NodeIds, NEW name,
           children'[dir] = children[dir],
           \A n \in NodeIds : vnode[n] # NULL => vnode'[n] = vnode[n]
    PROVE  TmpfsFindChild(dir, name)' = TmpfsFindChild(dir, name)
<1>1. \A i \in 1 .. Len(children[dir]) :
          children[dir][i] \in NodeIds /\ vnode[children[dir][i]] # NULL
  <2>1. \A i \in 1 .. Len(children[dir]) : children[dir][i] \in NodeIds
    BY ElementOfSeq DEF ResInv, NsTypeOK
  <2> QED
    BY <2>1 DEF ResInv, DirInv, ListsExact
<1>2. \A i \in 1 .. Len(children[dir]) : vnode'[children[dir][i]] = vnode[children[dir][i]]
  BY <1>1
<1>3. Len(children[dir]) \in Nat
  BY LenProperties DEF ResInv, NsTypeOK
<1>4. CASE NotFound(dir, name)
  <2>1. NotFound(dir, name)'
    BY <1>2, <1>4 DEF NotFound
  <2> QED
    BY <1>4, <2>1, FindsFirst, FindsFirstNext DEF ResInv, FindFacts
<1>5. ASSUME NEW i, FoundAt(dir, name, i)
      PROVE  TmpfsFindChild(dir, name)' = TmpfsFindChild(dir, name)
  <2>1. FoundAt(dir, name, i)'
    BY SMTT(30), <1>2, <1>3, <1>5 DEF FoundAt
  <2> QED
    BY <1>5, <2>1, FindsFirst, FindsFirstNext DEF ResInv, FindFacts
<1> QED
  BY <1>4, <1>5, FindsFirst DEF ResInv, FindFacts

\* A file made in a directory is found by its kept name, and hides no other name.
LEMMA CreateFinds ==
    ASSUME ResInv, NsTypeOK', NEW dir \in NodeIds, NEW made \in Names, TmpfsCreateDone(dir, made),
           NEW name
    PROVE  \/ TmpfsFindChild(dir, name)' = TmpfsFindChild(dir, name)
           \/ TmpfsFindChild(dir, name)' \in MadeFiles
<1>1. PICK new \in NodeIds :
              /\ vnode[new] = NULL /\ vnode'[new] # NULL
              /\ vnode'[new] = [type |-> "TMPFS_TYPE_FILE", name |-> Stored[made], parent |-> dir]
              /\ \A n \in NodeIds \ {new} : vnode'[n] = vnode[n]
              /\ Len(children[dir]) \in Nat
              /\ Len(children'[dir]) = Len(children[dir]) + 1
              /\ children'[dir][1] = new
              /\ \A i \in 2 .. Len(children[dir]) + 1 : children'[dir][i] = children[dir][i - 1]
  BY SMTT(30), CreateShape DEF ResInv
<1>2. CASE name = Stored[made]
  <2>1. FoundAt(dir, name, 1)'
    BY <1>1, <1>2 DEF FoundAt
  <2>2. TmpfsFindChild(dir, name)' = new
    BY <1>1, <2>1, FindsFirstNext DEF FindFacts
  <2>3. new \in MadeFiles
    BY <1>1 DEF MadeFiles, IsFile, Allocated
  <2> QED
    BY <2>2, <2>3
<1>3. CASE name # Stored[made]
  <2>1. \A i \in 1 .. Len(children[dir]) :
            /\ children'[dir][i + 1] = children[dir][i]
            /\ vnode'[children[dir][i]] = vnode[children[dir][i]]
    <3>1. \A i \in 1 .. Len(children[dir]) :
              children[dir][i] \in NodeIds /\ vnode[children[dir][i]] # NULL
      <4>1. \A i \in 1 .. Len(children[dir]) : children[dir][i] \in NodeIds
        BY ElementOfSeq DEF ResInv, NsTypeOK
      <4> QED
        BY <4>1 DEF ResInv, DirInv, ListsExact
    <3>2. ASSUME NEW i \in 1 .. Len(children[dir])
          PROVE  children'[dir][i + 1] = children[dir][i]
      <4>1. i + 1 \in 2 .. Len(children[dir]) + 1 /\ (i + 1) - 1 = i
        BY <1>1
      <4> QED
        BY <1>1, <4>1
    <3> QED
      BY <1>1, <3>1, <3>2
  <2>2. vnode'[children'[dir][1]].name # name
    BY <1>1, <1>3
  <2>3. CASE NotFound(dir, name)
    <3>1. ASSUME NEW i \in 1 .. Len(children'[dir]) PROVE vnode'[children'[dir][i]].name # name
      <4>1. CASE i = 1
        BY <2>2, <4>1
      <4>2. CASE i # 1
        <5>1. PICK j \in 1 .. Len(children[dir]) : j + 1 = i
          BY <1>1, <4>2
        <5> QED
          BY <2>1, <2>3, <5>1 DEF NotFound
      <4> QED
        BY <4>1, <4>2
    <3>2. NotFound(dir, name)'
      BY <3>1 DEF NotFound
    <3> QED
      BY <2>3, <3>2, FindsFirst, FindsFirstNext DEF ResInv, FindFacts
  <2>4. ASSUME NEW i, FoundAt(dir, name, i)
        PROVE  TmpfsFindChild(dir, name)' = TmpfsFindChild(dir, name)
    <3>1. i \in 1 .. Len(children[dir]) /\ i \in Nat
      BY <1>1, <2>4 DEF FoundAt
    <3>2. i + 1 \in 1 .. Len(children'[dir]) /\ vnode'[children'[dir][i + 1]].name = name
      BY SMTT(30), <1>1, <2>1, <2>4, <3>1 DEF FoundAt
    <3>3. ASSUME NEW j \in 1 .. (i + 1) - 1 PROVE vnode'[children'[dir][j]].name # name
      <4>1. CASE j = 1
        BY <2>2, <4>1
      <4>2. CASE j # 1
        <5>1. j - 1 \in 1 .. i - 1 /\ (j - 1) + 1 = j /\ j - 1 \in 1 .. Len(children[dir])
          BY <1>1, <3>1, <4>2
        <5> QED
          BY SMTT(30), <2>1, <2>4, <5>1 DEF FoundAt
      <4> QED
        BY <4>1, <4>2
    <3>4. FoundAt(dir, name, i + 1)'
      BY <3>2, <3>3 DEF FoundAt
    <3> QED
      BY <2>1, <2>4, <3>1, <3>4, FindsFirst, FindsFirstNext DEF ResInv, FindFacts
  <2> QED
    BY <2>3, <2>4, FindsFirst DEF ResInv, FindFacts
<1> QED
  BY <1>2, <1>3

\* A file unlinked from a directory is no longer found, and every other name is.
LEMMA UnlinkFinds ==
    ASSUME ResInv, NsTypeOK', NEW dir \in NodeIds, NEW gone \in Names, TmpfsUnlinkDone(dir, gone),
           NEW name
    PROVE  \/ TmpfsFindChild(dir, name)' = TmpfsFindChild(dir, name)
           \/ TmpfsFindChild(dir, name) \in freed' \ freed
<1>1. vnode' = vnode /\ Len(children[dir]) \in Nat
  BY UnlinkShape DEF ResInv
<1>2. PICK k \in 1 .. Len(children[dir]) :
          /\ FoundAt(dir, gone, k)
          /\ freed' = freed \cup {children[dir][k]}
          /\ Len(children'[dir]) = Len(children[dir]) - 1
          /\ \A i \in 1 .. Len(children[dir]) - 1 :
                children'[dir][i] = IF i < k THEN children[dir][i] ELSE children[dir][i + 1]
  BY UnlinkShape DEF ResInv
<1>3. FindFacts /\ FindFacts'
  BY FindsFirst, FindsFirstNext DEF ResInv
<1>4. CASE name = gone
  <2>1. TmpfsFindChild(dir, name) = children[dir][k]
    BY <1>2, <1>3, <1>4 DEF FindFacts
  <2>2. children[dir][k] \notin freed
    BY <1>2 DEF ResInv, DirInv, ListsExact
  <2> QED
    BY <1>2, <2>1, <2>2
<1>5. CASE name # gone
  <2>1. vnode[children[dir][k]].name # name
    BY <1>2, <1>5 DEF FoundAt
  <2>2. CASE NotFound(dir, name)
    <3>1. ASSUME NEW i \in 1 .. Len(children'[dir]) PROVE vnode'[children'[dir][i]].name # name
      <4>1. PICK j \in 1 .. Len(children[dir]) : children'[dir][i] = children[dir][j]
        <5>1. i \in 1 .. Len(children[dir]) /\ i + 1 \in 1 .. Len(children[dir])
              /\ i \in 1 .. Len(children[dir]) - 1
          BY <1>1, <1>2
        <5> QED
          BY <1>2, <5>1
      <4> QED
        BY <1>1, <2>2, <4>1 DEF NotFound
    <3>2. NotFound(dir, name)'
      BY <3>1 DEF NotFound
    <3> QED
      BY <1>3, <2>2, <3>2 DEF FindFacts
  <2>3. ASSUME NEW i, FoundAt(dir, name, i)
        PROVE  TmpfsFindChild(dir, name)' = TmpfsFindChild(dir, name)
    <3>1. /\ i \in 1 .. Len(children[dir]) /\ vnode[children[dir][i]].name = name
          /\ \A j \in 1 .. i - 1 : vnode[children[dir][j]].name # name
      BY <2>3 DEF FoundAt
    <3>2. i # k
      BY <2>1, <3>1
    <3> DEFINE to == IF i < k THEN i ELSE i - 1
    <3>3. to \in 1 .. Len(children[dir]) - 1 /\ children'[dir][to] = children[dir][i]
      <4>1. CASE i < k
        BY <1>1, <1>2, <3>1, <4>1
      <4>2. CASE ~(i < k)
        <5>1. i - 1 \in 1 .. Len(children[dir]) - 1 /\ ~(i - 1 < k) /\ (i - 1) + 1 = i
          BY <1>1, <3>1, <3>2, <4>2
        <5> QED
          BY <1>2, <4>2, <5>1
      <4> QED
        BY <4>1, <4>2
    <3>4. ASSUME NEW j \in 1 .. to - 1 PROVE vnode'[children'[dir][j]].name # name
      <4>1. PICK l \in 1 .. i - 1 : children'[dir][j] = children[dir][l]
        <5>1. /\ j \in 1 .. Len(children[dir]) - 1 /\ j \in 1 .. i - 1
              /\ ~(j < k) => j + 1 \in 1 .. i - 1
          BY <1>1, <3>1, <3>2, <3>3
        <5> QED
          BY <1>2, <5>1
      <4> QED
        BY <1>1, <3>1, <4>1
    <3> HIDE DEF to
    <3>5. FoundAt(dir, name, to)'
      BY <1>1, <1>2, <3>1, <3>3, <3>4 DEF FoundAt
    <3> QED
      BY <1>3, <2>3, <3>3, <3>5 DEF FindFacts
  <2> QED
    BY <1>3, <2>2, <2>3 DEF FindFacts
<1> QED
  BY <1>4, <1>5

\* Whatever the step, a search finds what it found, a file the step made, or had
\* found one the step freed.
LEMMA FindsSame ==
    ASSUME ResInv, NsTypeOK', NsNext, NEW dir \in NodeIds, NEW name
    PROVE  \/ TmpfsFindChild(dir, name)' = TmpfsFindChild(dir, name)
           \/ TmpfsFindChild(dir, name)' \in MadeFiles
           \/ TmpfsFindChild(dir, name) \in freed' \ freed
<1>1. \A n \in NodeIds : vnode[n] # NULL => vnode'[n] = vnode[n]
  BY NodesPersist DEF ResInv
<1>2. CASE children' = children
  BY <1>1, <1>2, ListSame
<1>3. ASSUME NEW d, NEW made \in Names, TmpfsCreateDone(d, made)
      PROVE  \/ TmpfsFindChild(dir, name)' = TmpfsFindChild(dir, name)
             \/ TmpfsFindChild(dir, name)' \in MadeFiles
  <2>1. CASE d = dir
    BY <1>3, <2>1, CreateFinds
  <2>2. CASE d # dir
    <3>1. children'[dir] = children[dir]
      <4>1. \A n \in NodeIds \ {d} : children'[n] = children[n]
        BY <1>3, CreateShape DEF ResInv
      <4> QED
        BY <2>2, <4>1
    <3> QED
      BY <1>1, <3>1, ListSame
  <2> QED
    BY <2>1, <2>2
<1>4. ASSUME NEW d, NEW gone \in Names, TmpfsUnlinkDone(d, gone)
      PROVE  \/ TmpfsFindChild(dir, name)' = TmpfsFindChild(dir, name)
             \/ TmpfsFindChild(dir, name) \in freed' \ freed
  <2>1. CASE d = dir
    BY <1>4, <2>1, UnlinkFinds
  <2>2. CASE d # dir
    <3>1. children'[dir] = children[dir]
      BY <1>4, <2>2, UnlinkShape DEF ResInv
    <3> QED
      BY <1>1, <3>1, ListSame
  <2> QED
    BY <2>1, <2>2
<1>5. CASE \E fs \in FsNames \cup {NULL} : RegisterFs(fs)
  BY <1>2, <1>5 DEF RegisterFs, NsFail, nsState, tree
<1>6. CASE \E path \in AllPaths, fs \in FsNames : VfsMount(path, fs)
  BY <1>2, <1>6 DEF VfsMount, VfsMountRefused, VfsMountNoMemory, VfsMountDone, NsFail, nsState
<1>7. CASE \E d \in Resolved, n \in Names : TmpfsCreate(d, n) \/ TmpfsUnlink(d, n)
  BY <1>2, <1>3, <1>4, <1>7 DEF TmpfsCreate, TmpfsCreateRefused, TmpfsUnlink, TmpfsUnlinkRefused,
       NsFail, nsState
<1> QED
  BY <1>5, <1>6, <1>7 DEF NsNext

\* A turn of the loop leads where it led, if the step did not mark where it starts,
\* free where it ended, or make what it ends at now.
LEMMA TurnSame ==
    ASSUME ResInv, NsTypeOK', NsNext, NEW at, Good(at), NEW name,
           at.err = 0 => at.node \notin Marked,
           LookupStep(at, name).node \notin freed' \ freed,
           LookupStep(at, name)'.node \notin MadeFiles
    PROVE  LookupStep(at, name)' = LookupStep(at, name)
<1>1. TurnFacts /\ TurnFacts' /\ SearchFacts /\ SearchFacts'
  BY Turns, TurnsNext, Searches, SearchesNext
<1>2. PICK dir : dir = MountedRoot(at.node)
  OBVIOUS
<1>3. CASE at.err # 0
  <2>1. LookupStep(at, name) = at
    BY <1>3 DEF LookupStep
  <2>2. LookupStep(at, name)' = at
    BY <1>3 DEF LookupStep
  <2> QED
    BY <2>1, <2>2
<1>4. CASE at.err = 0
  <2>1. Reachable(at.node) /\ at.node \in Nodes
    BY <1>4 DEF Good, Reachable, Live, Allocated, Nodes
  <2>2. mounted_here'[at.node] = mounted_here[at.node]
    BY <1>4, <2>1 DEF Marked
  <2>3. MountedRoot(at.node)' = dir
    BY <1>2, <2>2 DEF MountedRoot
  <2>4. CASE dir = RootVnode
    BY <1>1, <1>2, <1>4, <2>3, <2>4 DEF TurnFacts
  <2>5. CASE dir # RootVnode
    <3>1. Reachable(dir)
      BY <1>2, <2>1, MountedRootReachable
    <3>2. dir \in NodeIds /\ vnode[dir] # NULL
      BY <2>5, <3>1 DEF Reachable, Live, Allocated
    <3>3. vnode'[dir] = vnode[dir]
      BY <3>2, NodesPersist DEF ResInv
    <3>4. CASE name = Dot \/ name = DotDot
      <4>1. TmpfsLookup(dir, name)' = TmpfsLookup(dir, name)
        BY <1>1, <3>3, <3>4 DEF SearchFacts
      <4> QED
        BY <1>1, <1>2, <1>4, <2>3, <2>5, <4>1 DEF TurnFacts
    <3>5. CASE name # Dot /\ name # DotDot
      <4>1. /\ TmpfsLookup(dir, name) = TmpfsFindChild(dir, name)
            /\ TmpfsLookup(dir, name)' = TmpfsFindChild(dir, name)'
        BY <1>1, <3>5 DEF SearchFacts
      <4>2. /\ LookupStep(at, name) = IF TmpfsFindChild(dir, name) = NULL THEN Failed(ENOENT)
                                      ELSE Found(TmpfsFindChild(dir, name))
            /\ LookupStep(at, name)' = IF TmpfsFindChild(dir, name)' = NULL THEN Failed(ENOENT)
                                       ELSE Found(TmpfsFindChild(dir, name)')
        BY <1>1, <1>2, <1>4, <2>3, <2>5, <4>1 DEF TurnFacts, Failed, Found
      <4>3. NULL \notin MadeFiles /\ NULL \notin freed' \ freed
        BY NullAssumption DEF MadeFiles, NsTypeOK
      <4>4. TmpfsFindChild(dir, name)' \notin MadeFiles
        BY <4>2, <4>3 DEF Found
      <4>5. TmpfsFindChild(dir, name) \notin freed' \ freed
        BY <4>2, <4>3 DEF Found
      <4>6. TmpfsFindChild(dir, name)' = TmpfsFindChild(dir, name)
        BY <3>2, <4>4, <4>5, FindsSame
      <4> QED
        BY <4>2, <4>6
    <3> QED
      BY <3>4, <3>5
  <2> QED
    BY <2>4, <2>5
<1> QED
  BY <1>3, <1>4

-----------------------------------------------------------------------------
(* What a look-up depends on *)

\* What a look-up and its trail are made of.
LookupFacts ==
    \A path \in Paths :
        /\ RootVnode \in Trail(path)
        /\ \A k \in 0 .. Len(path) : \A at : Stage(path, k) = at => at.node \in Trail(path)
        /\ \A end, to : Walk(path) = end /\ MountedRoot(end.node) = to =>
              VfsLookup(path) = IF end.err # 0 THEN end ELSE Found(to)

\* A look-up crosses the mount its walk ends at.
LEMMA Lookups == LookupFacts
<1> SUFFICES ASSUME NEW path \in Paths
             PROVE  /\ RootVnode \in Trail(path)
                    /\ \A k \in 0 .. Len(path) : Stage(path, k).node \in Trail(path)
                    /\ VfsLookup(path) = IF Walk(path).err # 0 THEN Walk(path)
                                         ELSE Found(MountedRoot(Walk(path).node))
  BY DEF LookupFacts
<1>1. path # Relative
  BY PathsAssumption
<1>2. VfsLookup(path) = IF Walk(path).err # 0 THEN Walk(path)
                        ELSE Found(MountedRoot(Walk(path).node))
  BY <1>1 DEF VfsLookup
<1> QED
  BY <1>2 DEF Trail, Stage

\* After a step as well.
LEMMA LookupsNext == LookupFacts'
BY Lookups, PTL

\* Where the root of the name space leads, in the state after a step.
RootFacts ==
    \A root : MountedRoot(RootVnode) = root =>
        \A path \in Paths : Stage(path, 0) = Found(root)

\* Every walk starts there.
LEMMA Roots == RootFacts
BY WalkStages DEF RootFacts, WalkFacts

\* After a step as well.
LEMMA RootsNext == RootFacts'
BY Roots, PTL

\* The stages of a walk stay where they were as far as the step marks none before.
LEMMA StagesSame ==
    ASSUME ResInv, NsTypeOK', NsNext, NEW path \in Paths, NEW n \in 0 .. Len(path),
           RootVnode \notin Marked,
           \A k \in 0 .. n : k < n => Stage(path, k).node \notin Marked,
           \A k \in 0 .. n : Stage(path, k).node \notin freed' \ freed,
           \A k \in 0 .. n : Stage(path, k)'.node \notin MadeFiles
    PROVE  Stage(path, n)' = Stage(path, n)
<1>1. Len(path) \in Nat /\ n \in Nat /\ n <= Len(path)
  BY PathsAssumption, LenProperties
<1> DEFINE bad == {k \in 0 .. n : Stage(path, k)' # Stage(path, k)}
<1>2. ASSUME bad # {} PROVE FALSE
  <2> DEFINE k == Min(bad)
  <2>1. bad \subseteq Nat
    BY <1>1
  <2>2. k \in bad /\ \A y \in bad : k <= y
    <3> HIDE DEF bad
    <3> QED
      BY <1>2, <2>1, MinIsMember
  <2>3. PICK m : m = k
    OBVIOUS
  <2>4. m \in bad /\ \A y \in bad : m <= y
    BY <2>2, <2>3
  <2> HIDE DEF k
  <2>5. m \in 0 .. n /\ Stage(path, m)' # Stage(path, m)
    BY <2>4
  <2>6. CASE m = 0
    <3>1. mounted_here'[RootVnode] = mounted_here[RootVnode]
      BY DEF Marked, Nodes
    <3>2. PICK root : root = MountedRoot(RootVnode)
      OBVIOUS
    <3>3. MountedRoot(RootVnode)' = root
      BY <3>1, <3>2 DEF MountedRoot
    <3>4. Stage(path, 0) = Found(root) /\ Stage(path, 0)' = Found(root)
      BY <3>2, <3>3, Roots, RootsNext DEF RootFacts, Found
    <3> QED
      BY <2>5, <2>6, <3>4
  <2>7. CASE m # 0
    <3>1. /\ m \in 1 .. Len(path) /\ m - 1 \in 0 .. n /\ m - 1 \in 0 .. Len(path) /\ m - 1 < n
          /\ ~(m <= m - 1)
      BY <1>1, <2>5, <2>7
    <3>2. PICK at : at = Stage(path, m - 1)
      OBVIOUS
    <3>3. Stage(path, m - 1)' = at
      BY <2>4, <3>1, <3>2
    <3>4. /\ Stage(path, m) = LookupStep(at, path[m])
          /\ Stage(path, m)' = LookupStep(at, path[m])'
      BY <3>1, <3>2, <3>3, WalkStages, WalkStagesNext DEF WalkFacts
    <3>5. Good(at) /\ at.node \notin Marked
      BY <3>1, <3>2, StagesGood
    <3>6. /\ LookupStep(at, path[m]).node \notin freed' \ freed
          /\ LookupStep(at, path[m])'.node \notin MadeFiles
      BY <2>5, <3>4
    <3>7. LookupStep(at, path[m])' = LookupStep(at, path[m])
      BY <3>5, <3>6, TurnSame
    <3> QED
      BY <2>5, <3>4, <3>7
  <2> QED
    BY <2>6, <2>7
<1>3. n \in 0 .. n /\ n \notin bad
  BY <1>1, <1>2
<1> QED
  BY <1>3

\* A path whose trail a step leaves alone means what it meant.
LEMMA ScopeHolds ==
    ASSUME ResInv, NsTypeOK', NsNext, NEW path \in Paths,
           Trail(path) \cap Marked = {}, Trail(path)' \cap MadeFiles = {}
    PROVE  VfsLookup(path)' = VfsLookup(path)
<1>1. Len(path) \in Nat /\ Len(path) \in 0 .. Len(path)
  BY PathsAssumption, LenProperties
<1>2. \A k \in 0 .. Len(path) : Stage(path, k).node \notin Marked /\ Stage(path, k)'.node \notin MadeFiles
  BY Lookups, LookupsNext DEF LookupFacts
<1>3. RootVnode \notin Marked
  BY Lookups DEF LookupFacts
<1>5. Stage(path, Len(path))' = Stage(path, Len(path))
  <2>1. \A k \in 0 .. Len(path) : Stage(path, k).node \notin freed' \ freed
    BY <1>2 DEF Marked
  <2> QED
    BY <1>1, <1>2, <1>3, <2>1, StagesSame
<1>4. PICK end : end = Walk(path)
  OBVIOUS
<1>6. Stage(path, Len(path)) = end /\ Walk(path)' = end /\ Stage(path, Len(path))' = end
  BY <1>4, <1>5, WalkStages, WalkStagesNext DEF WalkFacts
<1>7. CASE end.err # 0
  BY <1>4, <1>6, <1>7, Lookups, LookupsNext DEF LookupFacts
<1>8. CASE end.err = 0
  <2>1. Good(end) /\ end.node \notin Marked
    BY <1>1, <1>2, <1>6, StagesGood
  <2>2. end.node \in Nodes
    BY <1>8, <2>1 DEF Good, Reachable, Live, Allocated, Nodes
  <2>3. mounted_here'[end.node] = mounted_here[end.node]
    BY <2>1, <2>2 DEF Marked
  <2>4. PICK to : to = MountedRoot(end.node)
    OBVIOUS
  <2>5. MountedRoot(end.node)' = to
    BY <2>3, <2>4 DEF MountedRoot
  <2>6. VfsLookup(path) = Found(to)
    BY <1>4, <1>8, <2>4, Lookups DEF LookupFacts
  <2>7. VfsLookup(path)' = Found(to)
    BY <1>6, <1>8, <2>5, LookupsNext DEF LookupFacts, Found
  <2> QED
    BY <2>6, <2>7
<1> QED
  BY <1>7, <1>8

-----------------------------------------------------------------------------
(* What a call does to the meaning of a path *)

\* A call that reports an error marks no vnode and makes no file.
LEMMA FailedCallMarks ==
    ASSUME ResInv, NsNext, Moved, ret' < 0
    PROVE  Marked = {} /\ MadeFiles = {}
<1>1. ASSUME NewRoot, UNCHANGED <<mounted_here, freed>>
      PROVE  Marked = {} /\ MadeFiles = {}
  <2>1. Fresh \in NodeIds /\ vnode'[Fresh].type = "TMPFS_TYPE_DIR"
    BY <1>1, NewNodeKeeps DEF NewRoot, Types
  <2>2. \A n \in NodeIds \ {Fresh} : vnode'[n] = vnode[n]
    BY <1>1 DEF NewRoot, NewNode, ResInv, NsTypeOK
  <2>3. MadeFiles = {}
    BY <2>1, <2>2 DEF MadeFiles, IsFile, Allocated
  <2> QED
    BY <1>1, <2>3 DEF Marked
<1>2. \A e : ~NsFail(e)
  BY DEF NsFail, Moved
<1>3. ~Return(0)
  BY DEF Return
<1>4. CASE \E fs \in FsNames \cup {NULL} : RegisterFs(fs)
  BY <1>2, <1>3, <1>4 DEF RegisterFs
<1>5. CASE \E path \in AllPaths, fs \in FsNames : VfsMount(path, fs)
  BY <1>1, <1>2, <1>3, <1>5 DEF VfsMount, VfsMountRefused, VfsMountNoMemory, VfsMountDone
<1>6. CASE \E d \in Resolved, n \in Names : TmpfsCreate(d, n) \/ TmpfsUnlink(d, n)
  BY <1>2, <1>3, <1>6 DEF TmpfsCreate, TmpfsCreateRefused, TmpfsCreateDone, TmpfsUnlink,
       TmpfsUnlinkRefused, TmpfsUnlinkDone
<1> QED
  BY <1>4, <1>5, <1>6 DEF NsNext

\* The steps of the two properties.
LEMMA ScopeStep ==
    ASSUME ResInv, ResInv', [NsNext]_nsState
    PROVE  [Moved => \A path \in Paths :
              VfsLookup(path)' # VfsLookup(path) =>
                  Trail(path) \cap Marked # {} \/ Trail(path)' \cap MadeFiles # {}]_nsState
<1>1. CASE NsNext
  BY <1>1, ScopeHolds DEF ResInv
<1> QED
  BY <1>1

\* A step that returns an error leaves the walk of every path as it was.
LEMMA FailureStep ==
    ASSUME ResInv, ResInv', [NsNext]_nsState
    PROVE  [Moved /\ ret' < 0 => \A path \in Paths : VfsLookup(path)' = VfsLookup(path)]_nsState
<1>1. CASE NsNext
  <2> SUFFICES ASSUME Moved, ret' < 0, NEW path \in Paths
               PROVE  VfsLookup(path)' = VfsLookup(path)
    OBVIOUS
  <2>1. Marked = {} /\ MadeFiles = {}
    BY <1>1, FailedCallMarks
  <2> QED
    BY <1>1, <2>1, ScopeHolds DEF ResInv
<1> QED
  BY <1>1

\* A step of the name space, whatever else the call returns.
LEMMA StateStep == [NsNext]_nsVars => [NsNext]_nsState
BY DEF nsVars, nsState

\* A path changes its meaning only by a mount on, or the unlinking of, a vnode it
\* went through, or by a new file it now goes through, for any tree and any paths.
THEOREM LookupScope == NsSpec => ResolutionScope
BY ScopeStep, StateStep, InitResInv, NextResInv, PTL DEF NsSpec, ResolutionScope

\* A call that reports an error changes what no path resolves to, for any tree.
THEOREM NamesKeptOnFailure == NsSpec => FailedCallKeepsNames
BY FailureStep, StateStep, InitResInv, NextResInv, PTL DEF NsSpec, FailedCallKeepsNames

-----------------------------------------------------------------------------
(* What a mount shows *)

\* Nothing is mounted on a node before it is made.
MountsMade == \A n \in NodeIds : mounted_here[n] # NULL => vnode[n] # NULL

\* A step that changes what is mounted mounts one new root, and does nothing else.
MountsNew(at, root) ==
    /\ NewRoot /\ root = Fresh /\ freed' = freed /\ Reachable(at)
    /\ mounted_here' = [mounted_here EXCEPT ![at] = root]

\* Only a mount that succeeds changes what is mounted.
LEMMA MountStep ==
    ASSUME ResInv, NsNext
    PROVE  mounted_here' = mounted_here \/ \E at \in Nodes, root \in NodeIds : MountsNew(at, root)
<1>1. ASSUME NEW path \in AllPaths, NEW fs, VfsMountDone(path, fs)
      PROVE  \E at \in Nodes, root \in NodeIds : MountsNew(at, root)
  <2>1. VfsLookup(path).err = 0 /\ NewRoot /\ freed' = freed
        /\ mounted_here' = [mounted_here EXCEPT ![VfsLookup(path).node] = Fresh]
    BY <1>1 DEF VfsMountDone
  <2>2. path \in Paths
    BY <2>1 DEF AllPaths, VfsLookup, Failed, EINVAL
  <2>3. PICK at : at = VfsLookup(path).node
    OBVIOUS
  <2>4. Reachable(at) /\ at \in Nodes
    BY <2>1, <2>2, <2>3, LookupGood DEF Reachable, Live, Allocated, Nodes
  <2>5. PICK root \in NodeIds : root = Fresh
    BY <2>1, FreshNode DEF NewRoot, NewNode
  <2>6. MountsNew(at, root)
    BY <2>1, <2>3, <2>4, <2>5 DEF MountsNew
  <2> QED
    BY <2>4, <2>6
<1>2. CASE \E fs \in FsNames \cup {NULL} : RegisterFs(fs)
  BY <1>2 DEF RegisterFs, NsFail, nsState, tree
<1>3. CASE \E path \in AllPaths, fs \in FsNames : VfsMount(path, fs)
  BY <1>1, <1>3 DEF VfsMount, VfsMountRefused, VfsMountNoMemory, NsFail, nsState
<1>4. CASE \E d \in Resolved, n \in Names : TmpfsCreate(d, n) \/ TmpfsUnlink(d, n)
  BY <1>4 DEF TmpfsCreate, TmpfsCreateRefused, TmpfsCreateDone, TmpfsUnlink, TmpfsUnlinkRefused,
       TmpfsUnlinkDone, NsFail, nsState
<1> QED
  BY <1>2, <1>3, <1>4 DEF NsNext

\* A new root takes the place of a node that was not there, and is no file.
LEMMA NewRootFacts ==
    ASSUME ResInv, NewRoot, freed' = freed
    PROVE  Fresh \in NodeIds /\ vnode[Fresh] = NULL /\ vnode'[Fresh] # NULL /\ MadeFiles = {}
<1>1. Fresh \in NodeIds /\ vnode'[Fresh] # NULL /\ vnode'[Fresh].type = "TMPFS_TYPE_DIR"
  BY NewNodeKeeps DEF NewRoot, Types
<1>2. vnode[Fresh] = NULL
  BY FreshNode DEF NewRoot, NewNode, Allocated
<1>3. \A n \in NodeIds \ {Fresh} : vnode'[n] = vnode[n]
  BY DEF NewRoot, NewNode, ResInv, NsTypeOK
<1>4. MadeFiles = {}
  BY <1>1, <1>3 DEF MadeFiles, IsFile, Allocated
<1> QED
  BY <1>1, <1>2, <1>4

\* A step mounts on what a look-up returned, which was made, and unmakes nothing.
LEMMA MountsMadeKept ==
    ASSUME ResInv, MountsMade, NsNext
    PROVE  MountsMade'
<1>1. ASSUME NEW n \in NodeIds, mounted_here'[n] # NULL PROVE vnode[n] # NULL
  <2>1. CASE mounted_here' = mounted_here
    BY <1>1, <2>1 DEF MountsMade
  <2>2. CASE \E at \in Nodes, root \in NodeIds : MountsNew(at, root)
    <3>1. PICK at \in Nodes, root \in NodeIds : MountsNew(at, root)
      BY <2>2
    <3>2. n # at => mounted_here'[n] = mounted_here[n]
      BY <3>1 DEF MountsNew, ResInv, NsTypeOK
    <3>3. n = at => vnode[n] # NULL
      BY <3>1, NullAssumption DEF MountsNew, Reachable, Live, Allocated
    <3> QED
      BY <1>1, <3>2, <3>3 DEF MountsMade
  <2> QED
    BY <2>1, <2>2, MountStep
<1>2. ASSUME NEW n \in NodeIds, vnode[n] # NULL PROVE vnode'[n] # NULL
  BY <1>2, NodesPersist DEF ResInv
<1> QED
  BY <1>1, <1>2 DEF MountsMade

\* What is mounted where a walk ends is what a look-up finds.
LEMMA MountShows ==
    ASSUME ResInv, MountsMade, NsTypeOK', NsNext, NEW at \in Nodes,
           mounted_here'[at] # mounted_here[at], NEW path \in Paths, Stage(path, Len(path)) = Found(at),
           \A k \in 0 .. Len(path) - 1 : Stage(path, k).node # at
    PROVE  VfsLookup(path)' = Found(mounted_here'[at])
<1>1. Len(path) \in Nat /\ Len(path) \in 0 .. Len(path)
  BY PathsAssumption, LenProperties
<1>2. PICK root \in NodeIds : MountsNew(at, root)
  <2>1. PICK n \in Nodes, root \in NodeIds : MountsNew(n, root)
    BY MountStep
  <2>2. n = at
    BY <2>1 DEF MountsNew, ResInv, NsTypeOK
  <2> QED
    BY <2>1, <2>2
<1>3. /\ mounted_here'[at] = root /\ freed' = freed
      /\ \A n \in Nodes \ {at} : mounted_here'[n] = mounted_here[n]
  BY <1>2 DEF MountsNew, ResInv, NsTypeOK
<1>4. vnode[root] = NULL /\ MadeFiles = {}
  BY <1>2, NewRootFacts DEF MountsNew
<1>5. \A n : n # at => n \notin Marked
  BY <1>3 DEF Marked
<1>6. root # NULL /\ root # RootVnode /\ at # NULL
  BY NullAssumption DEF Nodes
<1>7. CASE at # RootVnode
  <2>1. \A k \in 0 .. Len(path) : k < Len(path) => Stage(path, k).node \notin Marked
    <3> SUFFICES ASSUME NEW k \in 0 .. Len(path), k < Len(path)
                 PROVE  Stage(path, k).node \notin Marked
      OBVIOUS
    <3>1. k \in 0 .. Len(path) - 1
      BY <1>1
    <3> QED
      BY <1>5, <3>1
  <2>2. Stage(path, Len(path))' = Found(at)
    BY <1>1, <1>3, <1>4, <1>5, <1>7, <2>1, StagesSame
  <2>3. MountedRoot(at)' = root
    BY <1>3, <1>6 DEF MountedRoot
  <2>4. PICK end : end = Found(at)
    OBVIOUS
  <2>5. Walk(path)' = end /\ end.err = 0 /\ end.node = at
    BY <2>2, <2>4, WalkStagesNext DEF WalkFacts, Found
  <2>6. MountedRoot(end.node)' = root
    BY <2>3, <2>5
  <2>7. VfsLookup(path)' = Found(root)
    BY <2>5, <2>6, LookupsNext DEF LookupFacts, Found
  <2> QED
    BY <1>3, <2>7
<1>8. CASE at = RootVnode
  <2>1. mounted_here[RootVnode] = NULL
    BY <1>2, <1>8, NullAssumption DEF MountsNew, Reachable, Live, Allocated
  <2>2. MountedRoot(RootVnode) = RootVnode
    BY <2>1 DEF MountedRoot
  <2>3. Stage(path, 0) = Found(RootVnode)
    BY <2>2, Roots DEF RootFacts
  <2>4. Len(path) = 0
    <3>1. ASSUME Len(path) # 0 PROVE 0 \in 0 .. Len(path) - 1
      BY <1>1, <3>1
    <3> QED
      BY <1>8, <2>3, <3>1 DEF Found
  <2>5. MountedRoot(RootVnode)' = root
    BY <1>3, <1>6, <1>8 DEF MountedRoot
  <2>6. PICK end : end = Found(root)
    OBVIOUS
  <2>7. Stage(path, 0)' = end
    BY <2>5, <2>6, RootsNext DEF RootFacts, Found
  <2>8. Walk(path)' = end /\ end.err = 0 /\ end.node = root
    BY <2>4, <2>6, <2>7, WalkStagesNext DEF WalkFacts, Found
  <2>9. mounted_here'[root] = NULL
    BY <1>3, <1>4, <1>6, <1>8 DEF MountsMade, Nodes
  <2>10. MountedRoot(end.node)' = root
    BY <2>8, <2>9 DEF MountedRoot
  <2>11. VfsLookup(path)' = Found(root)
    BY <2>8, <2>10, LookupsNext DEF LookupFacts, Found
  <2> QED
    BY <1>3, <1>8, <2>11
<1> QED
  BY <1>7, <1>8

\* The step of the property.
LEMMA MountSeenStep ==
    ASSUME ResInv, ResInv', MountsMade, [NsNext]_nsState
    PROVE  [\A at \in Nodes : mounted_here'[at] # mounted_here[at] =>
              \A path \in Paths :
                  Walk(path) = Found(at) /\ (\A k \in 0 .. Len(path) - 1 : Walk(SubSeq(path, 1, k)).node # at)
                      => VfsLookup(path)' = Found(mounted_here'[at])]_nsState
<1>1. ASSUME NsNext, NEW at \in Nodes, mounted_here'[at] # mounted_here[at], NEW path \in Paths,
             Walk(path) = Found(at), \A k \in 0 .. Len(path) - 1 : Walk(SubSeq(path, 1, k)).node # at
      PROVE  VfsLookup(path)' = Found(mounted_here'[at])
  <2>1. Stage(path, Len(path)) = Found(at)
    BY <1>1, WalkStages DEF WalkFacts
  <2>2. \A k \in 0 .. Len(path) - 1 : Stage(path, k).node # at
    BY <1>1 DEF Stage
  <2> QED
    BY <1>1, <2>1, <2>2, MountShows DEF ResInv
<1> QED
  BY <1>1

\* The initial state mounts nothing.
LEMMA InitMountsMade == NsInit => MountsMade
BY DEF NsInit, MountsMade, Nodes

\* And no step mounts on what is not there.
LEMMA NextMountsMade == ResInv /\ MountsMade /\ [NsNext]_nsState => MountsMade'
BY MountsMadeKept DEF nsState, MountsMade

\* A mount is seen through every path whose walk comes to the vnode mounted on at its
\* end and not before, however many mounts there are and however deep the path.
THEOREM MountsSeen == NsSpec => MountSeen
BY MountSeenStep, StateStep, InitResInv, InitMountsMade, NextResInv, NextMountsMade, PTL
DEF NsSpec, MountSeen

-----------------------------------------------------------------------------
(* Names in a directory *)

\* A name that fits is found if a live file of the directory has it.
LEMMA FittingNameFound ==
    ASSUME ResInv, NEW dir \in NodeIds, NEW n \in NodeIds, IsFile(n), n \notin freed,
           vnode[n].parent = dir
    PROVE  TmpfsFindChild(dir, vnode[n].name) # NULL
<1>1. PICK i \in 1 .. Len(children[dir]) : children[dir][i] = n
  BY DEF ResInv, DirInv, FilesListed, IsFile, Allocated
<1>2. ~NotFound(dir, vnode[n].name)
  BY <1>1 DEF NotFound
<1>3. PICK j : FoundAt(dir, vnode[n].name, j)
  BY <1>2, FindsFirst DEF ResInv, FindFacts
<1>4. TmpfsFindChild(dir, vnode[n].name) = children[dir][j] /\ j \in 1 .. Len(children[dir])
  BY SMTT(30), <1>3, FindsFirst DEF ResInv, FindFacts, FoundAt
<1>5. children[dir][j] \in NodeIds
  BY <1>4, ElementOfSeq DEF ResInv, NsTypeOK
<1> QED
  BY <1>4, <1>5, NullAssumption

\* Only a new file can share a name, and then it was cut to it.
LEMMA CutTwiceKept ==
    ASSUME ResInv, OnlyCutTwice, NsNext
    PROVE  OnlyCutTwice'
<1>1. freed \subseteq freed'
  BY DEF NsNext, RegisterFs, VfsMount, VfsMountRefused, VfsMountNoMemory, VfsMountDone, TmpfsCreate,
     TmpfsCreateRefused, TmpfsCreateDone, TmpfsUnlink, TmpfsUnlinkRefused, TmpfsUnlinkDone,
     NsFail, nsState, tree
<1>2. \A n \in NodeIds : vnode[n] # NULL => vnode'[n] = vnode[n]
  BY NodesPersist DEF ResInv
<1>3. CASE MadeFiles = {}
  BY <1>1, <1>2, <1>3 DEF MadeFiles, OnlyCutTwice, IsFile, Allocated
<1>4. ASSUME NEW dir, NEW name \in Names, TmpfsCreateDone(dir, name)
      PROVE  OnlyCutTwice'
  <2>1. PICK new \in NodeIds :
              /\ vnode[new] = NULL /\ vnode'[new] # NULL
              /\ vnode'[new] = [type |-> "TMPFS_TYPE_FILE", name |-> Stored[name], parent |-> dir]
              /\ dir \in NodeIds
              /\ \A n \in NodeIds \ {new} : vnode'[n] = vnode[n]
    BY <1>4, CreateShape DEF ResInv
  <2>2. TmpfsFindChild(dir, name) = NULL
    BY <1>4 DEF TmpfsCreateDone
  <2>3. ASSUME NEW n \in NodeIds \ {new}, IsFile(n)', n \notin freed, vnode'[n].parent = dir,
               vnode'[n].name = Stored[name]
        PROVE  name # Stored[name]
    <3>1. IsFile(n) /\ vnode[n].parent = dir /\ vnode[n].name = Stored[name]
      BY <2>1, <2>3 DEF IsFile, Allocated
    <3>2. TmpfsFindChild(dir, Stored[name]) # NULL
      BY <2>1, <2>3, <3>1, FittingNameFound
    <3> QED
      BY <2>2, <3>2
  <2>4. ASSUME NEW m \in NodeIds \ freed', NEW n \in NodeIds \ freed', IsFile(m)', IsFile(n)', m # n,
               vnode'[m].parent = vnode'[n].parent, vnode'[m].name = vnode'[n].name
        PROVE  \E s \in Names : s # Stored[s] /\ Stored[s] = vnode'[m].name
    <3>1. m \notin freed /\ n \notin freed
      BY <1>1
    <3>2. CASE m = new
      <4>1. name # Stored[name]
        BY <2>1, <2>3, <2>4, <3>1, <3>2
      <4> QED
        BY <2>1, <3>2, <4>1
    <3>3. CASE n = new
      <4>1. name # Stored[name]
        BY <2>1, <2>3, <2>4, <3>1, <3>3
      <4> QED
        BY <2>1, <2>4, <3>3, <4>1
    <3>4. CASE m # new /\ n # new
      <4>1. /\ IsFile(m) /\ IsFile(n) /\ vnode'[m] = vnode[m]
            /\ vnode[m].parent = vnode[n].parent /\ vnode[m].name = vnode[n].name
        BY <2>1, <2>4, <3>4 DEF IsFile, Allocated
      <4> QED
        BY <2>4, <3>1, <4>1 DEF OnlyCutTwice
    <3> QED
      BY <3>2, <3>3, <3>4
  <2> QED
    BY <2>4 DEF OnlyCutTwice
<1>5. ASSUME vnode' = vnode PROVE MadeFiles = {}
  BY <1>5 DEF MadeFiles, IsFile, Allocated
<1>6. ASSUME NewRoot, freed' = freed PROVE MadeFiles = {}
  BY <1>6, NewRootFacts
<1>7. CASE \E fs \in FsNames \cup {NULL} : RegisterFs(fs)
  BY <1>3, <1>5, <1>7 DEF RegisterFs, NsFail, nsState, tree
<1>8. CASE \E path \in AllPaths, fs \in FsNames : VfsMount(path, fs)
  BY <1>3, <1>5, <1>6, <1>8 DEF VfsMount, VfsMountRefused, VfsMountNoMemory, VfsMountDone, NsFail, nsState
<1>9. CASE \E d \in Resolved, n \in Names : TmpfsCreate(d, n) \/ TmpfsUnlink(d, n)
  BY <1>3, <1>4, <1>5, <1>9 DEF TmpfsCreate, TmpfsCreateRefused, TmpfsUnlink, TmpfsUnlinkRefused,
       TmpfsUnlinkDone, NsFail, nsState
<1> QED
  BY <1>7, <1>8, <1>9 DEF NsNext

\* The initial state has no file.
LEMMA InitCutTwice == NsInit => OnlyCutTwice
BY DEF NsInit, OnlyCutTwice, IsFile, Allocated

\* And no step makes a file that shares its name but by the cut.
LEMMA NextCutTwice == ResInv /\ OnlyCutTwice /\ [NsNext]_nsState => OnlyCutTwice'
BY CutTwiceKept DEF nsState, OnlyCutTwice, IsFile, Allocated

\* Two live siblings share a name only if it is what some longer name is cut to, for
\* any tree.
THEOREM NamesCutTwice == NsSpec => []OnlyCutTwice
BY StateStep, InitResInv, InitCutTwice, NextResInv, NextCutTwice, PTL DEF NsSpec

\* So where every name fits its field no two live siblings share one.
THEOREM FittingNamesUnique ==
    ASSUME \A name \in Names : Stored[name] = name
    PROVE  NsSpec => []UniqueSiblings
<1>1. OnlyCutTwice => UniqueSiblings
  BY DEF OnlyCutTwice, UniqueSiblings
<1> QED
  BY <1>1, NamesCutTwice, PTL

-----------------------------------------------------------------------------
(* Files and descriptors *)

IInv == TypeOK /\ RefcountExact /\ OffsetWithinSize /\ OneSlotPerFile /\ FdZeroDead

\* The struct file kmalloc() hands out was not in use.
LEMMA FreshFileIsNew ==
    ASSUME HeapHasFile
    PROVE  FreshFile \in FileIds /\ file[FreshFile] = NULL
BY DEF HeapHasFile, FreshFile

\* A file process_get_file() returns is an opened one, in a descriptor above 0.
LEMMA GetFileOpened ==
    ASSUME IInv, NEW fd \in FdArgs, GetFile(fd) # NULL
    PROVE  /\ GetFile(fd) \in Opened
           /\ file[GetFile(fd)] \in FileType
           /\ GetFile(fd) # files[0]
<1>1. fd \in 1 .. OPEN_MAX - 1 /\ GetFile(fd) = files[fd] /\ files[fd] # NULL
  BY DEF GetFile
<1>2. fd \in Fds /\ 0 \in Fds /\ fd # 0
  BY <1>1, OpenAssumption DEF Fds
<1>3. files[fd] \in Opened
  BY <1>1, <1>2 DEF IInv, OneSlotPerFile
<1>4. file[files[fd]] \in FileType
  BY <1>3 DEF IInv, TypeOK, Opened
<1>5. files[fd] # files[0]
  BY <1>1, <1>2 DEF IInv, OneSlotPerFile
<1> QED
  BY <1>1, <1>3, <1>4, <1>5

\* The files open on a vnode are finitely many.
LEMMA OpenOnFinite == ASSUME NEW n PROVE IsFiniteSet(OpenOn(n)) /\ Cardinality(OpenOn(n)) \in Nat
<1>1. OpenOn(n) \subseteq FileIds
  BY DEF OpenOn, Opened
<1> QED
  BY <1>1, FileAssumption, FS_Subset, FS_CardinalityType

-----------------------------------------------------------------------------
\* Nothing is open at boot.
LEMMA InitIInv == Init => IInv
<1> SUFFICES ASSUME Init PROVE IInv
  OBVIOUS
<1>1. NsTypeOK
  BY NsInitType DEF Init
<1>2. TypeOK
  BY <1>1 DEF Init, OpenInit, TypeOK
<1>3. Opened = {}
  BY DEF Init, OpenInit, Opened
<1>4. RefcountExact
  <2>1. \A n \in Nodes : OpenOn(n) = {}
    BY <1>3 DEF OpenOn
  <2>2. \A n \in Nodes : refcount[n] = 1
    BY DEF Init, OpenInit
  <2> QED
    BY <2>1, <2>2, FS_EmptySet DEF RefcountExact
<1>5. OffsetWithinSize
  BY <1>3 DEF OffsetWithinSize
<1>6. OneSlotPerFile /\ FdZeroDead
  BY <1>3, OpenAssumption DEF OneSlotPerFile, FdZeroDead, Init, OpenInit, Fds
<1> QED
  BY <1>2, <1>4, <1>5, <1>6 DEF IInv

-----------------------------------------------------------------------------
\* A call that moves only the name space keeps the descriptors' invariant.
LEMMA NamespaceStep ==
    ASSUME IInv, NsNext, UNCHANGED <<fdVars, undefined>>
    PROVE  IInv'
<1>1. NsTypeOK'
  BY NsNextType DEF IInv, TypeOK
<1>2. TypeOK'
  BY <1>1 DEF IInv, TypeOK, fdVars
<1>3. RefcountExact'
  BY DEF IInv, RefcountExact, OpenOn, Opened, fdVars
<1>4. OffsetWithinSize'
  <2> SUFFICES ASSUME NEW f \in Opened'
               PROVE  IF IsFile(file[f].node)' THEN file[f].offset <= size[file[f].node]
                      ELSE file[f].offset = 0
    BY DEF OffsetWithinSize, fdVars
  <2>1. f \in Opened /\ file[f] \in FileType /\ file[f].offset \in Nat /\ file[f].node \in Nodes
    BY DEF Opened, fdVars, IInv, TypeOK, FileType
  <2>2. CASE IsFile(file[f].node)
    <3>1. IsFile(file[f].node)'
      <4>1. file[f].node \in NodeIds /\ vnode[file[f].node] # NULL
        BY <2>2 DEF IsFile, Allocated
      <4>2. vnode'[file[f].node] = vnode[file[f].node]
        BY <4>1, NodesPersist DEF IInv, TypeOK
      <4> QED
        BY <2>2, <4>1, <4>2 DEF IsFile, Allocated, fdVars
    <3>2. file[f].offset <= size[file[f].node]
      BY <2>1, <2>2 DEF IInv, OffsetWithinSize
    <3> QED
      BY <3>1, <3>2
  <2>3. CASE ~IsFile(file[f].node)
    <3>1. file[f].offset = 0
      BY <2>1, <2>3 DEF IInv, OffsetWithinSize
    <3>2. IsFile(file[f].node)' => size[file[f].node] \in Nat
      BY DEF IsFile, Allocated, IInv, TypeOK, fdVars
    <3> QED
      BY <3>1, <3>2
  <2> QED
    BY <2>2, <2>3
<1>5. OneSlotPerFile' /\ FdZeroDead'
  BY DEF IInv, OneSlotPerFile, FdZeroDead, Opened, fdVars
<1> QED
  BY <1>2, <1>3, <1>4, <1>5 DEF IInv

\* A call that moves no descriptor, file, count or size keeps the invariant.
LEMMA QuietStep ==
    ASSUME IInv, UNCHANGED <<nsState, fdVars>>, ret' \in Int,
           undefined' \in {"no", "past the table", "no ops"}
    PROVE  IInv'
<1>1. TypeOK'
  BY DEF IInv, TypeOK, NsTypeOK, nsState, fdVars
<1>2. RefcountExact'
  BY DEF IInv, RefcountExact, OpenOn, Opened, fdVars
<1>3. OffsetWithinSize'
  BY DEF IInv, OffsetWithinSize, IsFile, Allocated, Opened, fdVars, nsState
<1>4. OneSlotPerFile' /\ FdZeroDead'
  BY DEF IInv, OneSlotPerFile, FdZeroDead, Opened, fdVars
<1> QED
  BY <1>1, <1>2, <1>3, <1>4 DEF IInv

\* The return value is the only part of the name space a system call changes.
LEMMA NsTypeKept ==
    ASSUME NsTypeOK, UNCHANGED nsState, ret' \in Int
    PROVE  NsTypeOK'
BY DEF NsTypeOK, nsState

\* A system call that fails.
LEMMA FailStep ==
    ASSUME IInv, UNCHANGED nsState, NEW e \in Int, Fail(e)
    PROVE  IInv'
<1>1. ret' \in Int
  BY DEF Fail
<1>3. undefined' \in {"no", "past the table", "no ops"}
  BY DEF Fail, IInv, TypeOK
<1>2. UNCHANGED <<nsState, fdVars>>
  BY DEF Fail
<1> QED
  BY <1>1, <1>2, <1>3, QuietStep

\* A call whose behaviour the source does not define.
LEMMA UndefinedStep ==
    ASSUME IInv, UNCHANGED nsState, NEW why \in {"past the table", "no ops"}, Undefined(why)
    PROVE  IInv'
<1>1. ret' \in Int /\ undefined' \in {"no", "past the table", "no ops"}
  BY DEF Undefined, IInv, TypeOK, NsTypeOK
<1>2. UNCHANGED <<nsState, fdVars>>
  BY DEF Undefined
<1> QED
  BY <1>1, <1>2, QuietStep

-----------------------------------------------------------------------------
\* open() puts a new file into one free descriptor and counts it on its vnode.
LEMMA OpenStep ==
    ASSUME IInv, UNCHANGED nsState, NEW path, NEW flags \in OpenFlags, SysOpenDone(path, flags)
    PROVE  IInv'
<1> DEFINE new == FreshFile
<1>1. PICK n \in Nodes : FileCreate(n, flags)
  BY DEF SysOpenDone
<1>2. PICK fd \in Fds : AllocFd(fd) /\ files' = [files EXCEPT ![fd] = new] /\ ret' = fd
  BY DEF SysOpenDone
<1>3. new \in FileIds /\ file[new] = NULL
  BY FreshFileIsNew DEF SysOpenDone
<1>4. files[fd] = NULL
  BY <1>2 DEF AllocFd, FreeFds
<1> DEFINE rec == [node |-> n, offset |-> 0, flags |-> flags, refcount |-> 1]
<1>5. rec \in FileType
  BY OpenAssumption DEF FileType, Modes
<1>6. file' = [file EXCEPT ![new] = rec] /\ refcount' = [refcount EXCEPT ![n] = @ + 1]
  BY <1>1 DEF FileCreate
<1>7. /\ files \in [Fds -> FileIds \cup {NULL}] /\ file \in [FileIds -> FileType \cup {NULL}]
      /\ refcount \in [Nodes -> Nat] /\ size \in [NodeIds -> Nat]
  BY DEF IInv, TypeOK
<1>8. UNCHANGED <<nsState, size, undefined>>
  BY DEF SysOpenDone
<1>9. rec # NULL
  BY <1>5, FileAssumption
<1>10. file'[new] = rec /\ \A f \in FileIds : f # new => file'[f] = file[f]
  BY <1>3, <1>6, <1>7
<1>11. Opened' = Opened \cup {new} /\ new \notin Opened
  BY <1>3, <1>9, <1>10 DEF Opened
<1>12. TypeOK'
  <2>1. ret' \in Int
    BY <1>2, OpenAssumption DEF Fds
  <2>2. NsTypeOK'
    BY <1>8, <2>1 DEF IInv, TypeOK, NsTypeOK, nsState
  <2>3. files' \in [Fds -> FileIds \cup {NULL}]
    BY <1>2, <1>3, <1>7
  <2>4. file' \in [FileIds -> FileType \cup {NULL}]
    BY <1>5, <1>6, <1>7
  <2>5. refcount' \in [Nodes -> Nat]
    BY <1>6, <1>7
  <2> QED
    BY <1>8, <2>2, <2>3, <2>4, <2>5 DEF IInv, TypeOK
<1>13. RefcountExact'
  <2> SUFFICES ASSUME NEW m \in Nodes
               PROVE  refcount'[m] = 1 + Cardinality(OpenOn(m)')
    BY DEF RefcountExact
  <2>1. refcount[m] = 1 + Cardinality(OpenOn(m))
    BY DEF IInv, RefcountExact
  <2>2. IsFiniteSet(OpenOn(m)) /\ Cardinality(OpenOn(m)) \in Nat /\ new \notin OpenOn(m)
    BY <1>11, OpenOnFinite DEF OpenOn
  <2>3. CASE m = n
    <3>1. OpenOn(m)' = OpenOn(m) \cup {new}
      BY <1>10, <1>11, <2>3 DEF OpenOn, Opened
    <3>2. Cardinality(OpenOn(m)') = Cardinality(OpenOn(m)) + 1
      BY <2>2, <3>1, FS_AddElement
    <3>3. refcount'[m] = refcount[m] + 1
      BY <1>6, <1>7, <2>3
    <3> QED
      BY <2>1, <2>2, <3>2, <3>3
  <2>4. CASE m # n
    <3>1. OpenOn(m)' = OpenOn(m)
      BY <1>10, <1>11, <2>4 DEF OpenOn, Opened
    <3>2. refcount'[m] = refcount[m]
      BY <1>6, <1>7, <2>4
    <3> QED
      BY <2>1, <3>1, <3>2
  <2> QED
    BY <2>3, <2>4
<1>14. OffsetWithinSize'
  <2> SUFFICES ASSUME NEW f \in Opened'
               PROVE  IF IsFile(file'[f].node) THEN file'[f].offset <= size[file'[f].node]
                      ELSE file'[f].offset = 0
    BY <1>8 DEF OffsetWithinSize, IsFile, Allocated, nsState
  <2>1. CASE f = new
    BY <1>7, <1>10, <2>1 DEF IsFile, Allocated
  <2>2. CASE f \in Opened /\ f # new
    BY <1>10, <2>2 DEF IInv, OffsetWithinSize, Opened
  <2> QED
    BY <1>11, <2>1, <2>2
<1>15. OneSlotPerFile'
  <2>1. files'[fd] = new /\ \A other \in Fds : other # fd => files'[other] = files[other]
    BY <1>2, <1>7
  <2>2. \A other \in Fds : files[other] # new
    BY <1>3, <1>11, FileAssumption, OpenAssumption DEF IInv, OneSlotPerFile
  <2>3. \A g \in Fds : files'[g] # NULL => files'[g] \in Opened'
    BY <1>11, <2>1 DEF IInv, OneSlotPerFile
  <2>4. \A f \in Opened' : \E g \in Fds : files'[g] = f
    <3> SUFFICES ASSUME NEW f \in Opened' PROVE \E g \in Fds : files'[g] = f
      OBVIOUS
    <3>1. CASE f = new
      BY <1>2, <2>1, <3>1
    <3>2. CASE f \in Opened
      <4>1. PICK g \in Fds : files[g] = f
        BY <3>2 DEF IInv, OneSlotPerFile
      <4>2. g # fd
        BY <1>4, <3>2, <4>1, OpenAssumption DEF Opened
      <4> QED
        BY <2>1, <4>1, <4>2
    <3> QED
      BY <1>11, <3>1, <3>2
  <2>5. \A g, other \in Fds : files'[g] = files'[other] /\ files'[g] # NULL => g = other
    BY <2>1, <2>2 DEF IInv, OneSlotPerFile
  <2> QED
    BY <2>3, <2>4, <2>5 DEF OneSlotPerFile
<1>16. FdZeroDead'
  <2>1. 0 \in Fds
    BY OpenAssumption DEF Fds
  <2>2. CASE fd = 0
    BY <1>2, <1>7, <1>10, <2>1, <2>2 DEF FdZeroDead
  <2>3. CASE fd # 0
    <3>1. files'[0] = files[0]
      BY <1>2, <1>7, <2>1, <2>3
    <3>2. files[0] # NULL => files[0] \in Opened
      BY <2>1 DEF IInv, OneSlotPerFile
    <3>3. files[0] # NULL => file'[files[0]] = file[files[0]]
      BY <1>10, <1>11, <3>2 DEF Opened
    <3> QED
      BY <3>1, <3>3 DEF IInv, FdZeroDead
  <2> QED
    BY <2>2, <2>3
<1> QED
  BY <1>12, <1>13, <1>14, <1>15, <1>16 DEF IInv

-----------------------------------------------------------------------------
\* A step that changes one field of one opened file other than the offset, and no
\* descriptor, keeps what is said of descriptors and types.
LEMMA SlotsKept ==
    ASSUME IInv, NEW f \in Opened, f # files[0], NEW rec \in FileType,
           file' = [file EXCEPT ![f] = rec], UNCHANGED files
    PROVE  /\ file' \in [FileIds -> FileType \cup {NULL}]
           /\ Opened' = Opened
           /\ \A g \in FileIds : g # f => file'[g] = file[g]
           /\ file'[f] = rec
           /\ OneSlotPerFile'
           /\ FdZeroDead'
<1>1. file \in [FileIds -> FileType \cup {NULL}] /\ f \in FileIds /\ rec # NULL
  BY FileAssumption DEF IInv, TypeOK, Opened
<1>2. file'[f] = rec /\ \A g \in FileIds : g # f => file'[g] = file[g]
  BY <1>1
<1>3. Opened' = Opened
  BY <1>1, <1>2 DEF Opened
<1>4. OneSlotPerFile'
  BY <1>3 DEF IInv, OneSlotPerFile
<1>5. FdZeroDead'
  <2>1. files[0] # NULL => files[0] \in Opened
    BY OpenAssumption DEF IInv, OneSlotPerFile, Fds
  <2>2. files[0] # NULL => file'[files[0]] = file[files[0]]
    BY <1>2, <2>1 DEF Opened
  <2> QED
    BY <2>2 DEF IInv, FdZeroDead
<1> QED
  BY <1>1, <1>2, <1>3, <1>4, <1>5

\* Where every offset and size stays, so does OffsetWithinSize.
LEMMA OffsetsKept ==
    ASSUME OffsetWithinSize, Opened' = Opened, UNCHANGED <<nsState, size>>,
           \A g \in Opened : file'[g].node = file[g].node /\ file'[g].offset = file[g].offset
    PROVE  OffsetWithinSize'
BY DEF OffsetWithinSize, IsFile, Allocated, nsState

\* close() takes the file off its vnode's count once, at the close that finds one
\* reference, and never again.
LEMMA CloseStep ==
    ASSUME IInv, UNCHANGED nsState, NEW fd \in FdArgs, SysClose(fd)
    PROVE  IInv'
<1>1. CASE PastTable(fd) /\ Undefined("past the table")
  BY <1>1, UndefinedStep
<1>2. CASE Fail(ENOENT)
  BY <1>2, FailStep DEF ENOENT
<1>3. CASE /\ GetFile(fd) # NULL
           /\ CloseLast(GetFile(fd)) \/ CloseAgain(GetFile(fd))
           /\ ret' = 0
           /\ UNCHANGED <<files, size, undefined>>
  <2> DEFINE f == GetFile(fd)
  <2>1. f \in Opened /\ file[f] \in FileType /\ f # files[0]
    BY <1>3, GetFileOpened
  <2>2. /\ refcount \in [Nodes -> Nat] /\ file \in [FileIds -> FileType \cup {NULL}]
        /\ f \in FileIds /\ file[f].node \in Nodes /\ file[f].refcount \in Int
    BY <2>1 DEF IInv, TypeOK, Opened, FileType
  <2>3. \A n \in Nodes : /\ refcount[n] = 1 + Cardinality(OpenOn(n))
                         /\ IsFiniteSet(OpenOn(n)) /\ Cardinality(OpenOn(n)) \in Nat
    BY OpenOnFinite DEF IInv, RefcountExact
  <2>4. NsTypeOK'
    <3>1. ret' \in Int
      BY <1>3
    <3> QED
      BY <3>1, NsTypeKept DEF IInv, TypeOK
  <2>5. CASE CloseLast(f)
    <3> DEFINE rec == [file[f] EXCEPT !.refcount = -1]
    <3>1. rec \in FileType /\ file' = [file EXCEPT ![f] = rec]
      BY <2>1, <2>2, <2>5 DEF CloseLast, FileType
    <3>2. /\ file' \in [FileIds -> FileType \cup {NULL}] /\ Opened' = Opened
          /\ \A g \in FileIds : g # f => file'[g] = file[g]
          /\ file'[f] = rec /\ OneSlotPerFile' /\ FdZeroDead'
      BY <1>3, <2>1, <3>1, SlotsKept
    <3>3. rec.node = file[f].node /\ rec.offset = file[f].offset /\ rec.refcount = -1
      BY <2>1 DEF FileType
    <3>4. f \in OpenOn(file[f].node) /\ refcount[file[f].node] > 1
      <4>1. f \in OpenOn(file[f].node)
        BY <2>1, <2>5 DEF OpenOn, CloseLast
      <4>2. Cardinality(OpenOn(file[f].node)) # 0
        BY <2>2, <2>3, <4>1, FS_EmptySet
      <4> QED
        BY <2>2, <2>3, <4>1, <4>2
    <3>5. /\ refcount' \in [Nodes -> Nat]
          /\ refcount'[file[f].node] = refcount[file[f].node] - 1
          /\ \A n \in Nodes : n # file[f].node => refcount'[n] = refcount[n]
      <4>1. refcount' = [refcount EXCEPT ![file[f].node] =
                            IF refcount[file[f].node] > 0 THEN refcount[file[f].node] - 1
                            ELSE refcount[file[f].node]]
        BY <2>5 DEF CloseLast
      <4>2. refcount[file[f].node] \in Nat /\ refcount[file[f].node] - 1 \in Nat
        BY <2>2, <3>4
      <4> QED
        BY <2>2, <3>4, <4>1, <4>2
    <3>6. TypeOK'
      BY <1>3, <2>2, <2>4, <3>2, <3>4, <3>5 DEF IInv, TypeOK
    <3>7. RefcountExact'
      <4> SUFFICES ASSUME NEW n \in Nodes
                   PROVE  refcount'[n] = 1 + Cardinality(OpenOn(n)')
        BY DEF RefcountExact
      <4>1. CASE n = file[f].node
        <5>1. OpenOn(n)' = OpenOn(n) \ {f}
          <6>1. \A g \in Opened : g # f => file'[g] = file[g]
            BY <3>2 DEF Opened
          <6>2. ~(file'[f].refcount > 0)
            BY <3>2, <3>3
          <6> QED
            BY <3>2, <6>1, <6>2 DEF OpenOn
        <5>2. Cardinality(OpenOn(n)') = Cardinality(OpenOn(n)) - 1
          BY ZenonT(60), <2>3, <3>4, <4>1, <5>1, FS_RemoveElement
        <5>3. refcount'[n] = refcount[n] - 1
          BY <3>5, <4>1
        <5> QED
          BY <2>2, <2>3, <5>2, <5>3
      <4>2. CASE n # file[f].node
        <5>1. OpenOn(n)' = OpenOn(n)
          BY <3>2, <3>3, <4>2 DEF OpenOn, Opened
        <5>2. refcount'[n] = refcount[n]
          BY <2>2, <3>5, <4>2
        <5> QED
          BY <2>3, <5>1, <5>2
      <4> QED
        BY <4>1, <4>2
    <3>8. OffsetWithinSize'
      <4>1. \A g \in Opened : /\ file'[g].node = file[g].node
                              /\ file'[g].offset = file[g].offset
        BY <3>2, <3>3 DEF Opened
      <4> QED
        BY <1>3, <3>2, <4>1, OffsetsKept DEF IInv
    <3> QED
      BY <3>2, <3>6, <3>7, <3>8 DEF IInv
  <2>6. CASE CloseAgain(f)
    <3> DEFINE rec == [file[f] EXCEPT !.refcount = @ - 1]
    <3>1. rec \in FileType /\ file' = [file EXCEPT ![f] = rec]
      BY <2>1, <2>2, <2>6 DEF CloseAgain, FileType
    <3>2. /\ file' \in [FileIds -> FileType \cup {NULL}] /\ Opened' = Opened
          /\ \A g \in FileIds : g # f => file'[g] = file[g]
          /\ file'[f] = rec /\ OneSlotPerFile' /\ FdZeroDead'
      BY <1>3, <2>1, <3>1, SlotsKept
    <3>3. /\ rec.node = file[f].node /\ rec.offset = file[f].offset
          /\ rec.refcount = file[f].refcount - 1
      BY <2>1 DEF FileType
    <3>4. (rec.refcount > 0) <=> (file[f].refcount > 0)
      BY <2>2, <2>6, <3>3 DEF CloseAgain
    <3>5. UNCHANGED refcount
      BY <2>6 DEF CloseAgain
    <3>6. TypeOK'
      BY <1>3, <2>4, <3>2, <3>5 DEF IInv, TypeOK
    <3>7. \A n : OpenOn(n)' = OpenOn(n)
      <4>1. ASSUME NEW g \in Opened
            PROVE  /\ file'[g].node = file[g].node
                   /\ (file'[g].refcount > 0) <=> (file[g].refcount > 0)
        <5>1. CASE g = f
          <6> HIDE DEF rec
          <6> QED
            BY <3>2, <3>3, <3>4, <5>1
        <5>2. CASE g # f
          BY <3>2, <5>2 DEF Opened
        <5> QED
          BY <5>1, <5>2
      <4>2. Opened' = Opened
        BY <3>2
      <4> HIDE DEF rec
      <4> QED
        BY <4>1, <4>2 DEF OpenOn
    <3>8. RefcountExact'
      BY <2>3, <3>5, <3>7 DEF RefcountExact
    <3>9. OffsetWithinSize'
      <4>1. \A g \in Opened : /\ file'[g].node = file[g].node
                              /\ file'[g].offset = file[g].offset
        BY <3>2, <3>3 DEF Opened
      <4> QED
        BY <1>3, <3>2, <4>1, OffsetsKept DEF IInv
    <3> QED
      BY <3>2, <3>6, <3>8, <3>9 DEF IInv
  <2> QED
    BY <1>3, <2>5, <2>6
<1> QED
  BY <1>1, <1>2, <1>3 DEF SysClose

-----------------------------------------------------------------------------
\* A read() or write() that the tests of its arguments end.
LEMMA IoRefusedStep ==
    ASSUME IInv, UNCHANGED nsState, NEW fd, NEW buf, NEW count, NEW allowed,
           IoRefused(fd, buf, count, allowed)
    PROVE  IInv'
<1>1. CASE Fail(EFAULT) \/ Fail(EBADF) \/ Fail(EACCES)
  BY <1>1, FailStep DEF EFAULT, EBADF, EACCES
<1>2. CASE ret' = 0 /\ UNCHANGED <<fdVars, undefined>>
  <2>1. ret' \in Int
    BY <1>2
  <2>2. undefined' \in {"no", "past the table", "no ops"}
    BY <1>2 DEF IInv, TypeOK
  <2>3. UNCHANGED <<nsState, fdVars>>
    BY <1>2
  <2> QED
    BY <2>1, <2>2, <2>3, QuietStep
<1>3. CASE Undefined("past the table")
  BY <1>3, UndefinedStep
<1> QED
  BY <1>1, <1>2, <1>3 DEF IoRefused

\* What moves the offset of an open file keeps the counts, whatever else it does.
LEMMA AdvanceKeeps ==
    ASSUME IInv, NEW f \in Opened, f # files[0], NEW n \in Nat, Advance(f, n),
           UNCHANGED <<files, refcount>>
    PROVE  /\ file' \in [FileIds -> FileType \cup {NULL}]
           /\ Opened' = Opened
           /\ \A g \in Opened : g # f => file'[g] = file[g]
           /\ file'[f].node = file[f].node
           /\ file'[f].offset = file[f].offset + n
           /\ RefcountExact' /\ OneSlotPerFile' /\ FdZeroDead'
<1> DEFINE rec == [file[f] EXCEPT !.offset = @ + n]
<1>1. file[f] \in FileType
  BY DEF IInv, TypeOK, Opened
<1>2. file[f].offset + n \in Nat
  BY <1>1 DEF FileType
<1>3. rec \in FileType /\ file' = [file EXCEPT ![f] = rec]
  BY <1>1, <1>2 DEF FileType, Advance
<1>4. /\ file' \in [FileIds -> FileType \cup {NULL}] /\ Opened' = Opened
      /\ \A g \in FileIds : g # f => file'[g] = file[g]
      /\ file'[f] = rec /\ OneSlotPerFile' /\ FdZeroDead'
  BY <1>3, SlotsKept
<1>5. /\ rec.node = file[f].node /\ rec.refcount = file[f].refcount
      /\ rec.offset = file[f].offset + n
  BY <1>1 DEF FileType
<1>6. \A g \in Opened : g # f => file'[g] = file[g]
  BY <1>4 DEF Opened
<1>7. \A m : OpenOn(m)' = OpenOn(m)
  <2>1. \A g \in Opened : /\ file'[g].node = file[g].node
                          /\ file'[g].refcount = file[g].refcount
    BY <1>4, <1>5, <1>6
  <2> QED
    BY <1>4, <2>1 DEF OpenOn
<1>8. RefcountExact'
  BY <1>7 DEF IInv, RefcountExact
<1> QED
  BY <1>4, <1>5, <1>6, <1>8

\* tmpfs_read() returns no more than is left, so the offset stays in the file.
LEMMA ReadStep ==
    ASSUME IInv, UNCHANGED nsState, NEW fd \in FdArgs, NEW buf, NEW count \in Counts,
           SysRead(fd, buf, count)
    PROVE  IInv'
<1>1. CASE IoRefused(fd, buf, count, Readable)
  BY <1>1, IoRefusedStep
<1>2. CASE IoReady(fd, buf, count, Readable) /\ SysReadDone(GetFile(fd), count)
  <2> DEFINE f == GetFile(fd)
  <2>1. f \in Opened /\ file[f] \in FileType /\ f # files[0]
    BY <1>2, GetFileOpened DEF IoReady
  <2>2. CASE Undefined("no ops")
    BY <2>2, UndefinedStep
  <2>3. CASE Fail(EINVAL)
    BY <2>3, FailStep DEF EINVAL
  <2>4. CASE /\ IsFile(file[f].node)
             /\ Advance(f, Available(f, count))
             /\ ret' = Available(f, count)
             /\ UNCHANGED <<files, refcount, size, undefined>>
    <3>1. /\ file[f].node \in NodeIds /\ file[f].offset \in Nat
          /\ size[file[f].node] \in Nat /\ count \in Nat
      BY <2>1, <2>4, OpenAssumption DEF IsFile, Allocated, FileType, IInv, TypeOK
    <3>2. file[f].offset <= size[file[f].node]
      BY <2>1, <2>4 DEF IInv, OffsetWithinSize
    <3>3. Available(f, count) \in Nat /\ file[f].offset + Available(f, count) <= size[file[f].node]
      BY <3>1, <3>2 DEF Available
    <3>4. /\ file' \in [FileIds -> FileType \cup {NULL}] /\ Opened' = Opened
          /\ \A g \in Opened : g # f => file'[g] = file[g]
          /\ file'[f].node = file[f].node
          /\ file'[f].offset = file[f].offset + Available(f, count)
          /\ RefcountExact' /\ OneSlotPerFile' /\ FdZeroDead'
      BY <2>1, <2>4, <3>3, AdvanceKeeps
    <3>5. TypeOK'
      <4>1. ret' \in Int
        BY <2>4, <3>3
      <4>2. NsTypeOK'
        BY <4>1, NsTypeKept DEF IInv, TypeOK
      <4> QED
        BY <2>4, <3>4, <4>2 DEF IInv, TypeOK
    <3>6. OffsetWithinSize'
      <4> SUFFICES ASSUME NEW g \in Opened
                   PROVE  IF IsFile(file'[g].node) THEN file'[g].offset <= size[file'[g].node]
                          ELSE file'[g].offset = 0
        BY <2>4, <3>4 DEF OffsetWithinSize, IsFile, Allocated, nsState
      <4>1. CASE g = f
        BY <2>4, <3>3, <3>4, <4>1
      <4>2. CASE g # f
        BY <3>4, <4>2 DEF IInv, OffsetWithinSize
      <4> QED
        BY <4>1, <4>2
    <3> QED
      BY <3>4, <3>5, <3>6 DEF IInv
  <2> QED
    BY <1>2, <2>2, <2>3, <2>4 DEF SysReadDone
<1> QED
  BY <1>1, <1>2 DEF SysRead

\* tmpfs_write() leaves the size at or past where the writer ends, and no other
\* offset past it.
LEMMA WriteStep ==
    ASSUME IInv, UNCHANGED nsState, NEW fd \in FdArgs, NEW buf, NEW count \in Counts,
           SysWrite(fd, buf, count)
    PROVE  IInv'
<1>1. CASE IoRefused(fd, buf, count, Writable)
  BY <1>1, IoRefusedStep
<1>2. CASE IoReady(fd, buf, count, Writable) /\ SysWriteDone(GetFile(fd), count)
  <2> DEFINE f == GetFile(fd)
             node == file[f].node
             required == file[f].offset + count
  <2>1. f \in Opened /\ file[f] \in FileType /\ f # files[0]
    BY <1>2, GetFileOpened DEF IoReady
  <2>2. CASE Fail(ENOSYS) \/ Fail(EINVAL) \/ Fail(ENOSPC)
    BY <2>2, FailStep DEF ENOSYS, EINVAL, ENOSPC
  <2>3. CASE /\ IsFile(node)
             /\ required <= MaxSize
             /\ size' = [size EXCEPT ![node] = IF required > @ THEN required ELSE @]
             /\ Advance(f, count)
             /\ ret' = count
             /\ UNCHANGED <<files, refcount, undefined>>
    <3>1. /\ node \in NodeIds /\ file[f].offset \in Nat /\ size \in [NodeIds -> Nat]
          /\ count \in Nat /\ required \in Nat
      <4>1. node \in NodeIds
        BY <2>3 DEF IsFile, Allocated
      <4>2. file[f].offset \in Nat
        BY <2>1 DEF FileType
      <4>3. count \in Nat
        BY OpenAssumption
      <4>4. size \in [NodeIds -> Nat]
        BY DEF IInv, TypeOK
      <4> QED
        BY <4>1, <4>2, <4>3, <4>4
    <3>2. /\ size' \in [NodeIds -> Nat] /\ required <= size'[node]
          /\ \A n \in NodeIds : size[n] <= size'[n]
      <4>1. /\ size'[node] = IF required > size[node] THEN required ELSE size[node]
            /\ \A n \in NodeIds : n # node => size'[n] = size[n]
        BY <2>3, <3>1
      <4>2. size' \in [NodeIds -> Nat]
        BY <2>3, <3>1
      <4> QED
        BY <3>1, <4>1, <4>2
    <3>3. /\ file' \in [FileIds -> FileType \cup {NULL}] /\ Opened' = Opened
          /\ \A g \in Opened : g # f => file'[g] = file[g]
          /\ file'[f].node = node
          /\ file'[f].offset = required
          /\ RefcountExact' /\ OneSlotPerFile' /\ FdZeroDead'
      BY <2>1, <2>3, <3>1, AdvanceKeeps
    <3>4. TypeOK'
      <4>1. ret' \in Int
        BY <2>3, <3>1
      <4>2. NsTypeOK'
        BY <4>1, NsTypeKept DEF IInv, TypeOK
      <4> QED
        BY <2>3, <3>2, <3>3, <4>2 DEF IInv, TypeOK
    <3>5. OffsetWithinSize'
      <4> SUFFICES ASSUME NEW g \in Opened
                   PROVE  IF IsFile(file'[g].node) THEN file'[g].offset <= size'[file'[g].node]
                          ELSE file'[g].offset = 0
        BY <3>3 DEF OffsetWithinSize, IsFile, Allocated, nsState
      <4>1. CASE g = f
        BY <2>3, <3>2, <3>3, <4>1
      <4>2. CASE g # f /\ IsFile(file[g].node)
        <5>1. /\ file[g].offset <= size[file[g].node] /\ file[g].node \in NodeIds
              /\ file[g].offset \in Nat
          BY <4>2 DEF IInv, TypeOK, OffsetWithinSize, IsFile, Allocated, Opened, FileType
        <5>2. size[file[g].node] <= size'[file[g].node]
          BY <3>2, <5>1
        <5>3. size[file[g].node] \in Nat /\ size'[file[g].node] \in Nat
          BY <3>1, <3>2, <5>1
        <5> QED
          BY <3>3, <4>2, <5>1, <5>2, <5>3
      <4>3. CASE g # f /\ ~IsFile(file[g].node)
        BY <3>3, <4>3 DEF IInv, OffsetWithinSize
      <4> QED
        BY <4>1, <4>2, <4>3
    <3> QED
      BY <3>3, <3>4, <3>5 DEF IInv
  <2> QED
    BY <1>2, <2>2, <2>3 DEF SysWriteDone
<1> QED
  BY <1>1, <1>2 DEF SysWrite

\* open() that fails.
LEMMA OpenRefusedStep ==
    ASSUME IInv, UNCHANGED nsState, NEW path, SysOpenRefused(path)
    PROVE  IInv'
<1>1. CASE Fail(EFAULT) \/ Fail(EMFILE) \/ Fail(ENOMEM)
  BY <1>1, FailStep DEF EFAULT, EMFILE, ENOMEM
<1>2. CASE \E e \in LookupErrors : Fail(e)
  BY <1>2, FailStep DEF LookupErrors, EINVAL, ENOENT, ENOTDIR
<1> QED
  BY <1>1, <1>2 DEF SysOpenRefused

-----------------------------------------------------------------------------
\* IInv is inductive: one case per system call, and one for the name space.
LEMMA NextIInv == IInv /\ [Next]_vars => IInv'
<1> SUFFICES ASSUME IInv, [Next]_vars PROVE IInv'
  OBVIOUS
<1>1. CASE NsNext /\ UNCHANGED <<fdVars, undefined>>
  BY <1>1, NamespaceStep
<1>2. CASE Syscall /\ UNCHANGED nsState
  <2>1. CASE \E path \in AllPaths \cup {NULL}, flags \in OpenFlags : SysOpen(path, flags)
    BY <1>2, <2>1, OpenStep, OpenRefusedStep DEF SysOpen
  <2>2. CASE \E fd \in FdArgs : SysClose(fd)
    BY <1>2, <2>2, CloseStep
  <2>3. CASE \E fd \in FdArgs, buf \in Buffers, count \in Counts : SysRead(fd, buf, count)
    BY <1>2, <2>3, ReadStep
  <2>4. CASE \E fd \in FdArgs, buf \in Buffers, count \in Counts : SysWrite(fd, buf, count)
    BY <1>2, <2>4, WriteStep
  <2>5. CASE DispatchUnknown
    BY <1>2, <2>5, FailStep DEF DispatchUnknown
  <2> QED
    BY <1>2, <2>1, <2>2, <2>3, <2>4, <2>5 DEF Syscall
<1>3. CASE UNCHANGED vars
  <2>1. UNCHANGED <<nsState, fdVars>> /\ ret' = ret /\ undefined' = undefined
    BY <1>3 DEF vars, nsState, fdVars
  <2> QED
    BY <2>1, QuietStep DEF IInv, TypeOK, NsTypeOK
<1> QED
  BY <1>1, <1>2, <1>3 DEF Next

\* IInv holds of every reachable state.
LEMMA Invariance == Spec => []IInv
BY InitIInv, NextIInv, PTL DEF Spec

\* Every variable of the name space and of the descriptors keeps its type.
THEOREM OpenFilesTyped == Spec => []TypeOK
<1>1. IInv => TypeOK
  BY DEF IInv
<1> QED
  BY <1>1, Invariance, PTL

\* However often descriptors are closed again, a vnode's count is exact.
THEOREM RefcountsExact == Spec => []RefcountExact
<1>1. IInv => RefcountExact
  BY DEF IInv
<1> QED
  BY <1>1, Invariance, PTL

\* No descriptor ever stands past the end of its file.
THEOREM OffsetsWithinSize == Spec => []OffsetWithinSize
<1>1. IInv => OffsetWithinSize
  BY DEF IInv
<1> QED
  BY <1>1, Invariance, PTL

\* A file object and its descriptor are bound for good, so open() succeeds at most
\* OPEN_MAX times.
THEOREM SlotsExact == Spec => []OneSlotPerFile
<1>1. IInv => OneSlotPerFile
  BY DEF IInv
<1> QED
  BY <1>1, Invariance, PTL

\* The file behind descriptor 0 is out of every call's reach.
THEOREM FdZeroUnreachable == Spec => []FdZeroDead
<1>1. IInv => FdZeroDead
  BY DEF IInv
<1> QED
  BY <1>1, Invariance, PTL

-----------------------------------------------------------------------------
(* What a call may do to a file's size, and to the files on the bare root_vnode *)

\* A call that leaves sizes, files and mounts alone grows nothing and opens nothing.
LEMMA QuietActions ==
    ASSUME UNCHANGED <<size, file, mounted_here>>, undefined' # "no ops"
    PROVE  Growth /\ ShutStays
BY DEF Growth, ShutStays, RootShut, Opened

\* A call of the name space takes no mount away.
LEMMA MountActions ==
    ASSUME ResInv, NsNext, UNCHANGED <<fdVars, undefined>>, undefined = "no"
    PROVE  Growth /\ ShutStays
<1>1. mounted_here[RootVnode] # NULL => mounted_here'[RootVnode] # NULL
  <2>1. CASE mounted_here' = mounted_here
    BY <2>1
  <2>2. CASE \E at \in Nodes, root \in NodeIds : MountsNew(at, root)
    BY <2>2, NullAssumption DEF MountsNew, ResInv, NsTypeOK
  <2> QED
    BY <2>1, <2>2, MountStep
<1> QED
  BY <1>1 DEF Growth, ShutStays, RootShut, Opened, fdVars

\* open() makes its one file on the vnode the look-up returned, which the bare
\* root_vnode is not once it is covered.
LEMMA OpenActions ==
    ASSUME IInv, ResInv, NEW path \in AllPaths \cup {NULL}, NEW flags, SysOpen(path, flags),
           UNCHANGED nsState, undefined = "no"
    PROVE  Growth /\ ShutStays
<1>0. mounted_here' = mounted_here
  BY DEF nsState
<1>1. CASE SysOpenRefused(path)
  BY <1>0, <1>1, QuietActions DEF SysOpenRefused, Fail, fdVars
<1>2. CASE SysOpenDone(path, flags)
  <2>1. PICK n \in Nodes : VfsLookup(path) = Found(n) /\ FileCreate(n, flags)
    BY <1>2 DEF SysOpenDone
  <2>2. path \in Paths
    <3>1. path # NULL
      BY <1>2 DEF SysOpenDone
    <3>2. path # Relative
      BY <2>1 DEF VfsLookup, Found, Failed, EINVAL
    <3> QED
      BY <3>1, <3>2 DEF AllPaths
  <2>3. Reachable(n)
    BY <2>1, <2>2, LookupGood DEF Found
  <2>4. mounted_here[RootVnode] # NULL => n # RootVnode
    BY <2>3, NullAssumption DEF Reachable, Live, Allocated
  <2>5. FreshFile \in FileIds /\ file[FreshFile] = NULL
    BY <1>2, FreshFileIsNew DEF SysOpenDone
  <2>6. ASSUME NEW f \in FileIds
        PROVE  file'[f] = file[f] \/ file'[f].node = n
    <3>1. file'[FreshFile].node = n
      BY <2>1, <2>5 DEF FileCreate, IInv, TypeOK
    <3>2. f # FreshFile => file'[f] = file[f]
      BY <2>1, <2>5 DEF FileCreate, IInv, TypeOK
    <3> QED
      BY <3>1, <3>2
  <2>7. undefined' # "no ops"
    BY <1>2 DEF SysOpenDone
  <2>8. ShutStays
    BY <1>0, <2>4, <2>6, <2>7 DEF ShutStays, RootShut, Opened
  <2>9. Growth
    BY <1>2 DEF SysOpenDone, Growth
  <2> QED
    BY <2>8, <2>9
<1> QED
  BY <1>1, <1>2 DEF SysOpen

\* No file is moved to another vnode.
SameNodes == \A g \in FileIds : /\ file[g] = NULL => file'[g] = NULL
                                /\ file[g] # NULL => file'[g].node = file[g].node

\* Then the bare root_vnode gains none.
LEMMA SameNodesShut ==
    ASSUME SameNodes, mounted_here' = mounted_here, undefined' # "no ops"
    PROVE  ShutStays
BY DEF SameNodes, ShutStays, RootShut, Opened

\* close() only counts.
LEMMA CloseActions ==
    ASSUME IInv, NEW fd \in FdArgs, SysClose(fd), UNCHANGED nsState, undefined = "no"
    PROVE  Growth /\ ShutStays
<1>0. mounted_here' = mounted_here
  BY DEF nsState
<1>1. CASE PastTable(fd) /\ Undefined("past the table")
  BY <1>0, <1>1, QuietActions DEF Undefined, fdVars
<1>2. CASE GetFile(fd) = NULL /\ Fail(ENOENT)
  BY <1>0, <1>2, QuietActions DEF Fail, fdVars
<1>3. CASE /\ GetFile(fd) # NULL
           /\ CloseLast(GetFile(fd)) \/ CloseAgain(GetFile(fd))
           /\ UNCHANGED <<files, size, undefined>>
  <2>1. GetFile(fd) \in Opened /\ file[GetFile(fd)] \in FileType
    BY <1>3, GetFileOpened
  <2>2. PICK f \in FileIds : f = GetFile(fd)
    BY <2>1 DEF Opened
  <2>3. PICK k \in Int : file' = [file EXCEPT ![f].refcount = k]
    <3>1. file[f].refcount \in Int
      BY <2>1, <2>2 DEF FileType
    <3> QED
      BY <1>3, <2>2, <3>1 DEF CloseLast, CloseAgain
  <2>4. SameNodes
    BY <2>1, <2>2, <2>3 DEF SameNodes, IInv, TypeOK, FileType, Opened
  <2> QED
    BY <1>0, <1>3, <2>4, SameNodesShut DEF Growth
<1> QED
  BY <1>1, <1>2, <1>3 DEF SysClose

\* Reads and writes that are refused, that fail and that go through; only a write
\* changes a size, and only a file on the bare root_vnode shows a read no operations.
LEMMA IoActions ==
    ASSUME IInv, NEW fd \in FdArgs, NEW buf, NEW count \in Counts,
           SysRead(fd, buf, count) \/ SysWrite(fd, buf, count),
           UNCHANGED nsState, undefined = "no"
    PROVE  Growth /\ ShutStays
<1> DEFINE f == GetFile(fd)
           node == file[f].node
<1>0. mounted_here' = mounted_here
  BY DEF nsState
<1>1. CASE IoRefused(fd, buf, count, Readable) \/ IoRefused(fd, buf, count, Writable)
  BY <1>0, <1>1, QuietActions DEF IoRefused, Fail, Undefined, fdVars
<1>2. CASE \/ node = RootVnode /\ Fail(ENOSYS)
           \/ IsDir(node) /\ Fail(EINVAL)
           \/ IsFile(node) /\ Fail(ENOSPC)
  BY <1>0, <1>2, QuietActions DEF Fail, fdVars
<1>3. ASSUME GetFile(fd) # NULL, node = RootVnode, Undefined("no ops") PROVE Growth /\ ShutStays
  <2>1. f \in Opened
    BY <1>3, GetFileOpened
  <2>2. ~RootShut
    BY <1>3, <2>1 DEF RootShut
  <2> QED
    BY <1>3, <2>2 DEF Growth, ShutStays, Undefined, fdVars
<1>4. ASSUME NEW n \in Nat, GetFile(fd) # NULL, Advance(f, n), undefined' = undefined
      PROVE  /\ f \in Opened /\ file[f].offset \in Nat
             /\ file'[f].offset = file[f].offset + n
             /\ ShutStays
  <2>1. f \in Opened /\ f \in FileIds /\ file[f] \in FileType
    BY <1>4, GetFileOpened DEF Opened
  <2> HIDE DEF f
  <2>2. /\ file'[f] = [file[f] EXCEPT !.offset = @ + n]
        /\ \A g \in FileIds \ {f} : file'[g] = file[g]
    BY <1>4, <2>1 DEF Advance, IInv, TypeOK
  <2>3. file[f] # NULL
    BY <2>1, FileAssumption
  <2>4. file'[f].node = file[f].node
    BY <2>1, <2>2 DEF FileType
  <2>5. SameNodes
    BY <2>1, <2>2, <2>3, <2>4 DEF SameNodes
  <2>6. ShutStays
    BY <1>0, <1>4, <2>5, SameNodesShut
  <2> QED
    BY <2>1, <2>2, <2>6 DEF FileType, Opened
<1>5. ASSUME IoReady(fd, buf, count, Readable), Advance(f, Available(f, count)),
             UNCHANGED <<size, undefined>>, IsFile(node)
      PROVE  Growth /\ ShutStays
  <2>1. f \in Opened /\ f \in FileIds /\ file[f] \in FileType
    BY <1>5, GetFileOpened DEF Opened, IoReady
  <2>2. Available(f, count) \in Nat
    <3>1. file[f].offset \in Nat /\ count \in Nat
      BY <2>1, OpenAssumption DEF FileType
    <3>2. size[node] \in Nat
      BY <1>5 DEF IInv, TypeOK, IsFile, Allocated
    <3> HIDE DEF f
    <3> QED
      BY <3>1, <3>2 DEF Available
  <2>3. ShutStays
    BY <1>4, <1>5, <2>2 DEF IoReady
  <2> QED
    BY <1>5, <2>3 DEF Growth
<1>6. ASSUME IoReady(fd, buf, count, Writable), Advance(f, count), IsFile(node), undefined' = undefined,
             size' = [size EXCEPT ![node] = IF file[f].offset + count > @
                                            THEN file[f].offset + count ELSE @]
      PROVE  Growth /\ ShutStays
  <2>1. /\ f \in Opened /\ file[f].offset \in Nat /\ count \in Nat /\ count # 0
        /\ file'[f].offset = file[f].offset + count
        /\ ShutStays
    BY <1>4, <1>6, OpenAssumption DEF IoReady
  <2>2. node \in NodeIds /\ file[f].flags \in Writable
    BY <1>6 DEF IoReady, IsFile, Allocated
  <2> HIDE DEF f
  <2>3. ASSUME NEW n \in NodeIds, size'[n] # size[n]
        PROVE  /\ n = node /\ size'[n] = file[f].offset + count
               /\ size'[n] > size[n]
    BY <1>6, <2>1, <2>2, <2>3 DEF IInv, TypeOK
  <2>4. file[f].offset < file[f].offset + count
    BY <2>1
  <2> QED
    BY <2>1, <2>2, <2>3, <2>4 DEF Growth
<1>7. CASE SysRead(fd, buf, count)
  <2>1. CASE IoReady(fd, buf, count, Readable) /\ SysReadDone(f, count)
    BY <1>2, <1>3, <1>5, <2>1 DEF SysReadDone, IoReady
  <2> QED
    BY <1>1, <1>7, <2>1 DEF SysRead
<1>8. CASE SysWrite(fd, buf, count)
  <2>1. CASE IoReady(fd, buf, count, Writable) /\ SysWriteDone(f, count)
    BY <1>2, <1>6, <2>1 DEF SysWriteDone
  <2> QED
    BY <1>1, <1>8, <2>1 DEF SysWrite
<1> QED
  BY <1>7, <1>8

\* Both hold of every step.
LEMMA NextActions == IInv /\ ResInv /\ [Next]_vars => [Growth]_vars /\ [ShutStays]_vars
<1> SUFFICES ASSUME IInv, ResInv, Next PROVE Growth /\ ShutStays
  OBVIOUS
<1>0. undefined = "no"
  BY DEF Next
<1>1. CASE NsNext /\ UNCHANGED <<fdVars, undefined>>
  BY <1>0, <1>1, MountActions
<1>2. CASE Syscall /\ UNCHANGED nsState
  <2>1. CASE \E path \in AllPaths \cup {NULL}, flags \in OpenFlags : SysOpen(path, flags)
    BY <1>0, <1>2, <2>1, OpenActions
  <2>2. CASE \E fd \in FdArgs : SysClose(fd)
    BY <1>0, <1>2, <2>2, CloseActions
  <2>3. CASE \E fd \in FdArgs, buf \in Buffers, count \in Counts :
               SysRead(fd, buf, count) \/ SysWrite(fd, buf, count)
    BY <1>0, <1>2, <2>3, IoActions
  <2>4. CASE DispatchUnknown
    BY <1>0, <1>2, <2>4, QuietActions DEF DispatchUnknown, Fail, fdVars, nsState
  <2> QED
    BY <1>2, <2>1, <2>2, <2>3, <2>4 DEF Syscall
<1> QED
  BY <1>1, <1>2 DEF Next

\* The name space under the descriptors stays as the look-ups need it.
LEMMA TreeSound == Spec => []ResInv
<1>1. Init => ResInv
  BY InitResInv DEF Init
<1>2. IInv /\ ResInv /\ [Next]_vars => ResInv'
  <2> SUFFICES ASSUME IInv, ResInv, [Next]_vars PROVE ResInv'
    OBVIOUS
  <2>1. CASE NsNext
    BY <2>1, NextResInv
  <2>2. CASE UNCHANGED nsState
    <3>1. NsTypeOK'
      BY NextIInv DEF IInv, TypeOK
    <3>2. DirInv' /\ MountsLive'
      BY <2>2 DEF ResInv, DirInv, ListsExact, FilesListed, MountsLive, IsDir, Allocated, nsState
    <3> QED
      BY <3>1, <3>2 DEF ResInv
  <2> QED
    BY <2>1, <2>2 DEF Next, vars, nsState
<1> QED
  BY <1>1, <1>2, Invariance, PTL DEF Spec

\* No size shrinks, and none grows but by a writer that then stands at its end.
THEOREM GrowthOnlyByWriter == Spec => GrowthByWriter
BY NextActions, Invariance, TreeSound, PTL DEF Spec, GrowthByWriter

\* A covered root that no file is open on stays out of reach, and with it the one vnode
\* that has no operations.
THEOREM RootKeptShut == Spec => RootStaysShut
BY NextActions, Invariance, TreeSound, PTL DEF Spec, RootStaysShut

-----------------------------------------------------------------------------
(* The name space under system calls *)

\* A system call moves no name, and what else moves is a step of the name space.
LEMMA NamesStep == [Next]_vars => [NsNext]_nsState
BY DEF Next, vars, nsState

\* What the look-ups need stays true between system calls, for any number of
\* descriptors: no list loses a file, no path leads to a freed vnode, the table of
\* types holds no name twice, and siblings share a name only by the cut.
THEOREM NamesSoundUnderCalls ==
    Spec => [](DirectoryExact /\ ResolutionLive /\ RegistryExact /\ OnlyCutTwice)
<1>1. ResInv => DirectoryExact /\ ResolutionLive
  BY DirExact, LiveResolution DEF ResInv
<1>2. NsInit => RegistryExact
  BY DEF NsInit, RegistryExact
<1>3. ResInv /\ RegistryExact /\ [NsNext]_nsState => RegistryExact'
  BY RegistryKept DEF ResInv, RegistryExact, nsState
<1> QED
  BY <1>1, <1>2, <1>3, TreeSound, NamesStep, InitCutTwice, NextCutTwice, PTL DEF Spec, Init

\* And paths change their meaning between and during system calls only as they do
\* without: by a mount, an unlinking or a new file on their way, never by a call that
\* fails, and a mount is seen wherever the walk comes to it.
THEOREM NamesMoveUnderCalls ==
    Spec => ResolutionScope /\ FailedCallKeepsNames /\ MountSeen
BY ScopeStep, FailureStep, MountSeenStep, NamesStep, TreeSound, InitMountsMade, NextMountsMade, PTL
DEF Spec, Init, ResolutionScope, FailedCallKeepsNames, MountSeen
=============================================================================
