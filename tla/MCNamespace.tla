---------------------------- MODULE MCNamespace ----------------------------
(***************************************************************************)
(* A small instance of Namespace for TLC.                                  *)
(***************************************************************************)
EXTENDS Namespace

CONSTANTS n1, n2, n3, n4, rootVnode, null, relative, tmpfs, otherfs, thirdfs,
          a, b, cut, long, dot, dotdot, slash

\* "long" does not fit an inode; "cut" is what is kept of it.
MCStored == [x \in Names |-> IF x = long THEN cut ELSE x]

\* Every path of at most PathLen components.
CONSTANT PathLen
MCPaths == UNION {[1 .. k -> Names] : k \in 0 .. PathLen}

\* No guard reads ret: states that differ in it alone have the same successors.
WithoutRet == nsState
=============================================================================
