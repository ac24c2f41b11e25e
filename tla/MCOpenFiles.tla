--------------------------- MODULE MCOpenFiles ---------------------------
(***************************************************************************)
(* A small instance of OpenFiles for TLC.                                  *)
(***************************************************************************)
EXTENDS OpenFiles

CONSTANTS n1, n2, n3, f1, f2, f3, f4, rootVnode, null, relative, tmpfs,
          a, b, dot, dotdot, slash

MCStored == [x \in Names |-> x]

\* "/", "/a" and "/..": the root, a file and a way back to the root.
MCPaths == {<<>>, <<a>>, <<dotdot>>}

MCMinCount == -2

\* No guard reads ret: states that differ in it alone have the same successors.
WithoutRet == <<nsState, fdVars, undefined>>
=============================================================================
