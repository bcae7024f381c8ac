---------------------------- MODULE MCLocalSolver ----------------------------
(* Small file trees for TLC.                                                 *)
EXTENDS LocalSolver

CONSTANTS p1, p2, p3

\* Links only lead to paths that come later.
Later == [p \in Path |-> IF p = p1 THEN {p2, p3} ELSE IF p = p2 THEN {p3} ELSE {}]

AcyclicTrees ==
  {f \in [Path -> Entry] :
     \A p \in Path : IF f[p].kind = "link" THEN f[p].to \in Later[p] ELSE f[p].to = p}
=============================================================================
