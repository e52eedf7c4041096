------------------------------- MODULE MCLogs -------------------------------
(***************************************************************************)
(* The two logs for TLC.  Deps log: two outputs, one of which is also an   *)
(* input of the other, and a header it names twice; two processes.  Build  *)
(* log: an edge with two outputs, and one with one.                        *)
(***************************************************************************)
EXTENDS Logs, TLC

CONSTANTS a, b, h

MCDepsOf == [n \in {a, b} |-> IF n = a THEN {<<h, b, h>>} ELSE {<<h>>}]
MCEdge == {<<a, b>>, <<h>>}

Symmetry == Permutations(Process)
=============================================================================
