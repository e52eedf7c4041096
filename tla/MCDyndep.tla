----------------------------- MODULE MCDyndep -----------------------------
(***************************************************************************)
(* Manifests with a dyndep file that the build makes:                      *)
(*   build tool: cc src            (restat)                                *)
(*   build dd: scan tool           (restat)                                *)
(*   build f: cc src || dd         (restat, dyndep = dd, in pool link)     *)
(*   build h: cc src || dd         (dyndep = dd, in pool link)             *)
(*   build x: cc y                                                         *)
(*   build y: cc src                                                       *)
(*   build g: cc f                                                         *)
(* The file says that f also needs x and makes fm, and that h needs fm.    *)
(* The definitions that differ from this one are used by a run each.       *)
(***************************************************************************)
EXTENDS DyndepPlan, Sequences

MCEdge == 1..7
MCNode == {"src", "tool", "dd", "f", "fm", "h", "x", "y", "g", "z"}
MCOutputs == <<{"tool"}, {"dd"}, {"f"}, {"h"}, {"x"}, {"y"}, {"g"}>>
MCInputs  == <<{"src"}, {"tool"}, {"src"}, {"src"}, {"y"}, {"src"}, {"f"}>>
MCOrderOnly == <<{}, {}, {"dd"}, {"dd"}, {}, {}, {}>>
MCPoolOf == [e \in MCEdge |-> IF e \in {3, 4} THEN "link" ELSE "default"]
MCDepth  == [p \in {"default", "link"} |-> IF p = "link" THEN 1 ELSE 0]
MCDyndep == [e \in {3, 4} |-> "dd"]
MCDynIns == [e \in {3, 4} |-> IF e = 3 THEN {"x"} ELSE {"fm"}]
MCDynOuts == [e \in {3, 4} |-> IF e = 3 THEN {"fm"} ELSE {}]
MCNoValidations == [e \in MCEdge |-> {}]

\* g is in pool link, and
\*   build x: cc y z
\*   build z: cc src
WideEdge == 1..8
WideOutputs == Append(MCOutputs, {"z"})
WideInputs == Append([MCInputs EXCEPT ![5] = {"y", "z"}], {"src"})
WideOrderOnly == Append(MCOrderOnly, {})
WidePoolOf == [e \in WideEdge |-> IF e \in {3, 4, 7} THEN "link" ELSE "default"]
WideNoValidations == [e \in WideEdge |-> {}]

\* x is in pool link and asked for.
PoolOfX == [MCPoolOf EXCEPT ![5] = "link"]

\* Both instances are in the scope of the theorems; only with PoolOfX an initial
\* edge has a pool.
ASSUME ScopeAssumption == InScope /\ (PooledBelow <=> PoolOf[5] # "link")
=============================================================================
