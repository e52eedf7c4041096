------------------------------ MODULE MCGraph ------------------------------
(***************************************************************************)
(* A manifest for TLC:                                                     *)
(*   build a b: gen          (restat, two outputs)                         *)
(*   build c: cc a           (in pool link, has a depfile)                 *)
(*   build d: cc b || a      (in pool link)                                *)
(*   build all: phony c d                                                  *)
(*   build e: cc  src        (in pool link)                                *)
(*   build out: link all || e                                              *)
(***************************************************************************)
EXTENDS Integers

MCEdge == 1..6
MCNode == {"src", "a", "b", "c", "d", "all", "e", "out"}
MCOutputs == [e \in MCEdge |->
    CASE e = 1 -> {"a", "b"} [] e = 2 -> {"c"} [] e = 3 -> {"d"}
      [] e = 4 -> {"all"} [] e = 5 -> {"e"} [] e = 6 -> {"out"}]
MCInputs == [e \in MCEdge |->
    CASE e = 1 -> {"src"} [] e = 2 -> {"a"} [] e = 3 -> {"b"}
      [] e = 4 -> {"c", "d"} [] e = 5 -> {"src"} [] e = 6 -> {"all"}]
MCOrderOnly == [e \in MCEdge |->
    CASE e = 3 -> {"a"} [] e = 6 -> {"e"} [] OTHER -> {}]
MCPoolOf == [e \in MCEdge |-> IF e \in {2, 3, 5} THEN "link" ELSE "default"]
MCDepth == [p \in {"default", "link"} |-> IF p = "link" THEN 1 ELSE 0]
=============================================================================
