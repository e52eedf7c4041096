-------------------------------- MODULE MCMain --------------------------------
(***************************************************************************)
(* Versions for TLC: v1 makes a and b; v2 makes a, reads b, which is now a *)
(* source, and no longer makes its own manifest.                           *)
(***************************************************************************)
EXTENDS NinjaMain

MCMakes == [v \in {"v1", "v2"} |-> IF v = "v1" THEN {"a", "b"} ELSE {"a"}]
MCReads == [v \in {"v1", "v2"} |-> IF v = "v1" THEN {} ELSE {"b"}]
===============================================================================
