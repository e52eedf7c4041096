----------------------------- MODULE MCBuilder -----------------------------
(***************************************************************************)
(* The build loop on the manifest of MCGraph, with c outside of the pool,  *)
(* so that more commands can run, and fail, at once.                       *)
(***************************************************************************)
EXTENDS Builder, MCGraph

WidePoolOf == [MCPoolOf EXCEPT ![2] = "default"]
=============================================================================
