------------------------------- MODULE MCClient -------------------------------
(***************************************************************************)
(* Two compilations for TLC that share a header.  The first has a source   *)
(* that is too large for a batch, and a directory among its outputs, with  *)
(* a file of the same content as another output.  The second makes two     *)
(* directories that are equal, which no success of it survives.            *)
(***************************************************************************)
EXTENDS RemoteClient

CONSTANTS c1, c2, h, s

MCReads == [c \in {c1, c2} |-> IF c = c1 THEN {h, s} ELSE {h}]
MCOuts  == [c \in {c1, c2} |-> IF c = c1 THEN <<"o", "d">> ELSE <<"o">>]
MCTrees == [c \in {c1, c2} |-> IF c = c1 THEN <<<<"d", "e">>>> ELSE <<<<"e">>, <<"e">>>>]
===============================================================================
