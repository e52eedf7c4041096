--------------------------- MODULE MCRemoteProcs ---------------------------
(***************************************************************************)
(* Three commands, one of which runs locally, on two workers.              *)
(***************************************************************************)
EXTENDS RemoteProcs

CONSTANTS p1, p2, p3, w1, w2

MCProc == {p1, p2, p3}
MCWorker == {w1, w2}
MCLocal == {p1}
=============================================================================
