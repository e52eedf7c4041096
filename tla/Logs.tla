-------------------------------- MODULE Logs --------------------------------
(***************************************************************************)
(* The two logs.  They share no state, and neither reads the other's: a    *)
(* behaviour is one of the deps log or one of the build log.               *)
(***************************************************************************)
EXTENDS Integers

CONSTANTS
    Process, Node, Live, DepsOf,    \* of the deps log
    Output, Edge,                   \* of the build log
    MaxRecords, MaxStarts           \* bounds on the records of an output, and on starts

VARIABLES
    which,  \* the log whose behaviour this is
    file, dtemp, dpc, nodes, deps, opened, dtodo, alone, dwrote, dgiven, dheld, dstarts,
    log, btemp, bpc, entries, writing, btodo, whole, bwrote, bgiven, bheld, bstarts

dvars == <<file, dtemp, dpc, nodes, deps, opened, dtodo, alone, dwrote, dgiven, dheld, dstarts>>
bvars == <<log, btemp, bpc, entries, writing, btodo, whole, bwrote, bgiven, bheld, bstarts>>

D == INSTANCE DepsLog WITH
        temp <- dtemp, pc <- dpc, todo <- dtodo, wrote <- dwrote, given <- dgiven,
        held <- dheld, starts <- dstarts

B == INSTANCE BuildLog WITH
        temp <- btemp, pc <- bpc, todo <- btodo, wrote <- bwrote, given <- bgiven,
        held <- bheld, starts <- bstarts

ASSUME LogsAssumption == D!DepsAssumption /\ B!LinesAssumption

Init == which \in {"deps_log", "build_log"} /\ D!Init /\ B!Init

Next == \/ which = "deps_log" /\ D!Next /\ UNCHANGED <<which, bvars>>
        \/ which = "build_log" /\ B!Next /\ UNCHANGED <<which, dvars>>

Spec == Init /\ [][Next]_<<which, dvars, bvars>>

\* Once RecordDeps has returned in a process that has the deps log to itself, the
\* next build loads what it recorded; and once RecordCommand has written a line,
\* the next build loads that line, unless an earlier crash had cut a line short.
RecordedIsLoaded == D!RecordedIsLoaded /\ B!LineIsLoaded

\* Such a process has in memory what is on disk, ids included.
MemoryIsDisk == D!MemoryIsDisk

\* Both logs implement the promise of RecordStore.
StoresRecords == D!StoresRecords /\ B!LinesAreRecords
=============================================================================
