----------------------------- MODULE DyndepPlan -----------------------------
(***************************************************************************)
(* The build plan when edges have a dyndep file that the build itself      *)
(* makes: DyndepLoader (dyndep.cc) and Plan::DyndepsLoaded (build.cc).     *)
(* When the file is done, the graph grows: edges get inputs and outputs,   *)
(* their state is computed again (graph.cc), and edges that were not in    *)
(* the plan may enter it, in the middle of the build.                      *)
(*                                                                         *)
(* One call of EdgeFinished does it all; here it is three actions, the     *)
(* functions it calls one after the other, and nothing else is enabled     *)
(* while a file waits to be loaded or taken up by the plan.  What the file *)
(* says is taken to be well formed, and the assert of                      *)
(* RefreshDyndepDependents to be compiled out.                             *)
(***************************************************************************)
EXTENDS Plan

CONSTANTS
    Dyndep,      \* Edge::dyndep_: the edges with a dyndep file, and the file
    DynIns,      \* what the file adds: Dyndeps::implicit_inputs_
    DynOuts,     \* and Dyndeps::implicit_outputs_
    Validations  \* Edge::validations_

DynEdges == DOMAIN Dyndep

ASSUME DyndepAssumption ==
    /\ DynEdges \subseteq Edge
    /\ Dyndep \in [DynEdges -> Node]
    /\ DynIns \in [DynEdges -> SUBSET Node]
    /\ DynOuts \in [DynEdges -> SUBSET Node]
    /\ Validations \in [Edge -> SUBSET Node]
    /\ \A f \in DynEdges : f \notin Phony /\ Dyndep[f] \in Inputs[f] \cup OrderOnly[f]

Files == {Dyndep[f] : f \in DynEdges}

\* The graph as it is when every file has been loaded.
AllInputs(e)  == Inputs[e] \cup OrderOnly[e] \cup (IF e \in DynEdges THEN DynIns[e] ELSE {})
AllOutputs(e) == Outputs[e] \cup (IF e \in DynEdges THEN DynOuts[e] ELSE {})

\* "multiple rules generate" and "dependency cycle" end the build.
ASSUME WellFormedAssumption ==
    /\ \A e, f \in Edge : e # f => AllOutputs(e) \cap AllOutputs(f) = {}
    /\ \A S \in (SUBSET Edge) \ {{}} : \E e \in S : \A f \in S :
         AllOutputs(f) \cap AllInputs(e) = {}

\* Edges that need a dyndep file, near or far.  None of them makes another one:
\* a file that becomes ready while the dependents of one are scanned again is
\* left out.
BelowFiles ==
    Least(Edge, LAMBDA S : {e \in Edge : \/ AllInputs(e) \cap Files # {}
                                         \/ \E g \in S : AllOutputs(g) \cap AllInputs(e) # {}})

ASSUME LevelAssumption == \A e \in BelowFiles : AllOutputs(e) \cap Files = {}

(***************************************************************************)
(* What the theorems ask of the manifest and the files besides; without it *)
(* the code does not keep the properties.                                  *)
(***************************************************************************)
\* A dyndep file is all that its edge makes.
FilesAlone == \A n \in Files : \E p \in Edge : AllOutputs(p) = {n}

\* What needs an output that a dyndep file adds to f needs f by the manifest
\* already, or learns of it from the same file.
OutputsFound ==
    \A f \in DynEdges, g \in Edge : DynOuts[f] \cap AllInputs(g) # {} =>
      \/ Outputs[f] \cap (Inputs[g] \cup OrderOnly[g]) # {}
      \/ /\ g \in DynEdges /\ Dyndep[g] = Dyndep[f]
         /\ DynOuts[f] \cap (Inputs[g] \cup OrderOnly[g]) = {}

\* No dependency information to lose, and no validations.
NothingLost == HasDeps = {} /\ \A e \in Edge : Validations[e] = {}

InScope == FilesAlone /\ OutputsFound /\ NothingLost

VARIABLES
    visited,    \* edges the scan has marked VisitDone
    dynPending, \* nodes with dyndep_pending_ set
    loading,    \* dyndep files that NodeFinished has found complete
    loaded      \* the file just loaded that the plan has not taken up yet

dynVars     == <<visited, dynPending, loading, loaded>>
allPlanVars == <<planVars, dynVars>>

\* The dyndep files are out of date, so the scan leaves them to the build.
DyndepInit ==
    /\ Init
    /\ visited = Sorted
    /\ dynPending = {Dyndep[f] : f \in DynEdges}
    /\ \A e \in Edge : outs[e] \cap dynPending # {} => e \in visited \ oready
    /\ loading = {} /\ loaded = {}

-----------------------------------------------------------------------------
\* Plan::EdgeFinished, when the edges it finishes may make dyndep files.
Succeeded(e, unchanged) ==
    /\ EdgeSucceeded(e, unchanged, dynPending)
    /\ loading' = dynPending \cap NodesOf({e} \cup (oready' \ oready))
    /\ UNCHANGED <<visited, dynPending, loaded>>

\* DyndepLoader::LoadDyndeps and UpdateEdge.  With its new inputs and outputs
\* an edge may be out of date that was not.
LoadDyndeps(n) ==
    /\ n \in loading /\ loaded = {}
    /\ loading' = loading \ {n} /\ loaded' = {n}
    /\ dynPending' = dynPending \ {n}
    /\ LET updated == {f \in DynEdges : Dyndep[f] = n}
       IN  /\ ins' = [f \in Edge |-> IF f \in updated THEN ins[f] \cup DynIns[f] ELSE ins[f]]
           /\ outs' = [f \in Edge |-> IF f \in updated THEN outs[f] \cup DynOuts[f] ELSE outs[f]]
           /\ \E more \in SUBSET updated : stale' = stale \cup more
    /\ UNCHANGED <<depsMissing, dirty, oready, want, wanted, command, weight, ready,
                   delayed, use, prepared, history, visited>>

-----------------------------------------------------------------------------
(***************************************************************************)
(* Plan::RefreshDyndepDependents.                                          *)
(***************************************************************************)
\* UnmarkDependents: the edges of the plan that need node n, near or far.
Dependents(n) ==
    Least({f \in visited : want[f] # "Absent"},
          LAMBDA S : {f \in Edge : AllIns(f) \cap ({n} \cup NodesOf(S)) # {}})

\* RecomputeDirty visits them again, and for the first time what they now need
\* and the validations of all of these.
Rescanned(dependents) ==
    Least(Edge, LAMBDA S : dependents \cup
      {f \in Edge \ visited :
         \E g \in S : f \in Producers(g) \/ outs[f] \cap Validations[g] # {}})

\* RecomputeNodeDirty on the edges R: LoadDeps is tried, and can fail, only at
\* the first visit; a node that was dirty stays so.
RescanDirty(R) ==
    Least(R, LAMBDA S : {f \in R : \/ f \in stale \cup (depsMissing \ visited)
                                   \/ ins[f] \cap (dirty \cup NodesOf(S)) # {}})

RescanNotReady(R, dirtyEdges) ==
    LET waits == {f \in dirtyEdges : ~(f \in Phony /\ AllIns(f) = {})}
    IN  Least(R, LAMBDA S : waits \cup HeldBack(dynPending) \cup
          {f \in R : Producers(f) \cap (S \cup (Edge \ (oready \cup R))) # {}})

(***************************************************************************)
(* Plan::AddSubTarget from the nodes N, with entries w and what the scan   *)
(* has just found: the edges it comes to.  It goes on below an edge only   *)
(* when it made the entry, and in a dyndep walk it turns back at an edge   *)
(* that has been scheduled.                                                *)
(***************************************************************************)
Walk(w, N, isReady, dyndepWalk) ==
    LET next(S) == {f \in Edge : \/ outs[f] \cap N # {}
                                \/ \E g \in S : w[g] = "Absent" /\ f \in Producers(g)}
    IN  Least({f \in Edge \ isReady : dyndepWalk => w[f] # "ToFinish"}, next)

Entered(w, walk, isDirty) ==
    [f \in Edge |->
       IF f \in walk /\ w[f] \in {"Absent", "Nothing"}
       THEN IF outs[f] \cap isDirty # {} THEN "ToStart" ELSE "Nothing"
       ELSE w[f]]

\* A dependent that turns out to be dirty is wanted.
Wants(w, S, isDirty) ==
    [f \in Edge |-> IF f \in S /\ w[f] = "Nothing" /\ outs[f] \cap isDirty # {}
                    THEN "ToStart" ELSE w[f]]

\* A mutant: only the consumers of n are looked at.
ToCheckAfter(n, walk, w) == {f \in OutEdges({n}) : w[f] # "Absent"}

\* What may have become ready: what the walk met, and the consumers of n.
ToCheck(n, walk, w) == walk \cup {f \in OutEdges({n}) : w[f] # "Absent"}

(***************************************************************************)
(* Plan::DyndepsLoaded for the file n: refresh the dependents, add their   *)
(* validations as targets, walk what the file added, and schedule what the *)
(* walk met and the consumers of n if they are ready.                      *)
(***************************************************************************)
TakenUp(n, dependents, rescanned, isReady, isDirty) ==
    \E validated \in {Walk(want, UNION {Validations[f] : f \in rescanned}, isReady, FALSE)} :
    \E w \in {Wants(Entered(want, validated, isDirty), dependents, isDirty)} :
    \E roots \in {{f \in DynEdges : Dyndep[f] = n /\ f \notin isReady /\ w[f] # "Absent"}} :
    \E walk \in {Walk(w, UNION {DynIns[f] : f \in roots}, isReady, TRUE)} :
    \E w2 \in {Entered(w, walk, isDirty)} :
      /\ dirty' = isDirty
      /\ depsMissing' = depsMissing \ dependents
      /\ visited' = visited \cup rescanned
      /\ wanted' = wanted + Cardinality(Wanted(w2) \ Wanted(want))
      /\ command' = command + Cardinality((Wanted(w2) \ Wanted(want)) \ Phony)
      /\ Settle(w2, isReady, ToCheck(n, walk, w2), {}, use, dynPending)
      /\ loading' = loading \cup (dynPending \cap NodesOf(oready' \ isReady))

DyndepsLoaded(n) ==
    /\ n \in loaded
    /\ \E dependents \in {Dependents(n)} :
       \E rescanned \in {Rescanned(dependents)} :
       \E dirtyEdges \in {RescanDirty(rescanned)} :
       \E notReady \in {RescanNotReady(rescanned, dirtyEdges)} :
       \E isReady \in {(oready \ rescanned) \cup (rescanned \ notReady)},
          isDirty \in {dirty \cup NodesOf(dirtyEdges)} :
         TakenUp(n, dependents, rescanned, isReady, isDirty)
    /\ loaded' = {}
    /\ UNCHANGED <<ins, outs, stale, weight, prepared, dynPending, history>>

Settled == loading = {} /\ loaded = {}

DyndepNext ==
    \/ Settled /\ PrepareQueue /\ UNCHANGED dynVars
    \/ \E e \in Edge :
         /\ Settled
         /\ \/ FindWork(e) /\ UNCHANGED dynVars
            \/ EdgeFailed(e) /\ UNCHANGED dynVars
            \/ \E unchanged \in SUBSET outs[e] : Succeeded(e, unchanged)
    \/ \E n \in Node : LoadDyndeps(n) \/ DyndepsLoaded(n)

DyndepSpec == DyndepInit /\ [][DyndepNext]_allPlanVars

-----------------------------------------------------------------------------
(***************************************************************************)
(* Properties; those of Plan that are invariants are checked as well.      *)
(***************************************************************************)
DyndepTypeOK ==
    /\ TypeOK
    /\ visited \subseteq Edge
    /\ dynPending \subseteq Node /\ loading \subseteq dynPending
    /\ loaded \subseteq Node

\* No edge is scheduled while an edge that makes one of its inputs, as the graph
\* is known now, still has an entry in the plan: the inputs a dyndep file adds
\* are built first as well (Plan::DyndepsLoaded, Plan::AddSubTarget).
BuiltBeforeUse ==
    \A e \in Edge : Held(e) > 0 => \A p \in Producers(e) : want[p] = "Absent"

\* graph.cc, RecomputeNodeDirty: "Later during the build the dyndep file will
\* become ready and be loaded to update this edge before it can possibly be
\* scheduled."
LoadedBeforeScheduled ==
    \A f \in DynEdges : Held(f) > 0 => Dyndep[f] \notin dynPending \cup loaded

\* Between two calls the plan is closed: what an entry waits for has an entry as
\* well, also what a dyndep file has just added; else the entry could wait for
\* ever (Plan::AddSubTarget, Plan::DyndepsLoaded).
PlanClosed ==
    Settled => \A e \in Edge : want[e] # "Absent" =>
                 \A p \in Producers(e) : p \in oready \/ want[p] # "Absent"

\* Between two calls a wanted edge that waits for nothing is held somewhere or
\* has failed, also if it entered the plan in the middle of the build; else the
\* build would end with "stuck [this is a bug]" (Plan::DyndepsLoaded).
NoneForgotten == Settled => NothingForgotten

\* build.cc, RefreshDyndepDependents: "assert(edge && !edge->outputs_ready())"
\* for a dependent with a dirty output, which is wanted from then on.
WantedNotReady ==
    \A e \in Wanted(want) : e \notin oready

\* While nothing has failed the plan is not left with entries and nothing held:
\* Builder::Build would end with "stuck [this is a bug]".  An entry with nothing to
\* do whose last input becomes ready in the second scan must be passed by that call;
\* no later one comes to it (Plan::RefreshDyndepDependents, Plan::EdgeMaybeReady).
StuckOnlyByFailure ==
    prepared /\ Settled /\ failed = {} /\ (\A e \in Edge : Held(e) = 0) =>
      \A e \in Edge : want[e] = "Absent"

\* What a dyndep file adds is as much a part of the plan as what was in it.
PlanIsWhole ==
    /\ LoadedBeforeScheduled /\ PlanClosed /\ NoneForgotten /\ WantedNotReady
    /\ StuckOnlyByFailure

(***************************************************************************)
(* What every step keeps, and what BuiltBeforeUse and PlanIsWhole rest on  *)
(* (module BuilderProofs).                                                 *)
(***************************************************************************)
\* The graph is what the manifest and the files loaded so far say.
GraphGrows ==
    /\ depsMissing = {}
    /\ \A e \in Edge :
         LET grown == e \in DynEdges /\ Dyndep[e] \notin dynPending
         IN  /\ ins[e] = Inputs[e] \cup (IF grown THEN DynIns[e] ELSE {})
             /\ outs[e] = Outputs[e] \cup (IF grown THEN DynOuts[e] ELSE {})

\* A pending file is to be loaded exactly when the edge that makes it is ready;
\* the plan takes one file at a time.
FilesFollowed ==
    /\ dynPending \subseteq Files /\ loaded \subseteq Files \ dynPending
    /\ \A m, n \in loaded : m = n
    /\ \A n \in dynPending : \A p \in Edge :
         n \in outs[p] => p \in visited /\ (p \in oready <=> n \in loading)

\* The entries of the plan are the edges that the scan found not ready.
EntriesVisited ==
    /\ oready \subseteq visited
    /\ \A e \in Edge : /\ want[e] # "Absent" <=> e \in visited \ oready
                       /\ Held(e) > 0 => e \in visited

\* What needs a file that is pending, or not taken up yet, waits.
FileFirst ==
    \A n \in dynPending \cup loaded : \A e \in OutEdges({n}) :
      e \notin oready /\ Held(e) = 0 /\ want[e] # "ToFinish"

\* What is ready or has been scheduled has all its inputs.
ReadyBelow ==
    \A e \in Edge : e \in oready \/ Held(e) > 0 \/ want[e] = "ToFinish" =>
                      AllInputsReady(e, oready)

\* The scan knows what an entry waits for, but for what a file just added.
PlanKnows ==
    \A e \in Edge : want[e] # "Absent" =>
      \A p \in Producers(e) : \/ p \in visited
                              \/ /\ e \in DynEdges /\ Dyndep[e] \in loaded
                                 /\ outs[p] \cap DynIns[e] # {}

\* An edge is wanted for a reason, and one with nothing to do has clean outputs.
DirtyReasons ==
    /\ dirty \subseteq NodesOf(visited)
    /\ \A e \in Wanted(want) : e \in stale \/ ins[e] \cap dirty # {}
    /\ \A e \in Edge : want[e] = "Nothing" => outs[e] \cap dirty = {}

\* NothingForgotten, also in the middle of a call.
NoneWaits ==
    prepared => \A e \in Wanted(want) \ failed :
      AllInputsReady(e, oready) /\ AllIns(e) \cap (loading \cup loaded) = {} => Held(e) > 0

\* Kept as well: an edge with nothing to do is passed as soon as its inputs are done
\* and the files it needs are taken up.
NoneStays ==
    \A e \in Edge : want[e] = "Nothing" /\ AllInputsReady(e, oready) =>
                      AllIns(e) \cap (loading \cup loaded) # {}

DyndepInv ==
    /\ GraphGrows /\ FilesFollowed /\ EntriesVisited /\ FileFirst /\ ReadyBelow
    /\ PlanKnows /\ DirtyReasons /\ NoneWaits
    /\ Fresh /\ (~prepared => Settled)

\* No edge of a pool is an initial edge: each needs a dyndep file, near or far.
PooledBelow == \A e \in Edge : ShouldDelayEdge(e) => e \in BelowFiles

\* What RunsOnce rests on then: an edge that has been scheduled is done, or has an
\* entry that EdgeMaybeReady and the walk pass by.
DyndepOnce ==
    /\ Once
    /\ \A e \in Edge : /\ Held(e) > 0 => want[e] = "ToFinish"
                       /\ starts[e] > 0 => want[e] = "ToFinish" \/ e \in oready
    /\ ~prepared => \A e \in BelowFiles : ~AllInputsReady(e, oready)
=============================================================================
