-------------------------------- MODULE Plan --------------------------------
(***************************************************************************)
(* The build plan of ninja: struct Plan (build.h, build.cc), struct Pool   *)
(* (state.h, state.cc) and what the plan takes from DependencyScan         *)
(* (graph.cc).  The plan decides which edge may be handed out next.  Its   *)
(* caller, Builder (module Builder), asks for work and reports what became *)
(* of it; here the caller is free to do so in any order.                   *)
(*                                                                         *)
(* The recursions of the code (EdgeFinished -> NodeFinished ->             *)
(* EdgeMaybeReady -> EdgeFinished, CleanNode -> CleanNode, AddSubTarget,   *)
(* RecomputeNodeDirty) each visit an edge again whenever one more of its   *)
(* neighbours has been visited, and act once all have: each reaches the    *)
(* least set closed under its step, and is written as that set.  A bound   *)
(* \E x \in {exp} names an intermediate result of a handler.               *)
(***************************************************************************)
EXTENDS Integers, FiniteSets, FiniteSetsExt

CONSTANTS
    Edge,      \* build statements; an edge is its id_ (Edge::id_)
    Node,      \* files
    Outputs,   \* Edge::outputs_ as the manifest gives them
    Inputs,    \* explicit and implicit inputs
    OrderOnly, \* order-only inputs
    Phony,     \* edges of the phony rule: nothing to run
    Restat,    \* edges whose rule has restat = 1
    HasDeps,   \* edges with a depfile or deps = : LoadDeps may fail for them
    Pool, PoolOf, Depth, \* pools, the pool of an edge, 0 for no limit
    Targets    \* the nodes asked for, and the validations they bring in

ASSUME GraphAssumption ==
    /\ IsFiniteSet(Edge) /\ Edge \subseteq Nat
    /\ Outputs \in [Edge -> SUBSET Node]
    /\ Inputs \in [Edge -> SUBSET Node]
    /\ OrderOnly \in [Edge -> SUBSET Node]
    /\ Phony \subseteq Edge /\ Restat \subseteq Edge \ Phony
    /\ HasDeps \subseteq Edge \ Phony
    /\ Targets \subseteq Node
    /\ IsFiniteSet(Pool) /\ PoolOf \in [Edge -> Pool] /\ Depth \in [Pool -> Nat]

\* A node has at most one in_edge (State::AddOut) and the graph has no cycle
\* (DependencyScan::VerifyDAG): every set of edges has one that needs no other.
ASSUME DAGAssumption ==
    /\ \A e, f \in Edge : e # f => Outputs[e] \cap Outputs[f] = {}
    /\ \A S \in (SUBSET Edge) \ {{}} : \E e \in S : \A f \in S :
         Outputs[f] \cap (Inputs[e] \cup OrderOnly[e]) = {}

VARIABLES
    ins, outs,  \* the graph: regular inputs and outputs of each edge
    stale,      \* edges RecomputeOutputsDirty finds out of date by themselves
    depsMissing,\* Edge::deps_missing_
    dirty,      \* nodes with dirty_ set
    oready,     \* edges with outputs_ready_ set
    want,       \* Plan::want_; "Absent" for an edge with no entry
    wanted,     \* Plan::wanted_edges_
    command,    \* Plan::command_edges_
    weight,     \* Edge::critical_path_weight_
    ready,      \* Plan::ready_, a queue that may hold an edge more than once
    delayed,    \* Pool::delayed_ of every pool together
    use,        \* Pool::current_use_
    prepared,   \* PrepareQueue has been called
    running,    \* history: copies handed out by FindWork and not yet finished
    starts,     \* history: how often FindWork handed out an edge
    failed      \* history: edges reported kEdgeFailed

graph    == <<ins, outs, stale, depsMissing>>
history  == <<running, starts, failed>>
planVars == <<graph, dirty, oready, want, wanted, command, weight, ready,
              delayed, use, prepared, history>>

Want == {"Absent", "Nothing", "ToStart", "ToFinish"}

-----------------------------------------------------------------------------
(***************************************************************************)
(* The graph.                                                              *)
(***************************************************************************)
\* The least subset of D closed under the monotonic operator F, within D.
Least(D, F(_)) ==
    D \ UNION {D \ S : S \in {C \in SUBSET D : F(C) \cap D \subseteq C}}

AllIns(e) == ins[e] \cup OrderOnly[e]

\* The in_edges of the inputs of e, and the out_edges of the nodes N.
Producers(e) == {p \in Edge : outs[p] \cap AllIns(e) # {}}
OutEdges(N)  == {f \in Edge : AllIns(f) \cap N # {}}
NodesOf(S)   == UNION {outs[e] : e \in S}

AllInputsReady(e, done) == Producers(e) \subseteq done

(***************************************************************************)
(* DependencyScan::RecomputeDirty on the targets.                          *)
(***************************************************************************)
\* An edge is dirty if its outputs are out of date, its dependency
\* information is missing, or a regular input is dirty.
DirtyEdges ==
    Least(Edge, LAMBDA S : stale \cup depsMissing
                           \cup {e \in Edge : ins[e] \cap NodesOf(S) # {}})

\* A dirty edge is not ready, except a phony edge with nothing to wait for;
\* neither is an edge with an input, order-only or not, that is not ready.
NotReadyEdges(dirtyEdges) ==
    LET waits == {e \in dirtyEdges : ~(e \in Phony /\ AllIns(e) = {})}
    IN  Least(Edge, LAMBDA S : waits \cup {e \in Edge : Producers(e) \cap S # {}})

\* Plan::AddSubTarget: the edges a walk from the targets reaches; the walk
\* does not enter an edge whose outputs are ready.
Reached(notReady) ==
    Least(notReady, LAMBDA S : {e \in Edge : \/ outs[e] \cap Targets # {}
                                             \/ \E f \in S : e \in Producers(f)})

\* The edges the targets need, ready or not: those the scan visits, and those
\* Plan::ComputeCriticalPath sorts.  An edge outweighs each that waits for it.
Sorted ==
    Least(Edge, LAMBDA S : {e \in Edge : \/ outs[e] \cap Targets # {}
                                         \/ \E f \in S : e \in Producers(f)})
EdgeWeightHeuristic(e) == IF e \in Phony THEN 0 ELSE 1
CriticalPath(sorted) ==
    LET w[e \in Edge] == EdgeWeightHeuristic(e)
                         + Max({0} \cup {w[f] : f \in OutEdges(outs[e]) \cap sorted})
    IN  [e \in Edge |-> IF e \in sorted THEN w[e] ELSE weight[e]]

\* EdgePriorityLess, read from the right: with weights w, e goes before f.
Higher(w, e, f) == \/ w[e] > w[f]
                   \/ w[e] = w[f] /\ e < f

Wanted(w) == {e \in Edge : w[e] \in {"ToStart", "ToFinish"}}

-----------------------------------------------------------------------------
(***************************************************************************)
(* The pools.                                                              *)
(***************************************************************************)
Members(p) == {e \in Edge : PoolOf[e] = p}

\* Pool::ShouldDelayEdge
ShouldDelayEdge(e) == Depth[PoolOf[e]] # 0

\* The number of edges a pool with `used` of its depth taken still admits,
\* when n edges ask for a place.
Admits(p, used, n) ==
    IF n <= Depth[p] - used THEN n
    ELSE IF used <= Depth[p] THEN Depth[p] - used ELSE 0

\* Pool::RetrieveReadyEdges: T is taken from the delayed edges D of pool p.
Retrieved(w, p, used, D, T) ==
    /\ T \subseteq D
    /\ Cardinality(T) = Admits(p, used, Cardinality(D))
    /\ \A t \in T, d \in D \ T : Higher(w, t, d)

\* DelayEdge and RetrieveReadyEdges for each edge of N in turn, in an order the
\* code leaves to the graph (out_edges) or to addresses (map<Edge*>,
\* set<Edge*>): T are those the pool admits at once.
Admitted(p, used, N, T) ==
    /\ T \subseteq N
    /\ Cardinality(T) = Admits(p, used, Cardinality(N))

\* Pool::EdgeFinished: the use of each pool when e, if it was wanted, leaves.
UseWithout(e) ==
    [p \in Pool |-> IF PoolOf[e] = p /\ Depth[p] # 0 /\ want[e] # "Nothing"
                    THEN use[p] - 1 ELSE use[p]]

\* How often e occurs in the set S.
Count(e, S) == IF e \in S THEN 1 ELSE 0

\* ready_.push and Pool::EdgeScheduled for the unpooled edges U and for the
\* pooled edges that left the delayed set (T) or never stayed in it (N).
Push(used, U, T, N) ==
    /\ ready' = [e \in Edge |-> ready[e] + Count(e, U) + Count(e, T) + Count(e, N)]
    /\ use' = [p \in Pool |->
                 IF Depth[p] = 0 THEN used[p]
                 ELSE used[p] + Cardinality(T \cap Members(p))
                              + Cardinality(N \cap Members(p))]

-----------------------------------------------------------------------------
(***************************************************************************)
(* The state in which Builder::Build is called: the targets are added, and *)
(* there is more to do.  Which outputs the scan found out of date is left  *)
(* open; a phony edge is out of date only if it has no inputs.             *)
(***************************************************************************)
Init ==
    /\ ins = Inputs /\ outs = Outputs
    /\ stale \in SUBSET {e \in Edge : e \in Phony => AllIns(e) = {}}
    /\ depsMissing \in SUBSET HasDeps
    /\ \E dirtyEdges \in {DirtyEdges}, scanned \in {Sorted} :
       \E notReady \in {NotReadyEdges(dirtyEdges)} :
       \E reached \in {Reached(notReady)} :
          /\ dirty = NodesOf(dirtyEdges \cap scanned)
          /\ oready = scanned \ notReady
          /\ want = [e \in Edge |-> IF e \notin reached THEN "Absent"
                                    ELSE IF e \in dirtyEdges THEN "ToStart"
                                    ELSE "Nothing"]
    /\ wanted = Cardinality(Wanted(want))
    /\ command = Cardinality(Wanted(want) \ Phony)
    /\ weight = [e \in Edge |-> -1]
    /\ ready = [e \in Edge |-> 0]
    /\ delayed = {}
    /\ use = [p \in Pool |-> 0]
    /\ prepared = FALSE
    /\ running = [e \in Edge |-> 0]
    /\ starts = [e \in Edge |-> 0]
    /\ failed = {}
    /\ wanted > 0 /\ command > 0

\* Plan::more_to_do
MoreToDo == wanted > 0 /\ command > 0

(***************************************************************************)
(* Plan::PrepareQueue: ComputeCriticalPath, then ScheduleInitialEdges.     *)
(* An edge of a pool is delayed without touching its want_ entry, and each *)
(* pool is asked once, at the end, for the edges with the highest          *)
(* priority.                                                               *)
(***************************************************************************)
\* A mutant: an edge that only waits for ready edges is not an initial edge.
InitialLeaves == {e \in Edge : want[e] = "ToStart" /\ Producers(e) = {}}

InitialEdges == {e \in Edge : want[e] = "ToStart" /\ AllInputsReady(e, oready)}

PrepareQueue ==
    /\ ~prepared
    /\ prepared' = TRUE
    /\ \E sorted \in {Sorted} : weight' = CriticalPath(sorted)
    /\ \E pooled \in {{e \in InitialEdges : ShouldDelayEdge(e)}} :
       \E free \in {InitialEdges \ pooled}, T \in SUBSET pooled :
         /\ \A p \in Pool : Depth[p] # 0 =>
              Retrieved(weight', p, use[p], pooled \cap Members(p), T \cap Members(p))
         /\ want' = [e \in Edge |-> IF e \in free THEN "ToFinish" ELSE want[e]]
         /\ Push(use, free, T, {})
         /\ delayed' = pooled \ T
    /\ UNCHANGED <<graph, dirty, oready, wanted, command, history>>

\* A mutant: the edge is left in the queue.
FindWorkWithoutPop(e) ==
    /\ prepared
    /\ ready[e] > 0
    /\ running' = [running EXCEPT ![e] = @ + 1]
    /\ starts' = [starts EXCEPT ![e] = @ + 1]
    /\ UNCHANGED <<graph, dirty, oready, want, wanted, command, weight,
                   ready, delayed, use, prepared, failed>>

(***************************************************************************)
(* Plan::FindWork: the edge on top of the queue is the caller's.           *)
(***************************************************************************)
FindWork(e) ==
    /\ prepared
    /\ ready[e] > 0
    /\ \A f \in Edge \ {e} : ready[f] > 0 => Higher(weight, e, f)
    /\ ready' = [ready EXCEPT ![e] = @ - 1]
    /\ running' = [running EXCEPT ![e] = @ + 1]
    /\ starts' = [starts EXCEPT ![e] = @ + 1]
    /\ UNCHANGED <<graph, dirty, oready, want, wanted, command, weight,
                   delayed, use, prepared, failed>>

(***************************************************************************)
(* Plan::CleanNode on the nodes N, which a restat edge left as they were:  *)
(* the wanted edges that turn out to have nothing to do.  An edge is       *)
(* looked at when one of its inputs is cleaned and is clean if all its     *)
(* regular inputs are and its outputs are not out of date.                 *)
(***************************************************************************)
Cleaned(N) ==
    Least(Wanted(want) \ (depsMissing \cup stale), LAMBDA C :
      {f \in Edge :
         /\ AllIns(f) \cap (N \cup NodesOf(C)) # {}
         /\ ins[f] \cap (dirty \ (N \cup NodesOf(C))) = {}})

\* The nodes Q have dyndep_pending_ set: they do not announce that they are
\* finished but have their file loaded (module DyndepPlan).  If such a file is all
\* that its edge makes, it is loaded before an edge that needs it is looked at.
HeldBack(Q) == OutEdges({n \in Q : \E p \in Edge : outs[p] = {n}})

\* With entries w and the edges `done` ready, the edges nobody wants to build
\* that the visit of the edges `seen` finishes, and those it schedules.
Passed(w, done, seen, Q) ==
    Least({f \in Edge \ HeldBack(Q) : w[f] = "Nothing"}, LAMBDA S :
      {f \in Edge : /\ f \in seen \cup OutEdges(NodesOf(S) \ Q)
                    /\ AllInputsReady(f, done \cup S)})

\* A mutant: EdgeMaybeReady does not ask for the inputs.
SchedulableEarly(w, done, seen) == {f \in seen : w[f] = "ToStart"}

Schedulable(w, done, seen) ==
    {f \in seen : w[f] = "ToStart" /\ AllInputsReady(f, done)}

(***************************************************************************)
(* EdgeMaybeReady on the edges `seen` after the edges `done` have become   *)
(* ready; T is what RetrieveReadyEdges released from the pools visited     *)
(* before, and `used` the use of the pools then.                           *)
(***************************************************************************)
Settle(w, done, seen, T, used, Q) ==
    \E passed \in {Passed(w, done, seen, Q)} :
    \E met \in {(seen \cup OutEdges(NodesOf(passed) \ Q)) \ HeldBack(Q)} :
    \E sched \in {Schedulable(w, done \cup passed, met)} :
    \E pooled \in {{f \in sched : ShouldDelayEdge(f)}} :
    \E N \in SUBSET pooled :
      /\ \A p \in Pool : Depth[p] # 0 =>
           Admitted(p, used[p] + Cardinality(T \cap Members(p)),
                    pooled \cap Members(p), N \cap Members(p))
      /\ Push(used, sched \ pooled, T, N)
      /\ delayed' = (delayed \ T) \cup (pooled \ N)
      /\ oready' = done \cup passed
      /\ want' = [f \in Edge |-> IF f \in passed THEN "Absent"
                                 ELSE IF f \in sched THEN "ToFinish" ELSE w[f]]

\* The delayed edges that Pool::RetrieveReadyEdges releases when e leaves its
\* pool.  A pool with delayed edges has no place left (PoolsKept), so the
\* same call for an edge that is merely passed releases none.
Released(e, T) ==
    LET p == PoolOf[e]
    IN  Retrieved(weight, p, UseWithout(e)[p], delayed \cap Members(p), T)

(***************************************************************************)
(* Plan::EdgeFinished(e, kEdgeSucceeded), preceded by CleanNode on the     *)
(* outputs the command did not change (Builder::FinishCommand).            *)
(***************************************************************************)
EdgeSucceeded(e, unchanged, Q) ==
    /\ running[e] > 0
    /\ unchanged \subseteq outs[e] /\ (e \notin Restat => unchanged = {})
    /\ \E cleaned \in {Cleaned(unchanged)} :
       \E w \in {[f \in Edge |-> IF f \in cleaned THEN "Nothing"
                                 ELSE IF f = e THEN "Absent" ELSE want[f]]},
          T \in SUBSET delayed :
         /\ dirty' = dirty \ (unchanged \cup NodesOf(cleaned))
         /\ wanted' = wanted - Cardinality(cleaned)
                      - (IF want[e] # "Nothing" THEN 1 ELSE 0)
         /\ command' = command - Cardinality(cleaned \ Phony)
         /\ Released(e, T)
         /\ Settle(w, oready \cup {e}, OutEdges(outs[e] \ Q), T, UseWithout(e), Q)
    /\ running' = [running EXCEPT ![e] = @ - 1]
    /\ UNCHANGED <<graph, weight, prepared, starts, failed>>

\* A mutant: a failure does not release the edges that its pool holds back.
FailedWithoutRetrieve(e) ==
    /\ running[e] > 0 /\ e \notin Phony
    /\ Push(UseWithout(e), {}, {}, {})
    /\ running' = [running EXCEPT ![e] = @ - 1]
    /\ failed' = failed \cup {e}
    /\ UNCHANGED <<graph, dirty, oready, want, wanted, command, weight,
                   delayed, prepared, starts>>

\* Plan::EdgeFinished(e, kEdgeFailed): only the place in the pool is given up.
EdgeFailed(e) ==
    /\ running[e] > 0 /\ e \notin Phony
    /\ \E T \in SUBSET delayed :
         /\ Released(e, T)
         /\ Push(UseWithout(e), {}, T, {})
         /\ delayed' = delayed \ T
    /\ running' = [running EXCEPT ![e] = @ - 1]
    /\ failed' = failed \cup {e}
    /\ UNCHANGED <<graph, dirty, oready, want, wanted, command, weight,
                   prepared, starts>>

Next ==
    \/ PrepareQueue
    \/ \E e \in Edge :
         \/ FindWork(e)
         \/ EdgeFailed(e)
         \/ \E unchanged \in SUBSET outs[e] : EdgeSucceeded(e, unchanged, {})

Spec == Init /\ [][Next]_planVars

-----------------------------------------------------------------------------
(***************************************************************************)
(* Properties.                                                             *)
(***************************************************************************)
\* Where the copies of an edge are that have been scheduled and not finished.
Held(e) == ready[e] + running[e] + Count(e, delayed)

\* The edges that hold a place in their pool.
Placed(p) == {e \in Members(p) : ready[e] + running[e] > 0}

TypeOK ==
    /\ ins \in [Edge -> SUBSET Node] /\ outs \in [Edge -> SUBSET Node]
    /\ stale \subseteq Edge /\ depsMissing \subseteq Edge
    /\ dirty \subseteq Node /\ oready \subseteq Edge
    /\ want \in [Edge -> Want]
    /\ wanted \in Int /\ command \in Int
    /\ ready \in [Edge -> Nat] /\ running \in [Edge -> Nat]
    /\ starts \in [Edge -> Nat]
    /\ delayed \subseteq Edge
    /\ use \in [Pool -> Int]
    /\ prepared \in BOOLEAN
    /\ failed \subseteq Edge

\* An edge is queued, delayed or handed out only when every edge that makes one
\* of its inputs, order-only inputs included, is done: the order in which
\* NodeFinished, EdgeMaybeReady and CleanNode visit edges never lets one through
\* early (Plan::EdgeMaybeReady, Plan::ScheduleInitialEdges).
InputsBuiltFirst ==
    \A e \in Edge : Held(e) > 0 => AllInputsReady(e, oready)

\* No edge is handed out twice in a build, although several inputs may
\* announce it and an initial edge of a pool keeps kWantToStart while it is
\* delayed, queued and running ("Avoid scheduling the work again",
\* Plan::ScheduleWork).
RunsOnce ==
    \A e \in Edge : starts[e] <= 1 /\ Held(e) <= 1

\* A pool counts exactly the edges that hold a place in it, they are never more
\* than its depth, whatever fails or is cleaned, and no edge is left delayed while
\* its pool has room: nobody would come back for it (Pool::EdgeScheduled,
\* Pool::EdgeFinished, Pool::RetrieveReadyEdges).
PoolsKept ==
    \A p \in Pool : Depth[p] # 0 =>
      /\ use[p] = Cardinality(Placed(p))
      /\ use[p] <= Depth[p]
      /\ delayed \cap Members(p) # {} => use[p] = Depth[p]

\* wanted_edges_ is the number of entries of want_ that are wanted, and
\* command_edges_ never falls to zero while one of them has a command, after any
\* clean, failure and success: more_to_do would end the build early
\* (Plan::EdgeWanted, Plan::CleanNode, Plan::EdgeFinished, Plan::more_to_do).
Counted ==
    /\ wanted = Cardinality(Wanted(want))
    /\ command >= Cardinality(Wanted(want) \ Phony)

\* A wanted edge that waits for nothing is held somewhere, or has failed: with
\* an empty queue and nothing running only a failure explains what is left, and
\* Builder::Build never says "stuck [this is a bug]".
NothingForgotten ==
    prepared => \A e \in Wanted(want) \ failed :
                  AllInputsReady(e, oready) => Held(e) > 0

\* The outputs of an edge that failed are never taken for made, and what is taken
\* for made has all that it needs: with InputsBuiltFirst, an edge that needs a failed
\* one, at any distance, is never scheduled (Plan::EdgeFinished with kEdgeFailed).
FailureBlocks ==
    /\ failed \cap oready = {}
    /\ \A e \in oready : AllInputsReady(e, oready)

\* What the plan counts is right, and what a failure means to it.
BooksKept == PoolsKept /\ Counted /\ FailureBlocks

\* The edges a step makes unwanted, other than the one that has just been run.
Withdrawn == {e \in Wanted(want) \ Wanted(want') : running'[e] = running[e]}

\* CleanNode never withdraws an edge that has already been scheduled: its place
\* in the pool would never be given back (Plan::CleanNode, Plan::EdgeFinished).
CleanedNotHeld ==
    [][\A e \in Withdrawn : Held(e) = 0]_planVars

(***************************************************************************)
(* What every step keeps, and what InputsBuiltFirst, RunsOnce,             *)
(* NothingForgotten and CleanedNotHeld rest on (module BuilderProofs).     *)
(***************************************************************************)
\* An edge is scheduled once: into the queue or the pool, then handed out.
Once ==
    \A e \in Edge : /\ starts[e] + ready[e] + Count(e, delayed) <= 1
                    /\ running[e] <= starts[e]

\* An edge with an entry is not done, and one that is held is wanted.
Entries ==
    \A e \in Edge : /\ want[e] # "Absent" => e \notin oready
                    /\ Held(e) > 0 => want[e] \in {"ToStart", "ToFinish"}

\* Once an edge has been scheduled its inputs are done, for good.
ScheduledReady ==
    \A e \in Edge :
      Held(e) > 0 \/ starts[e] > 0 \/ want[e] = "ToFinish" => AllInputsReady(e, oready)

\* Nothing is scheduled before PrepareQueue.
Fresh ==
    ~prepared => \A e \in Edge : Held(e) = 0 /\ starts[e] = 0 /\ want[e] # "ToFinish"

\* The inductive invariant: no edge is scheduled early, twice, or never.
ScheduleInv ==
    /\ Once
    /\ Entries
    /\ ScheduledReady
    /\ Fresh
    /\ NothingForgotten
=============================================================================
