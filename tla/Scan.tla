--------------------------------- MODULE Scan ---------------------------------
(***************************************************************************)
(* The walk of DependencyScan over the graph (graph.cc), for one target    *)
(* after the other: the marks on the edges, the inputs it discovers, what  *)
(* it finds dirty and ready, and the cycles it refuses; and a scan after   *)
(* the build of the manifest, over the state that State::Reset leaves.     *)
(* Whether an edge whose inputs are clean is up to date, which             *)
(* RecomputeOutputDirty reads off the times and the build log, is given    *)
(* (graph.old): Rebuild models those.                                      *)
(***************************************************************************)
EXTENDS Integers, Sequences, FiniteSets, SequencesExt, FiniteSetsExt

CONSTANTS
    Node, Edge,
    Found   \* lists of inputs that a command may write into its depfile

VARIABLES
    graph,  \* the manifest and what lies on disk: for each edge outs, ins, order (how many
            \* of ins are order-only, the last ones), vals and deps; its dyndep file, and
            \* what that adds and makes; phony and old edges; missing files
    scan    \* the State, and what the walks so far have left in its nodes and edges

vars == <<graph, scan>>

None == "none"

InEdge(s, n) == {e \in Edge : Contains(s.outs[e], n)}
Maker(s, n)  == CHOOSE e \in Edge : e \in InEdge(s, n)

\* Nodes and edges that nothing is known of, with these inputs, outputs and dyndep
\* files that have not been loaded.
Unvisited(ins, outs, pending) ==
    [mark |-> [e \in Edge |-> "none"], ins |-> ins, outs |-> outs, loaded |-> {},
     pending |-> pending, dirty |-> {}, ready |-> {}, asked |-> {},
     stack |-> <<>>, queue |-> <<>>, cycle |-> <<>>, error |-> FALSE,
     late |-> {}, reset |-> FALSE]

Fresh == Unvisited(graph.ins, graph.outs, {graph.dyndep[e] : e \in Edge} \ {None})

Failed(s) == s.cycle # <<>> \/ s.error

-----------------------------------------------------------------------------
\* PreallocateSpace: found inputs go in front of the order-only ones.
WithInputs(s, e, found) ==
    LET at == Len(s.ins[e]) - graph.order[e]
    IN  [s EXCEPT !.ins[e] = SubSeq(@, 1, at) \o found \o SubSeq(@, at + 1, Len(@))]

\* ImplicitDepLoader::LoadDeps, from the log or from a depfile that can be parsed:
\* there is nothing to load, the inputs are found, or they are lost.
LoadDeps(s, e) ==
    LET t == [s EXCEPT !.loaded = @ \cup {e}]
    IN  IF graph.deps[e].state = "known" THEN WithInputs(t, e, graph.deps[e].nodes) ELSE t

\* UpdateEdge: the outputs and inputs that the dyndep file has for e.  Two edges must
\* not make the same.  Late are outputs that an edge has been visited with as a source.
UpdateEdge(s, e) ==
    LET found == ToSet(graph.makes[e])
    IN  IF \E n \in found : InEdge(s, n) # {} THEN [s EXCEPT !.error = TRUE]
        ELSE WithInputs([s EXCEPT !.outs[e] = @ \o graph.makes[e],
                                  !.late = @ \cup {n \in found : \E f \in Edge :
                                      s.mark[f] # "none" /\ f # e /\ Contains(s.ins[f], n)}],
                        e, graph.adds[e])

\* LoadDyndeps: the file is read, if it is there, and updates each edge that names it.
LoadDyndeps(s, file) ==
    LET t == [s EXCEPT !.pending = @ \ {file}]
    IN  IF file \in graph.missing THEN [t EXCEPT !.error = TRUE]
        ELSE FoldSet(LAMBDA e, u : IF u.error THEN u ELSE UpdateEdge(u, e), t,
                     {e \in Edge : graph.dyndep[e] = file})

\* A mutant: the report starts at the node by which the edge was entered first.
CycleAsEntered(s, n) ==
    LET start == CHOOSE i \in DOMAIN s.stack :
                   /\ InEdge(s, s.stack[i]) = InEdge(s, n)
                   /\ \A j \in 1 .. i - 1 : InEdge(s, s.stack[j]) # InEdge(s, n)
    IN  SubSeq(s.stack, start, Len(s.stack)) \o <<s.stack[start]>>

\* VerifyDAG: the nodes in the stack from this edge on, and back to n.
CycleTo(s, n) ==
    LET start == CHOOSE i \in DOMAIN s.stack :
                   /\ InEdge(s, s.stack[i]) = InEdge(s, n)
                   /\ \A j \in 1 .. i - 1 : InEdge(s, s.stack[j]) # InEdge(s, n)
    IN  <<n>> \o SubSeq(s.stack, start + 1, Len(s.stack)) \o <<n>>

\* The inputs whose change makes e dirty.
Counts(s, e) == ToSet(SubSeq(s.ins[e], 1, Len(s.ins[e]) - graph.order[e]))

\* An output that only a dyndep file names may be missing; others make an edge old.
LacksOutput(s, e) == e \notin graph.phony /\ ToSet(s.outs[e]) \cap graph.missing # {}

\* The end of the walk of an edge, when its inputs have been visited.
Finish(s, e) ==
    LET dirty == \/ graph.deps[e].state = "lost"
                 \/ Counts(s, e) \cap s.dirty # {}
                 \/ e \in graph.old \/ LacksOutput(s, e)
        idle  == e \in graph.phony /\ s.ins[e] = <<>>
        ready == /\ \A n \in ToSet(s.ins[e]) : InEdge(s, n) \subseteq s.ready
                 /\ ~dirty \/ idle
    IN  [s EXCEPT !.mark[e] = "done", !.stack = Front(@),
                  !.dirty = IF dirty THEN @ \cup ToSet(s.outs[e]) ELSE @,
                  !.ready = IF ready THEN @ ELSE @ \ {e}]

RECURSIVE Visit(_, _)

\* The dyndep file of e, and what it says if it is up to date.
VisitDyndep(s, e) ==
    LET file == graph.dyndep[e]
        t    == Visit(s, file)
    IN  IF e \in s.loaded \/ file \notin s.pending THEN s
        ELSE IF ~Failed(t) /\ InEdge(t, file) \subseteq t.ready THEN LoadDyndeps(t, file) ELSE t

\* RecomputeNodeDirty.
Visit(s, n) ==
    IF Failed(s) THEN s
    ELSE IF InEdge(s, n) = {} THEN [s EXCEPT !.dirty = @ \cup ({n} \cap graph.missing)]
    ELSE LET e     == Maker(s, n)
             enter == [s EXCEPT !.mark[e] = "in stack", !.stack = Append(@, n),
                                !.ready = @ \cup {e}]
             dyn   == VisitDyndep(enter, e)
             deps  == IF e \in dyn.loaded THEN dyn ELSE LoadDeps(dyn, e)
             ask   == [deps EXCEPT !.queue = @ \o graph.vals[e]]
             done  == FoldLeft(Visit, ask, ask.ins[e])
         IN  CASE s.mark[e] = "done"     -> s
               [] s.mark[e] = "in stack" -> [s EXCEPT !.cycle = CycleTo(s, n)]
               [] Failed(dyn)            -> dyn
               [] Failed(done)           -> done
               [] OTHER                  -> Finish(done, e)

\* The queue of RecomputeDirty: validations are visited like targets, with a stack
\* of their own.
RECURSIVE Drain(_)
Drain(s) ==
    IF Failed(s) \/ s.queue = <<>> THEN s
    ELSE Drain(Visit([s EXCEPT !.queue = Tail(@), !.stack = <<>>], Head(s.queue)))

\* RecomputeDirty, as Builder::AddTarget calls it.
RecomputeDirty(n) ==
    /\ ~Failed(scan) /\ n \notin scan.asked
    /\ scan' = LET s == Drain([scan EXCEPT !.queue = <<n>>])
               IN  [s EXCEPT !.asked = @ \cup {n}]
    /\ UNCHANGED graph

-----------------------------------------------------------------------------
\* The edges that have to run: the least set that has those that are old or whose
\* recorded inputs are lost, and those with an input that is missing or made by one
\* of the set.
Visited == {e \in Edge : scan.mark[e] # "none"}
Due ==
    LET needs(e) == Counts(scan, e)
        own(e) == \/ e \in graph.old \/ graph.deps[e].state = "lost" \/ LacksOutput(scan, e)
                  \/ needs(e) \cap {n \in graph.missing : InEdge(scan, n) = {}} # {}
        closed(D) == \A e \in Visited :
                       \/ e \in D
                       \/ ~own(e) /\ \A n \in needs(e) : InEdge(scan, n) \cap D = {}
        all == {D \in SUBSET Visited : closed(D)}
    IN  CHOOSE D \in all : \A F \in all : D \subseteq F

\* What a build leaves on disk in which the edges that are due have run: inputs that are
\* recorded anew, and edges it has not visited may be old now.
AfterBuild(outs, older, found) ==
    [graph EXCEPT
       !.old = (@ \ Due) \cup older,
       !.missing = @ \ UNION {ToSet(outs[e]) : e \in Due},
       !.deps = [e \in Edge |-> IF e \in Due /\ @[e].state # "none"
                                THEN [state |-> "known", nodes |-> found] ELSE @[e]]]

\* A mutant: the edges keep their marks.
ClearedOnlyNodes(s) ==
    [Unvisited(s.ins, s.outs, s.pending) EXCEPT !.mark = s.mark, !.reset = TRUE]

\* State::Reset: the flags of nodes and edges are cleared.  Inputs and outputs that were
\* discovered stay, and no dyndep file is pending again.
Cleared(s) == [Unvisited(s.ins, s.outs, s.pending) EXCEPT !.reset = TRUE]

\* The build of the manifest: dyndep files that it makes are loaded, and the command of
\* the manifest's edge left it as it was (RebuildManifest).
Reset(older, found) ==
    LET built == {n \in scan.pending : InEdge(scan, n) # {} /\ InEdge(scan, n) \subseteq Due}
        t     == FoldSet(LAMBDA n, u : IF u.error THEN u ELSE LoadDyndeps(u, n), scan, built)
    IN  /\ ~scan.reset /\ Cardinality(scan.asked) = 1 /\ Due # {}
        /\ ~Failed(t) /\ t.late = {}
        /\ graph' = AfterBuild(t.outs, older, found)
        /\ scan' = Cleared(t)

Next ==
    \/ \E n \in Node : RecomputeDirty(n)
    \/ \E older \in {{}, Edge \ Visited}, found \in Found : Reset(older, found)

-----------------------------------------------------------------------------
\* Edges below e by the inputs that are known.
EdgesIn(e) == UNION {InEdge(scan, n) : n \in ToSet(scan.ins[e])}
RECURSIVE Reach(_)
Reach(E) == LET F == E \cup UNION {EdgesIn(e) : e \in E}
            IN  IF F = E THEN E ELSE Reach(F)
OnCycle(e) == e \in Reach(EdgesIn(e))

\* A cycle that the scan reports is one: each node on it is an input of the edge that
\* makes the one before.  And it reports one if the edges it has walked have one;
\* a validation that needs the edge it validates is none.  The scan does not go back
\* to an edge it has left when a dyndep file says that an input of it is made.
CyclesAreReported ==
    LET c == scan.cycle
    IN  /\ \A i \in 1 .. Len(c) - 1 :
              \E e \in InEdge(scan, c[i]) : Contains(scan.ins[e], c[i + 1])
        /\ ~Failed(scan) /\ scan.late = {} => \A e \in Visited : ~OnCycle(e)

\* Whatever the order in which the targets are asked for and the edges are met, a
\* scan that ends well finds dirty the outputs of the edges that have to run, and
\* ready those of the edges below which nothing has to.
ScanIsRight ==
    ~Failed(scan) /\ scan.late = {} =>
      LET idle(e) == e \in graph.phony /\ scan.ins[e] = <<>>
      IN  \A e \in Visited :
            /\ (e \in Due) = (ToSet(scan.outs[e]) \subseteq scan.dirty)
            /\ (e \in scan.ready) = (\A f \in Reach({e}) : f \in Due => idle(f))

\* After a build of the manifest that was cleaned by restat, the scan finds dirty all
\* that a ninja that starts anew finds (RebuildManifest, and issue 874, which it names).
ResetIsClean ==
    scan.reset =>
      LET anew == FoldSet(LAMBDA n, s : Drain([s EXCEPT !.queue = <<n>>]), Fresh, scan.asked)
      IN  ~Failed(scan) /\ ~Failed(anew) => anew.dirty \subseteq scan.dirty
===============================================================================
