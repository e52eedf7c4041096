------------------------------ MODULE GraphTools ------------------------------
(***************************************************************************)
(* The subtools that answer a question about the manifest, or clean up     *)
(* after it: ninja -t commands, inputs, query, targets, graph, compdb,     *)
(* deps, missingdeps (ninja.cc, missing_deps.cc, graphviz.cc) and clean    *)
(* (clean.cc).  A tool gets the graph that was parsed, which has not been  *)
(* scanned: no discovered inputs are in it.  It is free of cycles; the     *)
(* recursions of most tools do not end otherwise.                          *)
(*                                                                         *)
(* An answer is what the tool prints, or removes, without the wording.     *)
(***************************************************************************)
EXTENDS Integers, Sequences, FiniteSets, SequencesExt, FiniteSetsExt

CONSTANTS
    Node, Edge,
    Error   \* the tool says what is wrong, and does nothing

VARIABLES
    graph,   \* the State: for each edge outs, ins, order (how many of ins are order-only),
             \* implicit (how many of the others are implicit), vals, rule and files (its
             \* depfile and rspfile); phony, generator and hasDeps edges; defaults;
             \* recorded: what the deps log or a depfile says of a node
    asked,   \* the tool and its arguments
    answer

vars == <<graph, asked, answer>>

NotYet == [tool |-> "none"]

InEdge(n)   == {e \in Edge : Contains(graph.outs[e], n)}
OutEdges(n) == {e \in Edge : Contains(graph.ins[e], n)}
Maker(n)    == CHOOSE e \in Edge : e \in InEdge(n)
Makers(ns)  == FlattenSeq([i \in DOMAIN ns |-> SetToSeq(InEdge(ns[i]))])
ByEdge(f(_)) == FlattenSeq([e \in 1 .. Cardinality(Edge) |-> f(e)])
Known       == UNION {ToSet(graph.outs[e] \o graph.ins[e] \o graph.vals[e]) : e \in Edge}
                 \cup UNION {{n} \cup ToSet(graph.recorded[n]) : n \in DOMAIN graph.recorded}

Reply(tool, args, what) ==
    /\ asked = NotYet
    /\ asked' = [tool |-> tool, args |-> args] /\ answer' = what
    /\ UNCHANGED graph

-----------------------------------------------------------------------------
(***************************************************************************)
(* The targets of the command line.                                        *)
(***************************************************************************)
\* State::RootNodes: the outputs that are inputs of nothing, or an error if there
\* are edges and no such output.
RootNodes == ByEdge(LAMBDA e : SelectSeq(graph.outs[e], LAMBDA n : OutEdges(n) = {}))

\* State::DefaultNodes.
DefaultNodes ==
    CASE graph.defaults # <<>>             -> graph.defaults
      [] Edge # {} /\ RootNodes = <<>>     -> Error
      [] OTHER                             -> RootNodes

\* CollectTarget for a name, or with a ^ for what is made from it first.
CollectTarget(arg) ==
    LET n    == arg.node
        outs == SetToSortSeq(OutEdges(n), <)
        deps == {m \in DOMAIN graph.recorded : Contains(graph.recorded[m], n)}
    IN  CASE n \notin Known           -> Error
          [] ~arg.hat                 -> n
          [] outs # <<>>              -> graph.outs[Head(outs)][1]
          [] deps # {}                -> CHOOSE m \in deps : TRUE
          [] OTHER                    -> Error

CollectTargetsFromArgs(args) ==
    LET nodes == [i \in DOMAIN args |-> CollectTarget(args[i])]
    IN  CASE args = <<>>               -> DefaultNodes
          [] Error \in ToSet(nodes)    -> Error
          [] OTHER                     -> nodes

\* What a tool that takes targets does with them.
ForTargets(args, f(_)) ==
    LET nodes == CollectTargetsFromArgs(args)
    IN  IF nodes = Error THEN Error ELSE f(nodes)

-----------------------------------------------------------------------------
(***************************************************************************)
(* Commands and inputs, in the order of a walk from the targets down.      *)
(***************************************************************************)
\* PrintCommands and CollectInputs: the edges that have not been seen, those of the
\* inputs first.
RECURSIVE Walk(_, _)
Walk(w, e) ==
    IF Contains(w, e) THEN w ELSE Append(FoldLeft(Walk, w, Makers(graph.ins[e])), e)

Commands(nodes, single) ==
    LET edges == IF single THEN FoldLeft(LAMBDA w, e : IF Contains(w, e) THEN w ELSE Append(w, e),
                                         <<>>, Makers(nodes))
                 ELSE FoldLeft(Walk, <<>>, Makers(nodes))
    IN  SelectSeq(edges, LAMBDA e : e \notin graph.phony)

ToolCommands(args, single) ==
    Reply(IF single THEN "last commands" ELSE "commands", args, ForTargets(args, LAMBDA ns : Commands(ns, single)))

ToolInputs(args) ==
    Reply("inputs", args,
          ForTargets(args, LAMBDA ns : UNION {ToSet(graph.ins[e]) : e \in ToSet(Commands(ns, FALSE))}))

-----------------------------------------------------------------------------
(***************************************************************************)
(* Looking at the graph.                                                   *)
(***************************************************************************)
Label(e, i) ==
    LET n == Len(graph.ins[e])
    IN  CASE i > n - graph.order[e]                       -> "order-only"
          [] i > n - graph.order[e] - graph.implicit[e]   -> "implicit"
          [] OTHER                                        -> "explicit"

Query(n) ==
    [inputs |-> ByEdge(LAMBDA e : IF e \notin InEdge(n) THEN <<>>
                                  ELSE [i \in DOMAIN graph.ins[e] |-> <<graph.ins[e][i], Label(e, i)>>]),
     validations |-> ByEdge(LAMBDA e : IF e \in InEdge(n) THEN graph.vals[e] ELSE <<>>),
     outputs |-> ByEdge(LAMBDA e : IF e \in OutEdges(n) THEN graph.outs[e] ELSE <<>>),
     validates |-> ByEdge(LAMBDA e : IF Contains(graph.vals[e], n) THEN graph.outs[e] ELSE <<>>)]

ToolQuery(args) ==
    /\ args # <<>>
    /\ Reply("query", args, ForTargets(args, LAMBDA ns : [i \in DOMAIN ns |-> Query(ns[i])]))

\* ToolTargetsList: the tree below the nodes, down to a depth, or all of it.
RECURSIVE Tree(_, _, _)
Tree(ns, depth, indent) ==
    LET below(n) == IF InEdge(n) # {} /\ (depth > 1 \/ depth <= 0)
                    THEN Tree(graph.ins[Maker(n)], depth - 1, indent + 1) ELSE <<>>
    IN  FlattenSeq([i \in DOMAIN ns |-> <<<<indent, ns[i]>>>> \o below(ns[i])])

TargetsList(mode) ==
    CASE mode.by = "source" -> ByEdge(LAMBDA e : SelectSeq(graph.ins[e], LAMBDA n : InEdge(n) = {}))
      [] mode.by = "rule"   -> UNION {ToSet(graph.outs[e]) : e \in {f \in Edge : graph.rule[f] = mode.rule}}
      [] mode.by = "all"    -> ByEdge(LAMBDA e : [i \in DOMAIN graph.outs[e] |-> <<graph.outs[e][i], graph.rule[e]>>])
      [] mode.by = "depth"  -> IF Edge # {} /\ RootNodes = <<>> THEN Error ELSE Tree(RootNodes, mode.depth, 0)

ToolTargets(mode) == Reply("targets", mode, TargetsList(mode))

\* GraphViz::AddTarget: a node and an edge are drawn once, with all below them.
RECURSIVE Draw(_, _)
Draw(d, n) ==
    LET node == [d EXCEPT !.nodes = @ \cup {n}]
        e    == Maker(n)
        edge == [node EXCEPT !.edges = Append(@, e)]
    IN  CASE n \in d.nodes -> d
          [] n \notin d.nodes /\ (InEdge(n) = {} \/ Contains(d.edges, e)) -> node
          [] OTHER -> FoldLeft(Draw, edge, graph.ins[e])

ToolGraph(args) ==
    Reply("graph", args,
          ForTargets(args, LAMBDA ns : FoldLeft(Draw, [nodes |-> {}, edges |-> <<>>], ns)))

\* printCompdb for each edge that has an input, and for each argument that names its rule.
ToolCompilationDatabase(rules) ==
    Reply("compdb", rules,
          ByEdge(LAMBDA e : IF graph.ins[e] = <<>> THEN <<>>
                            ELSE [i \in 1 .. IF rules = <<>> THEN 1
                                             ELSE Len(SelectSeq(rules, LAMBDA r : r = graph.rule[e]))
                                    |-> <<graph.ins[e][1], graph.outs[e][1]>>]))

\* ToolDeps: without targets, the entries that IsDepsEntryLiveFor keeps.
ToolDeps(args) ==
    LET entries(ns) == [i \in DOMAIN ns |-> IF ns[i] \in DOMAIN graph.recorded
                                            THEN graph.recorded[ns[i]] ELSE Error]
        live == SelectSeq(SetToSeq(DOMAIN graph.recorded),
                          LAMBDA n : InEdge(n) \cap graph.hasDeps # {})
    IN  Reply("deps", args, IF args = <<>> THEN entries(live) ELSE ForTargets(args, entries))

-----------------------------------------------------------------------------
(***************************************************************************)
(* MissingDependencyScanner: what a command was seen to read, and nothing  *)
(* in the manifest makes sure is there first.                              *)
(***************************************************************************)
BuildNinja == "build.ninja"

\* PathExistsBetween: adjacency_map_ with the answer to it, and to the questions that
\* came up on the way.
RECURSIVE PathExistsBetween(_, _, _)
PathExistsBetween(map, from, to) ==
    IF <<from, to>> \in DOMAIN map THEN map
    ELSE LET Try(r, e) ==
                 LET m == IF e = from THEN r.map ELSE PathExistsBetween(r.map, from, e)
                 IN  IF r.found THEN r ELSE [map |-> m, found |-> e = from \/ m[<<from, e>>]]
             tried == FoldLeft(Try, [map |-> map, found |-> FALSE], Makers(graph.ins[to]))
         IN  (<<from, to>> :> tried.found) @@ tried.map

\* ProcessNodeDeps: the generated files n has read without a path, or nothing if it
\* has read the manifest.
ProcessNodeDeps(s, n) ==
    LET read == IF n \in DOMAIN graph.recorded THEN ToSet(graph.recorded[n]) ELSE {}
        made == {r \in read : InEdge(r) # {}}
        map  == FoldLeft(LAMBDA m, e : PathExistsBetween(m, e, Maker(n)), s.adjacency,
                         SetToSeq({Maker(r) : r \in made}))
    IN  IF BuildNinja \in read THEN s
        ELSE [s EXCEPT !.adjacency = map,
                       !.missing = @ \cup {<<n, r>> : r \in {q \in made : ~map[<<Maker(q), Maker(n)>>]}}]

\* ProcessNode.
RECURSIVE ProcessNode(_, _)
ProcessNode(s, n) ==
    IF InEdge(n) = {} \/ n \in s.seen THEN s
    ELSE ProcessNodeDeps(FoldLeft(ProcessNode, [s EXCEPT !.seen = @ \cup {n}], graph.ins[Maker(n)]), n)

ToolMissingDeps(args) ==
    Reply("missingdeps", args,
          ForTargets(args, LAMBDA ns :
            FoldLeft(ProcessNode, [seen |-> {}, adjacency |-> <<>>, missing |-> {}], ns).missing))

-----------------------------------------------------------------------------
(***************************************************************************)
(* Cleaner.  An answer is the set of the paths given to Remove.            *)
(***************************************************************************)
CleanAll(generator) ==
    UNION {ToSet(graph.outs[e]) \cup graph.files[e] :
             e \in {f \in Edge \ graph.phony : generator \/ f \notin graph.generator}}

\* A mutant: the walk stops at an edge that has nothing to remove.
RECURSIVE CleanToPhony(_, _)
CleanToPhony(c, n) ==
    IF InEdge(n) = {} \/ Maker(n) \in graph.phony THEN [c EXCEPT !.cleaned = @ \cup {n}]
    ELSE LET own   == [c EXCEPT !.removed = @ \cup {n} \cup graph.files[Maker(n)]]
             below == FoldLeft(LAMBDA d, i : IF i \in d.cleaned THEN d ELSE CleanToPhony(d, i),
                               own, graph.ins[Maker(n)])
         IN  [below EXCEPT !.cleaned = @ \cup {n}]

\* DoCleanTarget, on what is cleaned_ and removed_: of an edge, the output it is
\* reached by.  A node counts as cleaned when all below it are.
RECURSIVE DoCleanTarget(_, _)
DoCleanTarget(c, n) ==
    IF InEdge(n) = {} THEN [c EXCEPT !.cleaned = @ \cup {n}]
    ELSE LET own   == IF Maker(n) \in graph.phony THEN c
                      ELSE [c EXCEPT !.removed = @ \cup {n} \cup graph.files[Maker(n)]]
             below == FoldLeft(LAMBDA d, i : IF i \in d.cleaned THEN d ELSE DoCleanTarget(d, i),
                               own, graph.ins[Maker(n)])
         IN  [below EXCEPT !.cleaned = @ \cup {n}]

\* CleanTargets: unknown ones are an error, and the others are cleaned all the same.
CleanTargets(ns) ==
    FoldLeft(DoCleanTarget, [cleaned |-> {}, removed |-> {}],
             SelectSeq(ns, LAMBDA n : n \in Known)).removed

\* CleanRules, generators and all.
CleanRules(rules) ==
    UNION {ToSet(graph.outs[e]) \cup graph.files[e] : e \in {f \in Edge : graph.rule[f] \in rules}}

ToolClean ==
    \/ \E g \in BOOLEAN : Reply("clean all", g, CleanAll(g))
    \/ \E n, m \in Node : Reply("clean", <<n, m>>, CleanTargets(<<n, m>>))
    \/ \E r \in {graph.rule[e] : e \in Edge} : Reply("clean rule", r, CleanRules({r}))

-----------------------------------------------------------------------------
Args == {<<>>} \cup {<<[node |-> n, hat |-> h]>> : n \in Node, h \in BOOLEAN}
               \cup UNION {{<<[node |-> n, hat |-> FALSE], [node |-> m, hat |-> FALSE]>> :
                         n \in Node \ {m}} : m \in {graph.outs[e][1] : e \in Edge}}

Modes == {[by |-> "source"], [by |-> "all"]}
           \cup {[by |-> "rule", rule |-> graph.rule[e]] : e \in Edge}
           \cup {[by |-> "depth", depth |-> d] : d \in 0 .. 2}

Ask ==
    \/ \E args \in Args :
         \/ \E s \in BOOLEAN : ToolCommands(args, s)
         \/ ToolInputs(args) \/ ToolQuery(args) \/ ToolGraph(args)
         \/ ToolDeps(args) \/ ToolMissingDeps(args)
    \/ \E mode \in Modes : ToolTargets(mode)
    \/ \E rules \in {<<>>} \cup {<<graph.rule[e]>> : e \in Edge} : ToolCompilationDatabase(rules)
    \/ ToolClean

Next == asked = NotYet /\ Ask

-----------------------------------------------------------------------------
Asked(tool) == asked.tool = tool /\ answer # Error

Below(e) == UNION {InEdge(n) : n \in ToSet(graph.ins[e])}
RECURSIVE Needed(_)
Needed(E) == LET F == E \cup UNION {Below(e) : e \in E} IN IF F = E THEN E ELSE Needed(F)
NeededFor(nodes) == Needed(UNION {InEdge(n) : n \in nodes})

\* The commands that ninja -t commands prints are the ones a full build of the targets
\* runs, each once, and run one after the other they find what they need: each comes
\* after all that are below it, through phony edges too.
CommandsInOrder ==
    Asked("commands") =>
      /\ IsInjective(answer)
      /\ ToSet(answer) = NeededFor(ToSet(CollectTargetsFromArgs(asked.args))) \ graph.phony
      /\ \A i, j \in DOMAIN answer : answer[i] \in Needed(Below(answer[j])) => i < j

\* ninja -t missingdeps names the reads of generated files for which the manifest does
\* not make sure that their command runs first, and only those.
MissingDepsAreMissing ==
    Asked("missingdeps") =>
      LET nodes == {n \in UNION {ToSet(graph.outs[e]) \cup ToSet(graph.ins[e]) : e \in Edge} :
                      /\ InEdge(n) # {}
                      /\ \/ n \in ToSet(CollectTargetsFromArgs(asked.args))
                         \/ \E e \in NeededFor(ToSet(CollectTargetsFromArgs(asked.args))) :
                              Contains(graph.ins[e], n)}
          reads == [n \in nodes |-> IF n \in DOMAIN graph.recorded THEN ToSet(graph.recorded[n]) ELSE {}]
      IN  answer = UNION {{<<n, m>> : m \in {r \in reads[n] :
                              /\ BuildNinja \notin reads[n] /\ InEdge(r) # {}
                              /\ ~InEdge(r) \subseteq Needed(Below(Maker(n)))}} : n \in nodes}

\* After ninja -t clean of some targets a build of them runs all their commands again,
\* and no file goes that none of these commands makes.  Without targets all commands
\* run again, but those of the generators unless -g is given.
CleanMeansRebuild ==
    /\ Asked("clean") =>
         LET edges == NeededFor(ToSet(asked.args)) \ graph.phony
         IN  /\ \A e \in edges : ToSet(graph.outs[e]) \cap answer # {}
             /\ answer \subseteq UNION {ToSet(graph.outs[e]) \cup graph.files[e] : e \in edges}
    /\ Asked("clean all") =>
         \A e \in Edge \ graph.phony :
           IF asked.args \/ e \notin graph.generator THEN ToSet(graph.outs[e]) \subseteq answer
           ELSE ToSet(graph.outs[e]) \cap answer = {}
===============================================================================
