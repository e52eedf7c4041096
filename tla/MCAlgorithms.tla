----------------------------- MODULE MCAlgorithms -----------------------------
(***************************************************************************)
(* The sequential algorithms, each for all inputs of a small shape: the    *)
(* scan (Scan) and the subtools (GraphTools) over graphs, from a compile   *)
(* command to a remote action (RemoteCommand), paths (Paths), texts of     *)
(* depfiles (Depfile), and of manifests (Manifest).  A behaviour is about  *)
(* one of them.                                                            *)
(***************************************************************************)
EXTENDS Integers, Sequences, FiniteSets, SequencesExt

CONSTANT Error

VARIABLES
    graph, scan,     \* of Scan
    asked, answer,   \* of GraphTools, with graph
    spawn,           \* of RemoteCommand
    given,           \* the paths, or the depfile, that the functions are given
    dupes, envs, open, pools, in_edge, outs_of, edges, defaults, parse, text   \* of Manifest

ScanNode == {"s", "a", "b", "c", "d"}
ToolNode == {"s", "a", "b", "c", "d", "e", "nowhere"}
ScanOuts == <<<<"a", "b">>, <<"c">>, <<"d">>>>
ToolOuts == <<<<"a", "b">>, <<"c">>, <<"d">>, <<"e">>>>

Scanning == INSTANCE Scan WITH
                Node <- ScanNode, Edge <- 1 .. 3, Found <- {<<"s">>, <<"b">>}
Tools    == INSTANCE GraphTools WITH Node <- ToolNode, Edge <- 1 .. 4
Remote   == INSTANCE RemoteCommand WITH
                Cwd <- <<"", "p", "w">>, ProjectRoot <- <<"", "p">>, LocalOnly <- {"link"}
Path     == INSTANCE Paths
Dep      == INSTANCE Depfile
Texts    == INSTANCE ManifestTexts
Parser   == INSTANCE Manifest WITH
                Statement <- Texts!MCStatement, Preamble <- Texts!MCPreamble,
                MaxStatements <- 6, MaxOpen <- 2

UpToTwo(from) == {SetToSeq(I) : I \in {J \in SUBSET from : Cardinality(J) <= 2}}

\* All that have three edges, one with two outputs and one that may be phony, each
\* with at most two inputs, of which one may be order-only, one discovered input, one
\* validation and one dyndep file among them.  Many of them have cycles.
ScanGraphs ==
    {g \in [outs : {ScanOuts},
            ins : {<<i, j, k>> : i \in UpToTwo({"b", "c", "d"}), j \in UpToTwo({"s", "b", "d"}),
                                 k \in UpToTwo({"a", "c"})},
            order : {<<0, 0, 0>>, <<1, 0, 0>>, <<0, 1, 0>>},
            vals : {<<<<>>, <<>>, <<>>>>, <<<<"d">>, <<>>, <<>>>>},
            deps : {<<[state |-> "none"], d, [state |-> "none"]>> :
                      d \in {[state |-> "none"], [state |-> "lost"],
                             [state |-> "known", nodes |-> <<"a">>]}},
            dyndep : {<<Scanning!None, Scanning!None, Scanning!None>>,
                      <<Scanning!None, Scanning!None, "c">>, <<Scanning!None, "s", Scanning!None>>},
            adds : {<<<<>>, <<"b">>, <<"b">>>>},
            makes : {<<<<>>, <<>>, m>> : m \in {<<>>, <<"s">>, <<"a">>}},
            phony : {{}, {3}}, old : {{}, {1}, {2}}, missing : {{}, {"s"}}] :
        /\ \A e \in 1 .. 3 : g.order[e] <= Len(g.ins[e])
        /\ \A e \in 1 .. 3 : g.dyndep[e] # Scanning!None => Contains(g.ins[e], g.dyndep[e])
        /\ g.makes[3] # <<>> => g.dyndep[3] # Scanning!None
        \* a few of the combinations
        /\ g.missing # {} => g.old = {} /\ g.phony = {}
        /\ g.vals[1] # <<>> => g.phony = {} /\ g.deps[2].state # "lost"
        /\ g.dyndep[2] # Scanning!None => g.phony = {} /\ g.vals[1] = <<>> /\ g.order[1] = 0
        /\ g.dyndep[3] # Scanning!None => g.phony = {} /\ g.vals[1] = <<>>
        /\ g.makes[3] # <<>> => g.order = <<0, 0, 0>> /\ g.deps[2].state # "known"}

\* Without cycles: an edge with two outputs that may be a generator, two that may be
\* phony, one with a record in the deps log, in all the ways to connect them.
ToolGraphs ==
    {g \in [outs : {ToolOuts},
            ins : {<<<<"s">>, i, j, k>> : i \in {I \in UpToTwo({"a", "b"}) : Len(I) <= 1},
                                          j \in UpToTwo({"s", "c"}),
                                          k \in UpToTwo({"b", "c", "d"})},
            order : {<<0, 0, 0, 0>>, <<0, 0, 0, 1>>}, implicit : {<<1, 0, 0, 0>>},
            vals : {<<<<>>, <<"a">>, <<>>, <<>>>>},
            rule : {<<"gen", "phony", "cc", "cc">>, <<"gen", "cc", "cc", "phony">>},
            files : {<<{}, {"c.rsp"}, {"d.d"}, {}>>},
            phony : {{2}, {4}}, generator : {{}, {1}}, hasDeps : {{3}},
            defaults : {<<>>, <<"d">>},
            recorded : {[n \in {"d", "old"} |-> CASE n = "d" -> r [] OTHER -> <<"s">>] :
                          r \in {<<"s", "a">>, <<"b", "c">>, <<"a", "build.ninja">>}}] :
        /\ \A e \in 1 .. 4 : g.order[e] <= Len(g.ins[e])
        /\ \A e \in 1 .. 4 : g.rule[e] = "phony" <=> e \in g.phony
        /\ (g.generator = {}) = (g.phony = {2})
        /\ g.defaults # <<>> => g.phony = {2} /\ g.order[4] = 0
        /\ g.order[4] = 1 => g.phony = {2}}

-----------------------------------------------------------------------------
\* Compile commands in three orders of their options, with the options that the parser
\* has rules for in their spellings, relative and absolute files, and a few that lead
\* out of the directory of the build, for which no action is complete.
Option(opt, form, arg) == [opt |-> opt, form |-> form, arg |-> arg]
Flag(opt) == Option(opt, "flag", <<>>)

Source  == {Option("", "file", p) : p \in {<<"a.c">>, <<"", "p", "w", "a.c">>, <<"..", "a.c">>}}
Include == {Option("-I", "joined", <<"", "p", "w", "i">>), Option("-I", "alone", <<"i">>),
            Option("-I", "joined", <<"", "usr", "i">>), Option("-isystem", "alone", <<"", "p", "w", "i">>),
            Option("-include", "alone", <<"i", "x">>), Option("-isystem", "joined", <<"i">>)}
Other   == {Flag("-O"), Option("-x", "joined", <<"objc">>), Option("-x", "alone", <<"c">>),
            Option("-D", "alone", <<"N">>), Option("-D", "joined", <<"N">>)}
DepOpts == {<<>>, <<Flag("-MD"), Option("-MF", "alone", <<"d.d">>)>>,
            <<Flag("-MMD"), Option("-MF", "joined", <<"d.d">>), Option("-MT", "joined", <<"a.o">>)>>,
            <<Option("-Wp,", "stage", <<Flag("-MP"), Option("-MF", "alone", <<"d.d">>),
                                        Option("-I", "joined", <<"i">>)>>)>>}
Output  == {Option("-o", "alone", <<"a.o">>), Option("-o", "joined", <<"a.o">>)}

Commands ==
    UNION {{<<Flag("-c"), x, i>> \o d \o <<o, s>>, <<o, x, s>> \o d \o <<i, Flag("-c")>>, <<x, s, i, o>>} :
              x \in Other, i \in Include, d \in DepOpts, o \in Output, s \in Source}

RemoteEdges ==
    {[rule |-> "cc", compiler |-> "gcc", options |-> c, words |-> Remote!Words(c), backslash |-> b,
      ins |-> <<<<"a.c">>, <<"", "p", "w", "gen">>>>, outs |-> <<<<"a.o">>>>] : c \in Commands, b \in BOOLEAN}

\* All paths of at most four parts, each with all of at most two.
PathsUpTo(n) == UNION {[1 .. k -> {"", ".", "..", "a", "b"}] : k \in 1 .. n}
PathPairs == {[kind |-> "paths", p |-> p, q |-> q] : p \in PathsUpTo(4), q \in PathsUpTo(2)}
Bases == {<<"", "a">>, <<"", "a", "b">>, <<"", "b", "b">>}

\* All names of at most three characters, in front of a second one.
NamesUpTo(n) == UNION {[1 .. k -> {"a", Dep!Space, Dep!Back, Dep!Hash, Dep!Colon, Dep!Dollar}] : k \in 1 .. n}
Depfiles ==
    {[kind |-> "depfile", out |-> o, ins |-> <<n, m>>, breaks |-> b, phony |-> f] :
        o \in {<<"b">>, <<"a">>, <<"b", Dep!Back, Dep!Back>>}, n \in NamesUpTo(3),
        m \in {<<"b", "b">>, <<"a">>, <<"b", Dep!Space>>}, b \in BOOLEAN, f \in BOOLEAN}
DepEdge == [outs |-> <<<<"b">>, <<"a">>>>, ins |-> <<<<"a", "a">>, <<"b", "a">>>>, order |-> 1]

-----------------------------------------------------------------------------
Idle == [tool |-> "off"]
manifestVars == <<dupes, envs, open, pools, in_edge, outs_of, edges, defaults, parse, text>>

\* What the others are while a behaviour is about one of them.
NoScan    == scan = Error
NoTool    == asked = Idle /\ answer = Error
NoSpawn   == spawn = Error
NoGiven   == given = Error
NoText    == /\ dupes = Error /\ envs = Error /\ open = Error /\ pools = Error /\ in_edge = Error
             /\ outs_of = Error /\ edges = Error /\ defaults = Error /\ parse = "off" /\ text = Error

Init ==
    \/ graph \in ScanGraphs /\ scan = Scanning!Fresh /\ NoTool /\ NoSpawn /\ NoGiven /\ NoText
    \/ graph \in ToolGraphs /\ asked = Tools!NotYet /\ answer = Error
       /\ NoScan /\ NoSpawn /\ NoGiven /\ NoText
    \/ spawn \in {[stage |-> "edge", edge |-> e] : e \in RemoteEdges}
       /\ graph = Error /\ NoScan /\ NoTool /\ NoGiven /\ NoText
    \/ given \in PathPairs \cup Depfiles
       /\ graph = Error /\ NoScan /\ NoTool /\ NoSpawn /\ NoText
    \/ Parser!Init /\ graph = Error /\ NoScan /\ NoTool /\ NoSpawn /\ NoGiven

Next ==
    \/ scan # Error /\ Scanning!Next /\ UNCHANGED <<asked, answer, spawn, given, manifestVars>>
    \/ asked # Idle /\ Tools!Next /\ UNCHANGED <<scan, spawn, given, manifestVars>>
    \/ spawn # Error /\ Remote!Next /\ UNCHANGED <<graph, scan, asked, answer, given, manifestVars>>
    \/ parse # "off" /\ Parser!Next /\ UNCHANGED <<graph, scan, asked, answer, spawn, given>>

Spec == Init /\ [][Next]_<<graph, scan, asked, answer, spawn, given, manifestVars>>

\* A cycle that a scan reports is one, and it reports one if there is one; else it
\* finds dirty what has to be made, and ready what needs no work below it.
ScanIsRight == scan # Error => /\ Scanning!CyclesAreReported
                               /\ Scanning!ScanIsRight
                               /\ Scanning!ResetIsClean

\* The list of ninja -t commands can be run as it stands; ninja -t missingdeps names
\* the missing paths, and only those; after ninja -t clean everything that it was
\* asked to clean is made again.
ToolsAreRight ==
    asked # Idle => /\ Tools!CommandsInOrder
                    /\ Tools!MissingDepsAreMissing
                    /\ Tools!CleanMeansRebuild

\* The command that lists the headers is the compile command, but for what it writes.
DepsCommandIsRight == spawn # Error => Remote!DepsCommandIsRight

\* A worker finds each file that the command reads, and hands back what it writes.
ActionIsComplete == spawn # Error => Remote!ActionIsComplete

\* The edges of the graph are those that the statements wrote, a variable of an edge
\* has the value of its scope, and without defaults a build builds everything.
ManifestIsRead ==
    parse # "off" => /\ Parser!LookupsAreScoped
                     /\ Parser!EdgesAreAsWritten
                     /\ Parser!EverythingIsBuilt

\* Canonical and relative paths lead to where the path led.
PathsMeanTheSame ==
    (given # Error /\ given.kind = "paths") =>
        /\ Path!MeansTheSame(given.p, given.q)
        /\ Len(given.q) = 1 => \A dir \in Bases : Path!RelativeIsSame(given.p, dir)

\* An edge gets the inputs that a compiler wrote down, and so do the remote workers.
DepfileIsRead ==
    (given # Error /\ given.kind = "depfile") =>
        /\ Dep!DepfileIsRead(DepEdge, given.out, given.ins, given.breaks, given.phony)
        /\ Dep!ParsersAgree(given.out, given.ins, given.breaks)
===============================================================================
