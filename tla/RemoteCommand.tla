----------------------------- MODULE RemoteCommand -----------------------------
(***************************************************************************)
(* From an edge to the action that a remote worker runs: RemoteSpawn, the  *)
(* parser of compile commands (CompileCommandParser), which makes of one   *)
(* the command that lists its headers, and BuildAction.                    *)
(*                                                                         *)
(* A command is a sequence of words [opt, arg]: an option, or "" for a     *)
(* file, with what is written in the same word behind it, <<>> if nothing. *)
(* A file is a path of Paths; behind "-Wp," are words.  Which options      *)
(* begin with which others is given (Shorter).  What the compiler prints   *)
(* is that of an include path with one header in it (external).            *)
(***************************************************************************)
EXTENDS Paths, TLC, FiniteSets

CONSTANTS
    Cwd,          \* rbe_config.cwd, without a slash at its end
    ProjectRoot,  \* rbe_config.project_root
    LocalOnly     \* rules that .cloudbuild.yml keeps on this machine

VARIABLE spawn   \* the edge, and what has been made of it

None == <<>>
Word(opt, arg) == [opt |-> opt, arg |-> arg]
File(path)     == Word("", path)

-----------------------------------------------------------------------------
(***************************************************************************)
(* The rules for the options of a compiler (ParseRulesMap).                *)
(***************************************************************************)
Table(options, rule) == [o \in options |-> rule]

GccPreprocessorRules ==
    Table({"-MD", "-MMD", "-M", "-MM", "-MG", "-MP", "-MV"}, "interferes")
    @@ Table({"-o"}, "output") @@ Table({"-MF", "-MT", "-MQ"}, "deps_output")
    @@ Table({"-include", "-imacros", "-I", "-iquote", "-isystem", "-idirafter",
              "-iprefix", "-isysroot", "--sysroot"}, "input")

GccRules ==
    GccPreprocessorRules
    @@ Table({"-Wmissing-include-dirs", "-Werror=missing-include-dirs"}, "interferes")
    @@ Table({"-c"}, "compile") @@ Table({"-D"}, "macro")
    @@ Table({"-Wp,"}, "stage") @@ Table({"-Xpreprocessor"}, "next_stage") @@ Table({"-x"}, "language")

SunCPPRules ==
    Table({"-xM", "-xM1", "-xMD", "-xMMD"}, "interferes") @@ Table({"-D"}, "macro")
    @@ Table({"-o", "-xMF"}, "output") @@ Table({"-I", "-include"}, "input")
    @@ Table({"-c"}, "compile") @@ Table({"-xpch", "-xprofile", "-###"}, "unsupported")

AIXRules ==
    Table({"-qmakedep", "-qmakedep=gcc", "-M", "-qsyntaxonly"}, "interferes") @@ Table({"-D"}, "macro")
    @@ Table({"-o", "-MF", "-qexpfile"}, "output") @@ Table({"-qinclude", "-I", "-qcinc"}, "input")
    @@ Table({"-c"}, "compile") @@ Table({"-#", "-qshowpdf", "-qdump_class_hierachy"}, "unsupported")

Rules(compiler) ==
    CASE compiler = "gcc" -> GccRules
      [] compiler = "CC"  -> SunCPPRules
      [] compiler = "xlc" -> AIXRules
      [] OTHER            -> <<>>

\* MakeResult: what is added to a command to have it print the headers.
DefaultDeps(compiler) ==
    CASE compiler = "gcc" -> <<Word("-M", None)>>
      [] compiler = "CC"  -> <<Word("-xM", None)>>
      [] compiler = "xlc" -> <<Word("-qsyntaxonly", None), Word("-M", None), Word("-MF", None), File(<<"", "tmp">>)>>
      [] OTHER            -> <<>>

GccSupportedLanguages == {<<"c">>, <<"c++">>, <<"c-header">>}

\* The options of the tables that an option begins with.
Shorter(opt) ==
    CASE opt \in {"-MD", "-MM", "-MG", "-MP", "-MV", "-MF", "-MT", "-MQ"} -> {"-M"}
      [] opt = "-MMD"                                                     -> {"-M", "-MM"}
      [] opt \in {"-xM", "-xpch", "-xprofile"}                            -> {"-x"}
      [] opt \in {"-xM1", "-xMD", "-xMMD", "-xMF"}                        -> {"-x", "-xM"}
      [] opt = "-qmakedep=gcc"                                            -> {"-qmakedep"}
      [] OTHER                                                            -> {}

\* A mutant: the map of the rules is in ascending order.
ShortestMatch(word, rules) ==
    LET found == ({word.opt} \cup Shorter(word.opt)) \cap DOMAIN rules
    IN  IF word.arg = None /\ word.opt \in DOMAIN rules THEN {word.opt}
        ELSE {o \in found : \A p \in found : p = o \/ o \in Shorter(p)}

\* The option itself, or else the first in descending order that the word begins with:
\* the longest.
MatchCompilerOptions(word, rules) ==
    LET found == ({word.opt} \cup Shorter(word.opt)) \cap DOMAIN rules
    IN  IF word.arg = None /\ word.opt \in DOMAIN rules THEN {word.opt}
        ELSE {o \in found : \A p \in found : p = o \/ p \in Shorter(o)}

-----------------------------------------------------------------------------
(***************************************************************************)
(* CompileCommandParser.                                                   *)
(***************************************************************************)
NoResult == [deps |-> <<>>, products |-> {}, deps_products |-> {}, stage |-> <<>>,
             compiles |-> FALSE, unsupported |-> FALSE]

\* One option: its rule may take the word behind it too.
ParseOption(rule, option, words, r) ==
    LET word  == Head(words)
        alone == word = Word(option, None)
        taken == IF alone THEN SubSeq(words, 1, 2) ELSE <<word>>
        value == Last(taken).arg
    IN  CASE rule = "interferes"  -> [res |-> r, rest |-> Tail(words)]
          [] rule = "compile"     -> [res |-> [r EXCEPT !.compiles = TRUE, !.deps = Append(@, word)], rest |-> Tail(words)]
          [] rule \in {"input", "macro"} ->
                [res |-> [r EXCEPT !.deps = @ \o taken], rest |-> SubSeq(words, Len(taken) + 1, Len(words))]
          [] rule = "language" ->
                [res |-> [r EXCEPT !.deps = @ \o taken,
                                   !.unsupported = @ \/ value \notin GccSupportedLanguages],
                 rest |-> SubSeq(words, Len(taken) + 1, Len(words))]
          [] rule = "output" ->
                [res |-> [r EXCEPT !.products = @ \cup {value}], rest |-> SubSeq(words, Len(taken) + 1, Len(words))]
          [] rule = "deps_output" ->
                [res |-> [r EXCEPT !.deps_products = @ \cup {value}], rest |-> SubSeq(words, Len(taken) + 1, Len(words))]
          [] rule = "stage"       -> [res |-> [r EXCEPT !.stage = @ \o word.arg], rest |-> Tail(words)]
          [] rule = "next_stage"  -> [res |-> [r EXCEPT !.stage = Append(@, words[2])], rest |-> Tail(Tail(words))]
          [] rule = "unsupported" -> [res |-> [r EXCEPT !.unsupported = TRUE, !.deps = @ \o words], rest |-> <<>>]

RECURSIVE InternalParseCommand(_, _, _)
InternalParseCommand(words, rules, r) ==
    IF words = <<>> THEN r
    ELSE LET match == MatchCompilerOptions(Head(words), rules)
             option == CHOOSE o \in match : TRUE
             step == IF match = {} THEN [res |-> [r EXCEPT !.deps = Append(@, Head(words))], rest |-> Tail(words)]
                     ELSE ParseOption(rules[option], option, words, r)
         IN  InternalParseCommand(step.rest, rules, step.res)

\* The first word is the compiler, of which CommandBaseName leaves the name.
ParseCommand(compiler, words) ==
    LET r == InternalParseCommand(words, Rules(compiler), NoResult)
        p == InternalParseCommand(r.stage, GccPreprocessorRules, NoResult)
        staged == FlattenSeq([i \in DOMAIN p.deps |-> <<Word("-Xpreprocessor", None), p.deps[i]>>])
    IN  IF r.unsupported THEN [r EXCEPT !.compiles = FALSE]
        ELSE [r EXCEPT !.deps = @ \o staged \o DefaultDeps(compiler),
                       !.products = @ \cup p.products, !.deps_products = @ \cup p.deps_products]

-----------------------------------------------------------------------------
(***************************************************************************)
(* The compiler (external): the sources are the files that are no          *)
(* option's, and each directory to search has one header that they need.   *)
(***************************************************************************)
TakesValue == {"-I", "-isystem", "-include", "-D", "-x", "-o", "-MF", "-MT", "-Xpreprocessor"}

Values(words, options) ==
    {words[i].arg : i \in {j \in DOMAIN words : words[j].opt \in options /\ words[j].arg # None}}
    \cup {words[i].arg : i \in {j \in DOMAIN words : j > 1 /\ words[j - 1].opt \in options /\ words[j - 1].arg = None}}

Sources(words) ==
    {words[i].arg : i \in {j \in DOMAIN words : /\ words[j].opt = ""
                                                /\ ~(j > 1 /\ words[j - 1].opt \in TakesValue /\ words[j - 1].arg = None)}}
Headers(words) == {Append(dir, "h") : dir \in Values(words, {"-I", "-isystem"})} \cup Values(words, {"-include"})
Reads(words)   == Sources(words) \cup Headers(words)
Writes(words)  == Values(words, {"-o", "-MF"})

-----------------------------------------------------------------------------
(***************************************************************************)
(* RemoteSpawn.                                                            *)
(***************************************************************************)
CanExecuteRemotelly(edge) == edge.rule \notin LocalOnly /\ edge.compiler = "gcc"

\* Order-only inputs are left behind.
CreateRemoteSpawn ==
    /\ spawn.stage = "edge"
    /\ LET edge == spawn.edge IN
       spawn' = [stage |-> "created", edge |-> edge, remote |-> CanExecuteRemotelly(edge),
                 arguments |-> edge.words, inputs |-> ToSet(edge.ins), outputs |-> ToSet(edge.outs)]

ToRelative(path) ==
    IF Absolute(path) /\ HasPathPrefix(path, ProjectRoot) THEN MakePathRelative(path, Cwd) ELSE path

\* A mutant: what is written behind an option stays as it is.
WordToRelativeFile(word) ==
    IF word.opt = "" THEN [word EXCEPT !.arg = ToRelative(@)] ELSE word

\* ConvertAllPathToRelative, by OptionType.  Behind -I and -L any absolute path is made
\* relative, one of the project or not.
WordToRelative(word) ==
    CASE word.opt = ""                                -> [word EXCEPT !.arg = ToRelative(@)]
      [] word.opt \in {"-I", "-L"} /\ word.arg # None -> [word EXCEPT !.arg = MakePathRelative(@, Cwd)]
      [] OTHER                                        -> word

\* RemoteProcess::Start.
ConvertAllPathToRelative ==
    /\ spawn.stage = "created"
    /\ spawn' = [spawn EXCEPT !.stage = "relative",
                    !.arguments = [i \in DOMAIN @ |-> WordToRelative(@[i])],
                    !.inputs = {ToRelative(p) : p \in @}, !.outputs = {ToRelative(p) : p \in @}]

\* RemoteProcess::WorkThread: a worker runs the parsed command to have the headers.
\* CleanCommand starts from the command of the edge again, if that has a backslash.
GetHeaderFiles ==
    /\ spawn.stage = "relative"
    /\ LET result == ParseCommand(spawn.edge.compiler, spawn.arguments) IN
       spawn' = IF ~result.compiles THEN [spawn EXCEPT !.stage = "ready"]
                ELSE [spawn EXCEPT !.stage = "ready",
                         !.outputs = @ \cup result.deps_products,
                         !.inputs = @ \cup Headers(result.deps) \cup Sources(result.deps),
                         !.arguments = IF spawn.edge.backslash THEN spawn.edge.words ELSE @]

\* BuildMerkleTree: the path of a file in the tree of inputs, where ".." is a name like
\* any other; NestedDirectory::Add takes no notice of empty parts.
MerkleTree(paths) ==
    {SelectSeq(NormalizePath(p), LAMBDA s : s # "") :
        p \in {q \in paths : Absolute(NormalizePath(q)) => HasPathPrefix(NormalizePath(q), ProjectRoot)}}

\* CommonAncestorPath: as many directories of Cwd as the paths go up.
CommonAncestorPath(paths) ==
    LET levels == {ParentDirectoryLevel(p) : p \in paths} \cup {0}
    IN  LastNSegments(Cwd, CHOOSE n \in levels : \A m \in levels : m <= n)

BuildAction ==
    /\ spawn.stage = "ready"
    /\ spawn' = [stage |-> "action", edge |-> spawn.edge, arguments |-> spawn.arguments,
                 outputs |-> spawn.outputs, tree |-> MerkleTree(spawn.inputs),
                 work_dir |-> CommonAncestorPath(spawn.inputs \cup spawn.outputs)]

Next == CreateRemoteSpawn \/ ConvertAllPathToRelative \/ GetHeaderFiles \/ BuildAction

-----------------------------------------------------------------------------
(***************************************************************************)
(* Options as they are meant: [opt, form, arg], of a form "flag", "alone"  *)
(* (with the value behind it), "joined", "file", or "stage".               *)
(***************************************************************************)
RECURSIVE Words(_)
Words(options) ==
    FlattenSeq([i \in DOMAIN options |->
        LET o == options[i] IN
        CASE o.form = "flag"   -> <<Word(o.opt, None)>>
          [] o.form = "alone"  -> <<Word(o.opt, None), File(o.arg)>>
          [] o.form = "joined" -> <<Word(o.opt, o.arg)>>
          [] o.form = "file"   -> <<File(o.arg)>>
          [] o.form = "stage"  -> <<Word("-Wp,", Words(o.arg))>>])

Staged(options) == FlattenSeq([i \in DOMAIN options |-> IF options[i].form = "stage" THEN options[i].arg ELSE <<>>])
Given(options, opts) ==
    {o.arg : o \in {p \in ToSet(options) \cup ToSet(Staged(options)) : p.opt \in opts}}
KeptOf(options) ==
    SelectSeq(options, LAMBDA o : o.form # "stage" /\ o.opt \notin {"-o", "-MF", "-MT", "-MD", "-MMD", "-MP"})

\* The command that lists the headers has every option of the compile command that
\* finds a header or changes what is included, as it was spelled and in its order, and
\* none that makes it write a file or print something else; what the command writes
\* comes out as its products (the handlers of ParseRule, MatchCompilerOptions).
DepsCommandIsRight ==
    LET options == spawn.edge.options
        r == ParseCommand("gcc", Words(options))
        staged == Words(KeptOf(Staged(options)))
    IN  (spawn.stage = "edge" /\ ~r.unsupported) =>
            /\ r.deps = Words(KeptOf(options))
                        \o FlattenSeq([i \in DOMAIN staged |-> <<Word("-Xpreprocessor", None), staged[i]>>])
                        \o <<Word("-M", None)>>
            /\ r.products = Given(options, {"-o"})
            /\ r.deps_products = Given(options, {"-MF", "-MT"})

\* A canonical path of a file in the directory of the build.
Inside(path) ==
    /\ ~Contains(path, "..")
    /\ Absolute(path) => HasPathPrefix(path, Cwd) /\ ~HasPathPrefix(path, Append(Cwd, "") \o <<"">>)

\* A worker finds in the tree of the action, from the directory of the action, each
\* file that the command reads, sources, headers and other inputs, and hands back each
\* file that it writes: for compile commands whose files are all in the directory of
\* the build, absolute or not, unless a backslash brought absolute paths back
\* (ConvertAllPathToRelative, GetHeaderFiles, CleanCommand, BuildAction).
ActionIsComplete ==
    LET words   == spawn.arguments
        named   == Reads(spawn.edge.words) \cup Writes(spawn.edge.words) \cup ToSet(spawn.edge.ins \o spawn.edge.outs)
        dir     == Proper(spawn.work_dir)
        at(p)   == Locate(dir, p)
    IN  (spawn.stage = "action" /\ (\A p \in named : Inside(p))
          /\ (spawn.edge.backslash => \A p \in named : ~Absolute(p))
          /\ ParseCommand("gcc", spawn.edge.words).compiles) =>
            /\ \A p \in Reads(words) : ~Absolute(p) /\ at(p) \in spawn.tree
            /\ \A p \in ToSet(spawn.edge.ins) : Locate(Tail(Cwd), p) \in {Tail(Cwd) \o f : f \in spawn.tree}
            /\ \A p \in Writes(words) : ~Absolute(p) /\ at(p) \in {at(q) : q \in spawn.outputs}
===============================================================================
