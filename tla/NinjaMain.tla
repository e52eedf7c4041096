------------------------------ MODULE NinjaMain ------------------------------
(***************************************************************************)
(* A run of ninja, from main to exit (ninja.cc), and one after the other   *)
(* over a workspace: the manifest is loaded, and rebuilt if it is an       *)
(* output itself and out of date, the logs are opened, and the targets are *)
(* built, or a subtool runs.  Between two runs the user changes what the   *)
(* manifest is generated from, touches it, or writes a file.               *)
(*                                                                         *)
(* A manifest is a version.  A build of it is one step here, that leaves   *)
(* some more outputs behind, and how it ends: Builder models its steps.    *)
(***************************************************************************)
EXTENDS Integers, FiniteSets

CONSTANTS
    Version,     \* of the manifest
    Path,        \* files but the manifest
    Makes,       \* outputs of each version
    Reads,       \* what each version names as an input and does not make
    Generated,   \* versions with an edge that makes build.ninja
    CycleLimit,  \* kCycleLimit, which is 100
    MaxRuns      \* bound on the runs

ASSUME MainAssumption ==
    /\ Makes \in [Version -> SUBSET Path] /\ Reads \in [Version -> SUBSET Path]
    /\ \A v \in Version : Makes[v] \cap Reads[v] = {}
    /\ Generated \subseteq Version
    /\ CycleLimit \in Nat \ {0} /\ MaxRuns \in Nat

VARIABLES
    \* the workspace
    wanted,    \* the version that the generator writes
    touched,   \* its input is newer than the manifest, and the same
    skewed,    \* what is written gets an old time: it stays out of date
    manifest,  \* build.ninja; None if it is missing
    made,      \* files on disk that commands made and nobody wrote since
    written,   \* files on disk that the user wrote
    log,       \* outputs with an entry in the build log
    full,      \* the log has so many dead lines that it is recompacted
    env,       \* the proxy has the share environment of this workspace
    \* the process
    pc,        \* "off", or what main does next
    opts,      \* flags: the tool, -n, -s, and -g of the clean tool
    parsed,    \* the manifest in state_
    cycle,     \* how many times the manifest was loaded
    code,      \* exit code
    lost,      \* history: a run could not clear the environment, or died
    runs

workspace == <<wanted, touched, skewed, manifest, made, written, log, full, env>>
process   == <<pc, opts, parsed, cycle, code, lost, runs>>
vars      == <<workspace, process>>

None == "none"

\* When each tool runs: Tool::when.
AfterFlags == {"restat", "urtle"}
AfterLoad  == {"clean", "recompact", "commands"}
AfterLogs  == {"cleandead", "deps"}
Tools      == AfterFlags \cup AfterLoad \cup AfterLogs

Init ==
    /\ wanted \in Version /\ manifest = wanted
    /\ touched = FALSE /\ skewed \in BOOLEAN
    /\ made = {} /\ written = {} /\ log = {} /\ full = FALSE /\ env = FALSE
    /\ pc = "off" /\ opts = [tool |-> None, dry |-> FALSE, share |-> FALSE, g |-> FALSE]
    /\ parsed = None /\ cycle = 0 /\ code = 0 /\ lost = FALSE /\ runs = 0

-----------------------------------------------------------------------------
(***************************************************************************)
(* The user, while ninja does not run.                                     *)
(***************************************************************************)
EditGenerator(v) ==
    /\ pc = "off" /\ runs < MaxRuns /\ v # wanted
    /\ wanted' = v
    /\ manifest' = IF manifest \in Generated THEN manifest ELSE v
    /\ UNCHANGED <<touched, skewed, made, written, log, full, env, process>>

Touch ==
    /\ pc = "off" /\ runs < MaxRuns /\ ~touched
    /\ touched' = TRUE
    /\ UNCHANGED <<wanted, skewed, manifest, made, written, log, full, env, process>>

WriteFile(p) ==
    /\ pc = "off" /\ runs < MaxRuns /\ p \notin written
    /\ written' = written \cup {p} /\ made' = made \ {p}
    /\ UNCHANGED <<wanted, touched, skewed, manifest, log, full, env, process>>

-----------------------------------------------------------------------------
ExitWith(c) == pc' = "off" /\ code' = c

\* What does not change when main goes on to the next step, or exits.
GoTo(step) == pc' = step /\ UNCHANGED code
Kept == UNCHANGED <<opts, parsed, cycle, lost, runs>>

\* ReadFlags, and real_main up to the first use of the tool: a flag that is wrong, -C
\* or the current directory end it.
Invoke(o) ==
    /\ pc = "off" /\ runs < MaxRuns
    /\ runs' = runs + 1 /\ UNCHANGED lost
    /\ opts' = o /\ cycle' = 0 /\ parsed' = None
    /\ \/ ExitWith(1)
       \/ o.tool = None /\ ExitWith(0)  \* --version, and the lists of -d, -t and -w
       \/ GoTo(IF o.tool \in AfterFlags THEN "tool" ELSE "load")
    /\ UNCHANGED workspace

\* A mutant: each NinjaMain counts anew.
CountAnew == cycle

\* The for loop of real_main.
CountCycle == cycle + 1

\* ManifestParser::Load into the State of a new NinjaMain.
Load ==
    /\ pc = "load" /\ cycle < CycleLimit
    /\ cycle' = CountCycle
    /\ \/ ExitWith(1) /\ UNCHANGED parsed
       \/ /\ manifest # None
          /\ parsed' = manifest
          /\ GoTo(IF opts.tool \in AfterLoad THEN "tool" ELSE "logs")
    /\ UNCHANGED <<workspace, opts, lost, runs>>

\* The manifest is still dirty after CycleLimit tries.
GiveUp ==
    /\ pc = "load" /\ cycle = CycleLimit
    /\ ExitWith(1) /\ Kept /\ UNCHANGED workspace

\* IsPathDead, of BuildLogUser: nothing makes p, and it is not on disk.
IsPathDead(p, v) == (v = None \/ p \notin Makes[v]) /\ p \notin made \cup written

\* BuildLog::OpenForWrite with a log that needs recompaction, and Recompact.
Recompacted(v) == {p \in log : ~IsPathDead(p, v)}

\* EnsureBuildDirExists, OpenBuildLog and OpenDepsLog: not for writing with -n.
OpenLogs ==
    /\ pc = "logs"
    /\ \/ ExitWith(1) /\ UNCHANGED <<log, full>>
       \/ /\ GoTo(IF opts.tool \in AfterLogs THEN "tool" ELSE "regenerate")
          /\ IF full /\ ~opts.dry
             THEN log' = Recompacted(parsed) /\ full' = FALSE
             ELSE UNCHANGED <<log, full>>
    /\ Kept /\ UNCHANGED <<wanted, touched, skewed, manifest, made, written, env>>

-----------------------------------------------------------------------------
(***************************************************************************)
(* RebuildManifest.                                                        *)
(***************************************************************************)
OutOfDate == manifest # wanted \/ touched \/ skewed

\* The node of build.ninja is not in the graph, or up to date.
KeepManifest ==
    /\ pc = "regenerate"
    /\ parsed \notin Generated \/ ~OutOfDate
    /\ GoTo("prepare") /\ Kept /\ UNCHANGED workspace

\* AddTarget or Build fail; the generator may have written the manifest.
RegenerateFails ==
    /\ pc = "regenerate" /\ parsed \in Generated
    /\ manifest' \in IF OutOfDate /\ ~opts.dry THEN {manifest, wanted} ELSE {manifest}
    /\ ExitWith(1)
    /\ Kept /\ UNCHANGED <<wanted, touched, skewed, made, written, log, full, env>>

\* The command ran, left the manifest alone, and its node was cleaned (restat).  What
\* State::Reset leaves of that in the graph is in Scan.
ManifestCleaned ==
    /\ pc = "regenerate" /\ parsed \in Generated
    /\ touched /\ manifest = wanted /\ ~skewed /\ ~opts.dry
    /\ touched' = FALSE
    /\ GoTo("prepare")
    /\ Kept /\ UNCHANGED <<wanted, skewed, manifest, made, written, log, full, env>>

\* The manifest was written, and main starts over with it; with -n nothing was, and nothing ever will be.
ManifestRebuilt ==
    /\ pc = "regenerate" /\ parsed \in Generated /\ OutOfDate
    /\ IF opts.dry
       THEN ExitWith(0) /\ UNCHANGED <<manifest, touched>>
       ELSE manifest' = wanted /\ touched' = FALSE /\ GoTo("load")
    /\ Kept /\ UNCHANGED <<wanted, skewed, made, written, log, full, env>>

-----------------------------------------------------------------------------
(***************************************************************************)
(* The build.                                                              *)
(***************************************************************************)
\* ParsePreviousElapsedTimes, and InitShareBuildEnv with -s.
Prepare ==
    /\ pc = "prepare"
    /\ IF ~opts.share THEN GoTo("build") /\ UNCHANGED env
       ELSE \/ ExitWith(1) /\ UNCHANGED env
            \/ GoTo("build") /\ env' = TRUE
    /\ Kept /\ UNCHANGED <<wanted, touched, skewed, manifest, made, written, log, full>>

\* A mutant: an interrupted build exits at once.
NextAfterInterrupt(result) == IF opts.share /\ result # 2 THEN "clear" ELSE "exit"

NextAfter(result) == IF opts.share THEN "clear" ELSE "exit"

\* The result of RunBuild is what ninja exits with, unless the environment stays.
BuildEnds(result) ==
    IF NextAfter(result) = "exit" THEN ExitWith(result) ELSE pc' = "clear" /\ code' = result

\* RunBuild: 0 when all is up to date, or has been made; 1 when a target is wrong, the
\* scan finds an error or a command fails; 2 when it was interrupted.  What commands
\* made is in the log, and full sooner or later.
RunBuild ==
    /\ pc = "build"
    /\ \E S \in SUBSET (Makes[parsed] \ written), result \in 0 .. 2 :
         /\ result = 0 /\ ~opts.dry => Makes[parsed] \subseteq made \cup written \cup S
         /\ opts.dry => S = {}
         /\ made' = made \cup S /\ log' = log \cup S
         /\ full' \in IF S = {} THEN {full} ELSE {full, TRUE}
         /\ BuildEnds(result)
    /\ Kept /\ UNCHANGED <<wanted, touched, skewed, manifest, written, env>>

\* Fatal in the middle of a build: a pipe or a process that cannot be made.
Dies ==
    /\ pc = "build"
    /\ lost' = TRUE /\ ExitWith(1)
    /\ UNCHANGED <<opts, parsed, cycle, runs, workspace>>

\* ClearShareBuildEnv.
ClearEnv ==
    /\ pc = "clear"
    /\ \/ env' = FALSE /\ ExitWith(code) /\ lost' = FALSE
       \/ UNCHANGED env /\ ExitWith(1) /\ lost' = TRUE
    /\ UNCHANGED <<opts, parsed, cycle, runs, wanted, touched, skewed, manifest, made,
                   written, log, full>>

-----------------------------------------------------------------------------
(***************************************************************************)
(* The tools that change the workspace; GraphTools has the ones that only  *)
(* read the graph, and what exactly clean removes.                         *)
(***************************************************************************)
RunTool(tool) == pc = "tool" /\ opts.tool = tool /\ (ExitWith(0) \/ ExitWith(1)) /\ Kept

\* Cleaner::Remove on a set of files.
Remove(S) ==
    IF opts.dry THEN UNCHANGED <<made, written>>
    ELSE made' = made \ S /\ written' = written \ S

\* ToolClean without arguments.
ToolClean ==
    /\ RunTool("clean")
    /\ Remove(Makes[parsed])
    /\ manifest' = IF opts.g /\ ~opts.dry /\ parsed \in Generated THEN None ELSE manifest
    /\ UNCHANGED <<wanted, touched, skewed, log, full, env>>

\* A mutant: what no edge makes is dead.
DeadUnlessMade(p) == p \notin Makes[parsed]

\* CleanDead: an entry whose path the manifest does not name at all.
Dead(p) == p \notin Makes[parsed] \cup Reads[parsed]

ToolCleanDead ==
    /\ RunTool("cleandead")
    /\ Remove({p \in log : Dead(p)})
    /\ UNCHANGED <<wanted, touched, skewed, manifest, log, full, env>>

\* ToolRecompact, in a state with the manifest, and ToolRestat, in an empty one: it
\* opens the log for writing when it has rewritten it.
ToolRecompact ==
    /\ RunTool("recompact")
    /\ log' \in {log, Recompacted(parsed)} /\ full' \in {full, FALSE}
    /\ UNCHANGED <<wanted, touched, skewed, manifest, made, written, env>>

ToolRestat ==
    /\ RunTool("restat")
    /\ IF full /\ ~opts.dry THEN log' \in {log, Recompacted(None)} /\ full' \in {full, FALSE}
       ELSE UNCHANGED <<log, full>>
    /\ UNCHANGED <<wanted, touched, skewed, manifest, made, written, env>>

ToolThatReads ==
    /\ \E tool \in Tools \ {"clean", "cleandead", "recompact", "restat"} : RunTool(tool)
    /\ UNCHANGED workspace

-----------------------------------------------------------------------------
Flags == [tool : Tools \cup {None}, dry : BOOLEAN, share : BOOLEAN, g : BOOLEAN]
UsefulFlags == {o \in Flags : (o.share => o.tool = None) /\ (o.g => o.tool = "clean")}

Main ==
    \/ Load \/ GiveUp \/ OpenLogs
    \/ KeepManifest \/ RegenerateFails \/ ManifestCleaned \/ ManifestRebuilt
    \/ Prepare \/ RunBuild \/ Dies \/ ClearEnv
    \/ ToolClean \/ ToolCleanDead \/ ToolRecompact \/ ToolRestat \/ ToolThatReads

User == \/ \E v \in Version : EditGenerator(v)
        \/ Touch
        \/ \E p \in Path : WriteFile(p)
        \/ \E o \in UsefulFlags : Invoke(o)

Next == Main \/ User

Spec == Init /\ [][Next]_vars /\ WF_vars(Main)

-----------------------------------------------------------------------------
\* No subtool and no build removes a file that the manifest reads and does not make,
\* even if a command made it once.
SourcesStay ==
    [][\A p \in written \ written' : p \in Makes[parsed] \/ p \notin Reads[parsed]]_vars

\* When ninja exits the proxy keeps no environment of this workspace, unless clearing
\* it failed, or ninja died.
EnvironmentCleared == pc = "off" /\ env => lost

\* Every run ends, even if the manifest stays out of date forever.
RunsEnd == pc # "off" ~> pc = "off"
==============================================================================
