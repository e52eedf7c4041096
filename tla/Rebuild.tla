------------------------------- MODULE Rebuild -------------------------------
(***************************************************************************)
(* What is rebuilt, from one build to the next: the times DependencyScan   *)
(* compares (graph.cc), and the entries Builder::FinishCommand (build.cc)  *)
(* leaves in the build log and the deps log, while the user edits files,   *)
(* commands fail, and ninja is interrupted or crashes.                     *)
(*                                                                         *)
(* An edge has one output and is named by it.  A file has a time and a     *)
(* content; a source's content is its version, an output's is what went    *)
(* into it.  No two writes have the same time.  A command reads its inputs *)
(* at one moment and writes its output at a later one.  What is flushed to *)
(* a log is there after a crash, and a crash ends the commands.            *)
(***************************************************************************)
EXTENDS Integers, FiniteSets

CONSTANTS
    Source, Out,  \* files nobody makes, and the outputs, that is the edges
    Ins,          \* explicit and implicit inputs
    OrderOnly,    \* order-only inputs
    Restat,       \* edges with restat = 1; their command leaves a right output alone
    Deps,         \* edges with deps = gcc and a depfile
    Included,     \* what each version of a source includes
    Ignored,      \* inputs of an edge that its output does not show
    RaceRestat,   \* the user also edits what a running restat command reads
    GoesBack,     \* the user also goes back to an earlier command line, and removes
                  \* outputs of edges that have no deps
    MaxEdits,     \* bound on the edits
    MaxStops      \* bound on failures, interrupts and crashes

Node == Source \cup Out

ASSUME RebuildAssumption ==
    /\ IsFiniteSet(Node) /\ Source \cap Out = {} /\ "none" \notin Out
    /\ Ins \in [Out -> SUBSET Node] /\ OrderOnly \in [Out -> SUBSET Node]
    /\ Ignored \in [Out -> SUBSET Node]
    /\ Restat \subseteq Out /\ Deps \subseteq Out /\ Restat \cap Deps = {}
    /\ Included \in [Source -> [0 .. MaxEdits -> SUBSET Node]]
    /\ MaxEdits \in Nat /\ MaxStops \in Nat
    /\ RaceRestat \in BOOLEAN /\ GoesBack \in BOOLEAN

VARIABLES
    clock,      \* the time of the last write
    version,    \* version of each source
    command,    \* version of each edge's command line, its command hash
    mtime,      \* on disk; 0 for a file that is missing
    content,    \* on disk
    buildLog,   \* BuildLog::entries_ and their lines; mtime 0 for none
    depsLog,    \* DepsLog::deps_ and their records; mtime 0 for none
    pc,         \* "idle", "building" or "recording": inside FinishCommand
    seen,       \* Node::mtime_, from the scan
    known,      \* discovered inputs the scan has added to an edge
    missing,    \* edges with deps_missing_
    dirty,      \* outputs with dirty_ set
    want,       \* edges the plan still wants
    phase,      \* how far each command is
    start,      \* Edge::command_start_time_
    got,        \* what a command has read: the files, and what it makes of them
    recording,  \* the edge FinishCommand is recording
    edits, stops,
    quiet,      \* history: nothing was edited since the scan
    result      \* history: how the last build ended

disk   == <<clock, version, command, mtime, content>>
logs   == <<buildLog, depsLog>>
scan   == <<seen, known, missing>>
build  == <<pc, dirty, want, phase, start, got, recording, result>>
bounds == <<edits, stops, quiet>>
vars   == <<disk, logs, scan, build, bounds>>

-----------------------------------------------------------------------------
(***************************************************************************)
(* Commands.                                                               *)
(***************************************************************************)
\* What the command of o reads: also the files its sources now include.
Reads(o) ==
    Ins[o] \cup (IF o \in Deps
                 THEN UNION {Included[s][version[s]] : s \in Ins[o] \cap Source}
                 ELSE {})

\* What it makes of files with contents c.
Product(o, c) == {<<o, command[o]>>} \cup UNION {c[i] : i \in Reads(o) \ Ignored[o]}

\* A half-written output.
Garbage(o) == {<<o, -1>>}

Running == {o \in Out : phase[o] \in {"started", "read", "written"}}

-----------------------------------------------------------------------------
(***************************************************************************)
(* DependencyScan, on the files with times m.                              *)
(***************************************************************************)
\* ImplicitDepLoader::LoadDepsFromLog: the recorded inputs, unless there are none
\* or the output is newer than the record.
DepsLost(m) == {o \in Deps : depsLog[o].mtime = 0 \/ m[o] > depsLog[o].mtime}
DepsKnown(m) == [o \in Out |-> IF o \in Deps \ DepsLost(m) THEN depsLog[o].nodes ELSE {}]

\* DependencyScan::RecomputeOutputDirty for an edge with clean `inputs`; a restat
\* edge that has an entry is judged by the time in it, not by its output's.
OutputDirty(o, m, inputs) ==
    LET entry        == buildLog[o]
        OlderThan(t) == \E i \in inputs : t < m[i]
    IN  \/ m[o] = 0
        \/ OlderThan(m[o]) /\ ~(o \in Restat /\ entry.mtime # 0)
        \/ entry.mtime = 0
        \/ entry.hash # command[o]
        \/ OlderThan(entry.mtime)

\* The least subset of D that is closed under F, which is monotonic: where the code
\* recurses over the graph.
Least(D, F(_)) == D \ UNION {D \ S : S \in {C \in SUBSET D : F(C) \cap D \subseteq C}}

\* RecomputeNodeDirty: the dirty outputs.
ScanDirty(m) ==
    LET inputs(o) == Ins[o] \cup DepsKnown(m)[o]
    IN  Least(Out, LAMBDA S : {o \in Out : \/ o \in DepsLost(m)
                                          \/ inputs(o) \cap S # {}
                                          \/ OutputDirty(o, m, inputs(o))})

\* The inputs of o in the graph, near or far.
Below(o) ==
    LET in(p) == Ins[p] \cup OrderOnly[p] \cup known[p]
    IN  Least(Node, LAMBDA S : in(o) \cup UNION {in(p) : p \in S \cap Out})

\* A mutant: an edge whose inputs are all clean is clean.
CleanedUnasked(o) ==
    LET in(p) == Ins[p] \cup known[p]
    IN  Least(want \ missing, LAMBDA C :
          {p \in Out : /\ (in(p) \cup OrderOnly[p]) \cap (C \cup {o}) # {}
                      /\ in(p) \cap (dirty \ (C \cup {o})) = {}})

\* Plan::CleanNode on the output of o: the wanted edges that need not run.
Cleaned(o) ==
    LET in(p) == Ins[p] \cup known[p]
    IN  Least(want \ missing, LAMBDA C :
          {p \in Out : /\ (in(p) \cup OrderOnly[p]) \cap (C \cup {o}) # {}
                      /\ in(p) \cap (dirty \ (C \cup {o})) = {}
                      /\ ~OutputDirty(p, seen, in(p))})

-----------------------------------------------------------------------------
Init ==
    /\ clock = 1
    /\ version = [s \in Source |-> 0] /\ command = [o \in Out |-> 0]
    /\ mtime = [n \in Node |-> IF n \in Source THEN 1 ELSE 0]
    /\ content = [n \in Node |-> IF n \in Source THEN {<<n, 0>>} ELSE {}]
    /\ buildLog = [o \in Out |-> [mtime |-> 0, hash |-> -1]]
    /\ depsLog = [o \in Out |-> [mtime |-> 0, nodes |-> {}]]
    /\ pc = "idle" /\ seen = mtime
    /\ known = [o \in Out |-> {}] /\ missing = {}
    /\ dirty = {} /\ want = {}
    /\ phase = [o \in Out |-> "none"] /\ start = [o \in Out |-> 0]
    /\ got = [o \in Out |-> [nodes |-> {}, content |-> {}]]
    /\ recording = "none"
    /\ edits = 0 /\ stops = 0 /\ quiet = TRUE /\ result = "none"

(***************************************************************************)
(* The user.                                                               *)
(***************************************************************************)
EditSource(s) ==
    /\ edits < MaxEdits
    /\ RaceRestat \/ \A o \in Running \cap Restat : s \notin Reads(o)
    /\ edits' = edits + 1 /\ quiet' = FALSE
    /\ clock' = clock + 1
    /\ version' = [version EXCEPT ![s] = @ + 1]
    /\ mtime' = [mtime EXCEPT ![s] = clock']
    /\ content' = [content EXCEPT ![s] = {<<s, version'[s]>>}]
    /\ UNCHANGED <<command, logs, scan, build, stops>>

\* The manifest is read when a build starts.
EditCommand(o) ==
    /\ edits < MaxEdits /\ pc = "idle"
    /\ edits' = edits + 1 /\ quiet' = FALSE
    /\ \E v \in IF GoesBack THEN 0 .. MaxEdits ELSE {command[o] + 1} :
         command' = [command EXCEPT ![o] = v]
    /\ UNCHANGED <<clock, version, mtime, content, logs, scan, build, stops>>

RemoveOutput(o) ==
    /\ edits < MaxEdits /\ pc = "idle" /\ mtime[o] # 0
    /\ GoesBack \/ o \in Deps
    /\ edits' = edits + 1 /\ quiet' = FALSE
    /\ mtime' = [mtime EXCEPT ![o] = 0] /\ content' = [content EXCEPT ![o] = {}]
    /\ UNCHANGED <<clock, version, command, logs, scan, build, stops>>

-----------------------------------------------------------------------------
(***************************************************************************)
(* A build.                                                                *)
(***************************************************************************)
\* The logs are loaded, and Builder::AddTarget scans the files.
StartBuild ==
    /\ pc = "idle"
    /\ seen' = mtime
    /\ known' = DepsKnown(mtime) /\ missing' = DepsLost(mtime)
    /\ dirty' = ScanDirty(mtime) /\ want' = dirty'
    /\ want' # {}
    /\ pc' = "building" /\ quiet' = TRUE /\ result' = "none"
    /\ UNCHANGED <<disk, logs, phase, start, got, recording, edits, stops>>

\* Builder::StartEdge touches the lock file to learn the time.
StartCommand(o) ==
    /\ pc = "building"
    /\ o \in want /\ phase[o] = "none" /\ Below(o) \cap want = {}
    /\ clock' = clock + 1
    /\ start' = [start EXCEPT ![o] = clock']
    /\ phase' = [phase EXCEPT ![o] = "started"]
    /\ UNCHANGED <<version, command, mtime, content, logs, scan, pc, dirty, want,
                   got, recording, result, bounds>>

CommandReads(o) ==
    /\ phase[o] = "started"
    /\ phase' = [phase EXCEPT ![o] = "read"]
    /\ got' = [got EXCEPT ![o] = [nodes |-> Reads(o), content |-> Product(o, content)]]
    /\ UNCHANGED <<disk, logs, scan, pc, dirty, want, start, recording, result, bounds>>

\* A restat command writes only if the output would change.
CommandWrites(o) ==
    /\ phase[o] = "read"
    /\ phase' = [phase EXCEPT ![o] = "written"]
    /\ IF o \in Restat /\ content[o] = got[o].content
       THEN UNCHANGED <<clock, mtime, content>>
       ELSE /\ clock' = clock + 1
            /\ mtime' = [mtime EXCEPT ![o] = clock']
            /\ content' = [content EXCEPT ![o] = got[o].content]
    /\ UNCHANGED <<version, command, logs, scan, pc, dirty, want, start, got,
                   recording, result, bounds>>

(***************************************************************************)
(* Builder::FinishCommand of a command that succeeded: the plan, the entry *)
(* in the build log, and then the entry in the deps log.                   *)
(***************************************************************************)
\* A mutant: the entry holds the time of the output.
RecordsOutput(o) == mtime[o]

\* What is recorded as the time of the output.
RecordMtime(o) ==
    IF o \in Restat /\ mtime[o] # seen[o] /\ mtime[o] > start[o] THEN mtime[o] ELSE start[o]

FinishCommand(o) ==
    /\ pc = "building" /\ phase[o] = "written"
    /\ LET cleaned == IF o \in Restat /\ mtime[o] = seen[o] THEN {o} \cup Cleaned(o) ELSE {}
       IN  want' = want \ ({o} \cup cleaned) /\ dirty' = dirty \ cleaned
    /\ buildLog' = [buildLog EXCEPT ![o] = [mtime |-> RecordMtime(o), hash |-> command[o]]]
    /\ phase' = [phase EXCEPT ![o] = "none"]
    /\ IF o \in Deps THEN pc' = "recording" /\ recording' = o
                     ELSE UNCHANGED <<pc, recording>>
    /\ UNCHANGED <<disk, depsLog, scan, start, got, result, bounds>>

RecordDeps ==
    /\ pc = "recording" /\ pc' = "building"
    /\ depsLog' = [depsLog EXCEPT ![recording] =
                     [mtime |-> mtime[recording], nodes |-> got[recording].nodes]]
    /\ recording' = "none"
    /\ UNCHANGED <<disk, buildLog, scan, dirty, want, phase, start, got, result, bounds>>

\* The files T get half-written, and the files R are removed.
Spoil(T, R) ==
    /\ clock' = clock + 1
    /\ mtime' = [n \in Node |-> IF n \in R THEN 0 ELSE IF n \in T THEN clock' ELSE mtime[n]]
    /\ content' = [n \in Node |-> IF n \in R THEN {} ELSE IF n \in T THEN Garbage(n) ELSE content[n]]
    /\ UNCHANGED <<version, command>>

\* A command fails, before or after it has written something.
CommandFails(o) ==
    /\ pc = "building" /\ phase[o] \in {"started", "read"}
    /\ stops < MaxStops /\ stops' = stops + 1
    /\ \E T \in SUBSET {o} : Spoil(T, {})
    /\ phase' = [phase EXCEPT ![o] = "failed"]
    /\ UNCHANGED <<logs, scan, pc, dirty, want, start, got, recording, edits, quiet, result>>

\* The process is gone, and its memory.
Gone(how) ==
    /\ pc' = "idle" /\ result' = how
    /\ phase' = [o \in Out |-> "none"]
    /\ want' = {} /\ dirty' = {} /\ recording' = "none"
    /\ start' = [o \in Out |-> 0] /\ got' = [o \in Out |-> [nodes |-> {}, content |-> {}]]
    /\ seen' = [n \in Node |-> 0] /\ known' = [o \in Out |-> {}] /\ missing' = {}

\* Nothing runs, and everything is built or a command has failed.
EndBuild ==
    /\ pc = "building" /\ Running = {}
    /\ \/ want = {} /\ Gone("ok")
       \/ (\E o \in Out : phase[o] = "failed") /\ Gone("failed")
    /\ UNCHANGED <<disk, logs, bounds>>

\* The user interrupts: the commands end where they are, and Builder::Cleanup
\* removes what they changed, and always the output of an edge with a depfile.  A
\* command that the runner sees end by the signal is no longer active and spared.
Interrupt ==
    /\ pc = "building"
    /\ stops < MaxStops /\ stops' = stops + 1
    /\ LET changed == {o \in Running : phase[o] = "written" /\ mtime[o] # seen[o]}
       IN  \E T \in SUBSET {o \in Running : phase[o] # "written"},
             spared \in SUBSET Running :
               /\ Cardinality(spared) <= 1
               /\ Spoil(T, (T \cup changed \cup (Running \cap Deps)) \ spared)
    /\ Gone("interrupted")
    /\ UNCHANGED <<logs, edits, quiet>>

\* ninja dies with its commands, and nobody cleans up.
Crash ==
    /\ pc # "idle"
    /\ stops < MaxStops /\ stops' = stops + 1
    /\ \E T \in SUBSET {o \in Running : phase[o] # "written"} : Spoil(T, {})
    /\ Gone("crashed")
    /\ UNCHANGED <<logs, edits, quiet>>

Next ==
    \/ StartBuild \/ RecordDeps \/ EndBuild \/ Interrupt \/ Crash
    \/ \E s \in Source : EditSource(s)
    \/ \E o \in Out :
         \/ EditCommand(o) \/ RemoveOutput(o)
         \/ StartCommand(o) \/ CommandReads(o) \/ CommandWrites(o)
         \/ FinishCommand(o) \/ CommandFails(o)

Spec == Init /\ [][Next]_vars

-----------------------------------------------------------------------------
(***************************************************************************)
(* Properties.                                                             *)
(***************************************************************************)
TypeOK ==
    /\ clock \in Nat
    /\ version \in [Source -> 0 .. MaxEdits] /\ command \in [Out -> 0 .. MaxEdits]
    /\ mtime \in [Node -> 0 .. clock] /\ seen \in [Node -> 0 .. clock]
    /\ \A o \in Out : buildLog[o].mtime <= clock /\ depsLog[o].mtime <= clock
    /\ known \in [Out -> SUBSET Node] /\ missing \subseteq Deps
    /\ pc \in {"idle", "building", "recording"}
    /\ dirty \subseteq Out /\ want \subseteq Out
    /\ phase \in [Out -> {"none", "started", "read", "written", "failed"}]
    /\ recording \in Out \cup {"none"} /\ (pc = "recording" <=> recording # "none")

\* An output that the next scan would leave alone is what its command would make
\* of the files as they are: no edit, failure, interrupt or crash, at whatever
\* moment, leaves an output that is taken to be right and is not
\* (DependencyScan::RecomputeOutputDirty, Builder::FinishCommand).
NoStaleClean ==
    pc = "idle" => \A o \in Out \ ScanDirty(mtime) : content[o] = Product(o, content)

\* A build that returns success leaves every output as its command would make it of
\* the files now there, if none was edited in the meantime: nothing that CleanNode
\* withdrew was needed (Builder::FinishCommand, Plan::CleanNode).
SuccessIsCurrent ==
    result = "ok" /\ quiet => \A o \in Out : content[o] = Product(o, content)

\* After such a build another one has nothing to do: what is recorded satisfies
\* the scan, restat edges and discovered inputs included
\* (Builder::FinishCommand, RecomputeOutputDirty, LoadDepsFromLog).
Converges ==
    result = "ok" /\ quiet => ScanDirty(mtime) = {}

\* One build is enough, and it is right.
BuildSettles == SuccessIsCurrent /\ Converges
=============================================================================
