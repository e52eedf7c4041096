# A model of ninja2

ninja2 is a ninja: it reads a manifest of build statements (edges) and files
(nodes), works out what is out of date, and runs commands in dependency order.
To the original it adds a runner that sends commands to a remote execution
service (`--cloud_run`) and one that shares them with other machines
(`--share_run`).

This directory models the program from the manifest to the exit code: parsing and
the graph, the scan, the plan and the build loop, the three runners with their
threads, processes, signals and remote services, the two logs, and what is left
over from one build, and one run of ninja, to the next. TLC checks the modules on
small instances; TLAPS proves the results that matter most for all of them.
Paths below are relative to `src/` inside the repository.

## The system

| part | code | state | operations |
|---|---|---|---|
| manifest and graph | `manifest_parser.cc`, `eval_env.cc`, `state.cc`, `graph.h` | nodes, edges, pools, scopes | built once, then read |
| scan | `graph.cc` `DependencyScan`, `ImplicitDepLoader`, `dyndep.cc` | `dirty_`, `outputs_ready_`, `deps_missing_`, visit marks | `RecomputeDirty`, `LoadDyndeps` |
| plan | `build.cc` `Plan`, `state.cc` `Pool` | `want_`, `wanted_edges_`, `command_edges_`, `ready_`, pool use and delayed edges | `AddTarget`, `PrepareQueue`, `FindWork`, `EdgeFinished`, `CleanNode`, `DyndepsLoaded` |
| build loop | `build.cc` `Builder` | `pending_commands`, `failures_allowed`, outputs on disk | `Build`, `StartEdge`, `FinishCommand`, `Cleanup` |
| runners | `build.cc` | `running_`, `finished_`, `subproc_to_edge_` | `CanRunMore`, `StartCommand`, `WaitForCommand`, `GetActiveEdges`, `Abort` |
| local commands | `subprocess-posix.cc` | processes, pipes, the interrupt flag, the signal mask | `Add`, `DoWork`, `OnPipeReady`, `Finish`, `Clear` |
| remote threads | `remote_process.cc`, `thread_pool.cc` `RBThreadPoolImpl`, `execution_context.cc` | task queue, workers, one pipe per command, `interrupted_` | `AddTask`, `WorkerThreadLoop`, `Execute`, `DoWork` |
| remote services' clients | `cas_client.cc`, `remote_execution_client.cc`, `grpc_client.cc` | blobs, the action cache, operations, local outputs | `FetchActionResult`, `UploadResources`, `ExecuteAction`, `DownloadOutputs` |
| remote decision | `remote_spawn.cc`, `compile_command_parser.cc`, `static_file_utils.cc`, `depfile_parser` | - | from an edge to an action and the tree of its inputs |
| share threads | `share_thread.cc`, `share_worker.h`, `proxy_service_client.cc` | calls under way, their results | `Add`, `AsyncExecute`, `NextFinished`, `Clear` |
| logs | `build_log.cc`, `deps_log.cc` | entries in memory and on disk | `Load`, `RecordCommand`, `RecordDeps`, `Recompact`, `Restat` |
| command line and tools | `ninja.cc`, `clean.cc`, `missing_deps.cc`, `graphviz.cc` | the loaded state, the share environment | `real_main`, `RebuildManifest`, `RunBuild`, `-t` tools |

The build loop is one thread. It asks the plan for an edge (`FindWork`), hands it
to the runner, and reports what became of it (`EdgeFinished`), whereupon the plan
visits the consumers and schedules those whose inputs are now ready; a pool may
hold some of them back. Commands run beside the loop and are seen by it only in
`WaitForCommand`. A local command is a process whose pipe the loop sleeps on in
`ppoll`. A remote command is a task of a pool of worker threads, which close a pipe
when they are done. A shared command is an asynchronous call whose flag the loop
polls. `ninja.cc` loads the manifest, rebuilds it if it is out of date and starts
over, and then builds the targets.

What is hard, and what each part has to keep:

* the order of completions is arbitrary, and each completion runs a recursion
  through the graph that schedules, cleans and finishes other edges, with counters
  that stop the build when they reach zero: every edge once, after its inputs, none
  forgotten, and the truth at the end;
* the same edge is reached through several inputs, through a pool, and through a
  dyndep file, and must be scheduled once;
* failures, interrupts and errors of the logs come between any two steps, with
  commands running: half-written outputs must not pass for clean ones;
* the pool of threads, the pipe, `ppoll`, the signal handler and one static flag
  shared by all threads; completion queues against a polling loop: no lost wakeup,
  no lost answer, no use of what was deleted, and the right exit code;
* calls that fail, are repeated or return damaged data while the user edits the
  inputs: exit code 0 has to mean the right outputs;
* crashes between the writing of an output and of its log entries, or in the middle
  of a record: what is loaded must have been recorded;
* edits and commands that overlap: an output that is left alone must be right;
* recursions over graphs with cycles, validations and discovered inputs: each node
  once, cycles refused and nothing else.

PROJECT.json lists the hazards at their lines with the properties that cover them.
Those without one are named under *What the code does not keep* and *Not modelled*.

## Modules

The build:

* `Plan` - the plan for an arbitrary acyclic graph, its caller free: it asks for
  work and reports success or failure of what it holds in any order. `want`,
  `wanted`, `command`, `ready`, `delayed`, `use` are the fields of `Plan` and
  `Pool`; `dirty` and `oready` the flags of nodes and edges. The recursions of the
  code (`EdgeFinished` -> `NodeFinished` -> `EdgeMaybeReady` -> `EdgeFinished`;
  `CleanNode`; `AddSubTarget`; `RecomputeNodeDirty`) are written as the least set
  closed under their step: each visits an edge again whenever one more neighbour was
  visited and acts once all have, so the set does not depend on the order. Where the
  order does show, in which of several newly ready edges a pool admits at once, it is
  left open (`Admitted`), because the code takes it from addresses. The scan's
  verdict - which edges are out of date, which have lost their dependency
  information - is any in `Init`.
* `Builder` - `Builder::Build` over `Plan`, one action per branch: the two loops,
  `StartEdge` with its failure, phony edges, `WaitForCommand` with commands that have
  exited in any number, a command that a signal ended, the user's interrupt,
  `FinishCommand` with success, failure and an error of a log, `Cleanup`. `disk`
  abstracts an edge's outputs to what `Cleanup` tells apart. `Runner` picks
  `CanRunMore` of the local (and cloud) or of the share runner.
* `DyndepPlan` - `Plan` with the graph as a variable: `NodeFinished` finds a dyndep
  file complete, `LoadDyndeps` changes the graph, `DyndepsLoaded` scans the
  dependents again (`Dependents`, `Rescanned`), enters new edges and schedules what
  became ready (`TakenUp`). The three actions are parts of one call; nothing else is
  enabled between them. A dyndep file that is complete does not announce itself to its
  consumers: `NodeFinished` returns after loading it, which is what `HeldBack` in
  `Plan` says. Files are one level deep (`LevelAssumption`): a file that is made by an
  edge which needs another file could become ready, and be loaded, in the middle of the
  second scan.
* `Rebuild` - a sequence of builds: what the scan concludes from the times of the
  files, the build log and the deps log (`RecomputeOutputDirty`, `LoadDepsFromLog`),
  and what `FinishCommand` writes to the logs, between edits of sources and of
  command lines, removed outputs, commands that fail half-way, interrupts and
  crashes. A command reads at one moment and writes at a later one, and what it
  writes is the set of the sources and command lines that went into it, so a property
  can say what an output should hold. The plan is reduced to the wanted edges and
  their order. `clock` is the file system's time, advanced by each write.

The runners:

* `Subprocs` - `SubprocessSet` and `Subprocess` in ninja's one thread, the commands'
  processes and groups, their pipes in chunks of a `read`, and the interrupt that is
  blocked but in `ppoll`. A command may close its output before it exits, or leave a
  process behind that holds it open.
* `RemoteProcs` - `RemoteProcessSet` in the build loop's thread, the workers of
  `RBThreadPoolImpl`, `ExecutionContext::Execute` in them, the pipe, `ppoll` and
  signals. A block under the pool's mutex is a step; everything between two such
  blocks, and each read or write of `interrupted_`, is one of its own. `Builder::Build`
  gives up after a signal, and in any turn of its loop (`BuildError`: `StartEdge`,
  `EdgeFinished` or `FinishCommand` fails); either way `Abort` clears the set with
  commands running. What a worker then does with a deleted process is undefined: ninja
  goes on, or it crashes (`Crash`).
* `RemoteClient` - what `Execute` does in a worker when the command runs remotely:
  the action cache, finding and uploading what the store lacks (batches, large files
  in chunks), the operation and its stream, downloading, checking digests, moving the
  outputs into place. `GRPCRetrier` is around every call; a call that fails for good
  kills ninja (`Fatal`), and so does a digest that does not match.
* `ShareThreads` - `ShareThreadSet`, its dispatcher, the workers' completion queues,
  failed calls, a signal or an error of the build loop (`BuildError`), and the deletion
  of what calls still point to. The dispatcher's members go one by one, as C++ destroys
  them: the clients, the queues, and last the pool, which joins its workers
  (`DestroyClients`, `DestroyQueues`, `StopPool`, `Join`). A worker whose next step
  touches what is gone (`TouchesFreed`) may crash ninja.

The logs:

* `RecordStore` - the abstract log: what it has for a key was recorded for that key,
  and it only moves on to newer records or loses what it has.
* `DepsLog`, `BuildLog` - the two files as sequences of records, with a crash between
  any two writes or in one, `Load` with its truncation or its torn line, recompaction
  with the window between `unlink` and `rename` (and without a log to unlink, where
  `DepsLog::Recompact` fails), restat, and for the deps log a
  second ninja that appends to the same file. A line of the build log can be cut in its
  start time, in its path or in its hash (`Cuts`), each of which comes to something else
  once a line is appended to it (`ReadLine`). `Logs` has both side by side.

The sequential algorithms, as functions of their input:

* `Scan` - `RecomputeDirty`, `RecomputeNodeDirty`, `VerifyDAG` with the marks, the
  stack, the queue of validations, depfiles and dyndep files with the inputs and outputs
  they add, for graphs with cycles too; compared with a definition by reachability. A
  build of the manifest and `State::Reset` (`Reset`) may come between two scans: the
  flags are cleared, discovered inputs and outputs stay and no dyndep file is pending
  again, and `ResetIsClean` compares what the second scan finds with a scan that starts
  anew.
* `GraphTools` - `-t commands, inputs, query, targets, graph, compdb, deps,
  missingdeps` with its cache of answers (`adjacency_map_`), and the cleaner, compared
  with what each says it lists or removes.
* `Manifest`, `ManifestTexts` - `ManifestParser`, `BindingEnv` and `EdgeEnv` over
  statements: includes and subninjas, scopes, duplicate outputs, circular variables,
  implicit and order-only inputs, validations, dyndep bindings, the root nodes and
  defaults.
* `Paths` - `CanonicalizePath` and the path arithmetic of `static_file_utils.cc`;
  `RemoteCommand` - `RemoteSpawn`, `CompileCommandParser`, `BuildAction` and
  `BuildMerkleTree`; `Depfile` - `DepfileParser` and `DepsFromMakeRules`, character by
  character, on what compilers write.

The program:

* `NinjaMain` - `real_main` and its loop, `NinjaMain::RebuildManifest`, the logs, the
  share environment, the tools that change files or logs, one run after the other
  over a workspace whose manifest is generated.

The proofs: `BuilderProofs` (over `Plan`, `Builder` and `DyndepPlan`), `RebuildProofs`, `RemoteProofs`
(over `RemoteProcs`), `ClientProofs` (over `RemoteClient`), `RunnerProofs` (over
`Subprocs` and `ShareThreads`, by `MCRunners`), `LogProofs` (over `Logs`), `MainProofs`;
and `SequenceFacts`, what the others need to know of sequences.
For TLC: `MCGraph` and the other `MC` modules, which say what manifest or machine
each instance is. `MCLogs` (by `Logs`), `MCRunners` and `MCAlgorithms` hold several
machines that share no state: a behaviour is one of one of them.

The operators whose comment begins with "A mutant" are changed forms of a definition
that each make a property fail; PROJECT.json says which. They are used by no
specification.

## Runs

| run | what it asks | bounds |
|---|---|---|
| `build` | Does the loop keep each edge to once, after its inputs, within its pool, keep `-k`, clean up, tell the truth, and return? | 6 edges: a restat edge with two outputs, a phony edge, order-only inputs, two edges in a pool of depth 1; `-j 2`, a load limit, `-k 2` |
| `dyndep` | Does the plan keep its promises while the graph grows? | 8 edges, one dyndep file for two of them, edges that come in through it |
| `rebuild` | Is every output that a scan leaves alone right, does success mean what a build from nothing would give, and is there then nothing to do? | 3 edges: a restat edge, an edge with recorded inputs, whose included file turns from a source into the restat edge's output, and an edge of plain inputs; 2 edits, 1 failure, interrupt or crash |
| `runners` | Local: is a command reported whole, is none left running, is an interrupt heard? Share: is each answer reported, stored into what still exists, and does the polling end, with a signal or an error of the loop at any moment? | local: 3 commands, one on the console, one chunk of output; share: 3 commands, 2 clients and workers |
| `remote` | Is each command run by one worker, reported with its outcome unless the build gives up, never used once reported, and the pool joined? | 3 commands, one of them local and one that may fail, 2 workers, 1 signal, an error of the loop at any moment |
| `client` | Does exit code 0 mean the right outputs, does every command end, and does ninja die only of what went wrong outside it, or of equal output directories? | 2 compilations that share a header; a large source, a large output, a large directory with a file that another output equals, two equal directories; 1 retry, batches of 2, any edits |
| `logs` | Is what was recorded loaded, is memory what is on disk, and do both logs implement `RecordStore`? | deps log: 2 processes, 2 outputs, one an input of the other, a header, 2 records each, 3 starts; build log: an edge with two outputs and one with one, the same bounds |
| `algorithms` | Do the sequential algorithms compute what they should, on every input of a shape? | scan: all graphs of 3 edges of the shape in `MCAlgorithms`, many with cycles, and one `Reset` between two scans; tools: 4 edges without cycles; compile commands in 3 orders of their words; paths of 4 parts and pairs of 2; depfile names of 3 characters; manifests of 6 statements in 2 open files |
| `main` | Does every run end, however often the manifest is rebuilt, and clear what it set up, and does no tool remove a source? | 2 versions of the manifest, a file that is made in one and a source in the other; 2 rebuilds at most, 3 runs |

Each of these passes. The instances are small but contain each of the things the code
treats differently; verdicts of the scan, outcomes, orders and interleavings are all
explored. Why the bounds are enough:

* in `build`, two commands at a time out of six edges let the pool's second edge wait
  for its first, in both orders, and `-k 2` lets one failure pass and a second one stop;
* in `rebuild` the second edit can meet what the first one and the stop have left
  behind, in this build or the next; two stops give the same answer;
* in `remote` and in the share half of `runners` three commands on two workers make
  one wait, which is where a wakeup or an answer can be lost;
* in `client` one retry has a first and a last attempt of every call, and a batch of
  two is split by a third blob. As shipped there is no retry, since `GetConnectOptions`
  sets the limit to 0 (`execution_context.cc:341`): the bound covers the code of
  `GRPCRetrier` rather than its use. The second command makes two equal directories, of
  which every success of it dies; the successes that end well are those of the first;
* in `logs` a third start comes after a crash and a recompaction, and a second record
  per output is what may replace a first one or be lost;
* in `algorithms` three edges make cycles of each length up to three, through plain,
  order-only, discovered and dyndep inputs;
* in `main`, two rebuilds reach the limit at which `real_main` gives up (100 in the
  code), and three runs let a tool meet what two earlier ones left.

What the properties say stands above each of them; compound ones name their parts
(`BooksKept`, `ResultIsTrue`, `StepsKept`, `PlanIsWhole`, `BuildGoesOn`,
`BuildSettles`). Deadlock is checked in `client`, `logs` and `runners`; elsewhere
the behaviours end because a build, or a sequence of runs, does.

The remaining runs each check one sentence of the repository that the code does
not keep:

| run | sentence | what happens |
|---|---|---|
| `dyndep_pool` | "Avoid scheduling the work again." (`build.cc:195-198`) | an initial edge that waits in a pool still looks unscheduled when a dyndep file leads to it again |
| `remote_failure` | `Finish` "Returns ExitSuccess on successful process exit ..." (`subprocess.h:45-46`) | a command that a worker runs locally always counts as a success (`execution_context.cc:370`) |
| `rebuild_restat` | "out should rebuild despite having a newer mtime than in1, since in1 was touched during the build of out" (`build_test.cc:2756-2757`, of a rule without restat) | for a restat edge the entry gets the output's time, not the command's start (`build.cc:1203`), so an input edited between the command's read and its write goes unnoticed |

### What the code does not keep, and the passing runs leave out

Some definitions state what one would expect, are refuted by TLC on the instances
named here, and have no run of their own:

* `InterruptDeletesTouched` (`Builder`): "A touched output of an interrupted command
  should be deleted" (`build_test.cc:2192`). `WaitForCommand` forgets the edge of a
  command that a signal ended before `Cleanup` asks for the active ones.
  `CleanupCoversActive` therefore leaves that one edge out.
* `PoolIsLive` (`RemoteProcs`, with `Rounds = 2`): "Create or get a singleton thread
  pool" (`thread_pool.h:53`). The second build of one process is handed the freed pool.
* `InterruptReturns` (`RemoteProcs`): "return false if interrupted" (`build.h:166`). A
  worker's `SubprocessSet` clears the flag, or takes the signal and leaves the pipe
  open.
* `LookupOrder` (`Manifest`): the manual's order of lookup (`doc/manual.asciidoc:1121`) puts a rule's bindings before the file's. An edge without bindings has the
  file's own scope, so a file variable wins (`eval_env.cc:85-99`).

`ParallelismKept` (`Builder`), that no more commands run than `-j` allows, holds on the
instance of `build`, and has no run of its own; the share runner ignores `-j`.

The `dyndep` run has no edge with lost dependency information, no validation
brought in by a dyndep file, no pooled edge that was delayed before the file came,
no dyndep file beside another output, and no edge that the manifest lets use what only
a dyndep file makes an output. Each would break one of its properties; but for the
pool, `InScope` in `DyndepPlan` excludes the same things from the theorems:

* `RecomputeNodeDirty` resets `deps_missing_` and `outputs_ready_` at every visit but
  tries `LoadDeps` only at the first (`graph.cc:112-147`), so an edge without
  dependency information is cleaned, or counts as ready, after a second visit
  (`build.cc:291`, `build.cc:445` say it is not). Set `HasDeps` to see it.
* A validation found by `RefreshDyndepDependents` is given to `AddTarget` but not to
  `EdgeMaybeReady` (`build.cc:396-450`): if it is ready at once, the build ends with
  "stuck [this is a bug]". Set `Validations` to see it.
* `EdgeFinished` announces its outputs one by one (`build.cc:234`): an output listed
  before the dyndep file makes a consumer ready while the file is not loaded
  (`graph.cc:125-126` says it cannot). `LoadedBeforeScheduled` fails when the edge
  that makes the file has another output its users need.
* `AddSubTarget` walks from the edges of the file that are in the plan, and only along
  the inputs the file adds (`build.cc:370-388`). An edge g that uses `fm` by the
  manifest, where a dyndep file makes `fm` an output of f, is therefore run before f if
  g does not need the file (`BuiltBeforeUse` fails), and if it does, but nothing wanted
  needs f, waits for an f without entry (`PlanClosed` fails), so that the build ends
  with "stuck [this is a bug]". `OutputsFound` asks that g needs f already, or
  learns of `fm` from the same file, as in the manual's example of Fortran modules
  (`doc/manual.asciidoc:1231-1233`).

In `rebuild` the user does not edit what a running restat command reads
(`RaceRestat`; see `rebuild_restat`), and does not go back to an earlier command line
nor remove an output of an edge without `deps` (`GoesBack`). With either of these
`NoStaleClean` fails, for one reason: an entry stays valid when its edge's next run
fails half-way, so if the entry fits again, the half-written output is clean.

When a build gives up with commands running - after a signal, or because `StartEdge`,
`EdgeFinished` or `FinishCommand` failed (`build.cc:1023-1067`) -
`RemoteProcessSet::Clear` deletes processes that workers still use, and the pool is torn
down while tasks wait, where `thread_pool.h:53-54` asks for it to be freed "when all
tasks finished": `FreedWhenFinished` (`RemoteProcs`) says so and TLC refutes it on the
instance of `remote`. The share runner's `Clear` deletes what outstanding calls point to
(`share_thread.cc:181`); its `pid_` is never set, so that the `kill` beside it goes to
process 1. `NoUseAfterDelete` and `StoresIntoLive` therefore say where such use can
happen: only in a build that has given up, and never of a command that the build was told
of. `AsyncExecute` sets a callback after it has handed the call over
(`proxy_service_client.cc:110`): in `ShareThreads` an answer comes after that.

Clients and queues of the dispatcher are destroyed before the workers are joined
(`share_thread.h:66-71`), while a worker that has just set `is_done_`, or has yet to take
its first task, goes on to read `cq_` of its client (`proxy_service_client.cc:113-125`).
`NoFreedTouched` (`ShareThreads`) says that this never happens; TLC refutes it on the
instance of `runners`, also when every command has been reported. So `RunnerEnds` and
`BuildGoesOn` say that a runner comes to its end or ninja has crashed.

The three stores of `SetResult` are unlocked. They are taken to become visible in the
order of the program; what a compiler or a machine may make of the data race beyond that
is not modelled.

In the deps log, three things that a second ninja makes possible corrupt the file and
are left out: recompaction, and truncation by `Load`, while another process holds the
ids of the old file, and a record torn by a crash while another process appends. In
the build log a line that a crash cut short becomes one line with the next one;
`LineIsLoaded` excepts it, and `LinesAreRecords` shows that no wrong entry comes of it
but one whose hash fits nothing. Two things are assumed there: that the name which a cut
path makes with the number after it is no output's, and that the hash is looked at,
which it is not for `generator` edges (`graph.cc:333`).

In `Scan` the properties leave out an output that a dyndep file adds after an edge was
visited that has it as an input (`late`): the scan has passed that edge by, and does not
go back to it.

Met while modelling, in the code as it is modelled, and outside what the properties ask:

* `CanExecuteRemotelly` and `CanCacheRemotelly` are the same test, so the branch "run
  locally and update the action cache" is dead. `GetConnectOptions` sets the retry
  limit to 0, whatever the default (4).
* A second attempt of `Upload(fd)` is fatal (`cas_client.cc:293-310`); `BatchUpload`
  ignores the status of each blob; an interrupt during the read of an operation is
  fatal; two output directories with the same digest share an entry, and the second
  `renameat` is fatal; a success whose command has no output files is fatal
  (`execution_context.cc:473`); `symlinkat` over an existing link is.
  `OnlyFaultsKill` names the two that `RemoteClient` has (`EqualTrees`, `NoFiles`).
* In `RemoteCommand`: `CleanCommand` goes back to the original command when it finds a
  backslash, which undoes `ConvertAllPathToRelative`; absolute `-I` and `-L` outside
  the project are made relative if joined to their option, `-isystem` and `-include`
  are not made relative if joined; `ParseGccOption` cuts at the first `=`; names with
  `..` get into the tree; order-only inputs are not uploaded; a missing argument at the
  end of a command reads the front of an empty list. `remote_exec_rules` is never used.
* `DepsFromMakeRules` does not undo `$$` and drops backslashes, and neither parser reads
  back a backslash before `$` or `:`; `DepfileIsRead` speaks of the names that can be
  written. `CanonicalizePath` keeps `..` at the root.
* `phonycycle=warn` takes the self-reference out of the inputs but leaves
  `order_only_deps_` (`manifest_parser.cc:400-412`): `build a: phony b || a` makes `b`
  order-only, and `a` is no longer a root.
* `-t restat` runs before the manifest is loaded (`ninja.cc:1054`), and the share
  environment is initialised after the manifest's rebuild (`ninja.cc:1702`). The
  recursions of most tools do not end on a cyclic graph.

## Fairness

* `Builder`: weak fairness of the whole next-state relation. The loop runs on, and a
  command that was started ends.
* `Subprocs`: of ninja's thread, of each command's exit and of the end of what it left
  behind. `RemoteProcs`: of the build loop and of each worker. `ShareThreads`: of the
  polling loop, of each worker and of each answer; a call has no deadline, but a lost
  connection fails it. Threads are scheduled and commands end; nothing else is assumed.
* `RemoteClient`: of each worker and of the service's finishing of an operation. A call
  that fails for ever runs into the retry limit, so no fairness of success is needed.
* `NinjaMain`: of `Main`; a run that was started goes on.
* `Plan`, `DyndepPlan`, `Rebuild` and the logs have none: they answer calls, and what
  they promise is safety. That the plan never leaves the caller without a call to make
  is `NothingForgotten`, and `PlanIsWhole` in the dyndep case.

Users, signals, edits, crashes, failing calls and failing commands are never fair.

## Refinement

* `StoresRecords`: `DepsLog` and `BuildLog` implement `RecordStore`, with what a process
  that starts now would load as the store.

This is checked by TLC and proved (`LogsAreStores`). `Builder` extends `Plan` and takes
its actions as parts of its own, so that each step of it is a step of the plan or a
stutter by how it is written (`LoopIsPlan` in `BuilderProofs`); what is shown of the plan
with its free caller therefore holds in every build.

## What is proved

For all values of the constants; in each module the named invariant is inductive, and
the theorems are consequences.

* `BuilderProofs`, about the plan and from `GraphAssumption` (types) alone:
  `TypeCorrect`; `ScheduleCorrect`, the invariant `ScheduleInv`, and from it
  `InputsFirst`, `AtMostOnce`, `NeverForgotten`. It is needed because neither "inputs
  first" nor "once" is inductive: an edge is kept from being scheduled twice by its
  entry in `want_` leaving `kWantToStart` only once, except for a pooled initial edge,
  whose entry stays, and which is not reached again because its inputs were ready at
  the start and no edge becomes ready twice. `CleaningIsSafe`: `CleanNode` never
  withdraws an edge that is held, since an edge is cleaned when one of its inputs is,
  hence before that input's producer is ready, hence before it can be scheduled.
  `BooksRight` (pools, counters, and that a failure blocks what needs it): `BooksInv`
  adds to `ScheduleInv` the sums over the edges that hold
  a place in a pool, and that failed edges stay failed.

  From `DAGAssumption` too (an output has one edge, and there is no cycle):
  `MoreToDoIsRight`, that `more_to_do` is true exactly while an edge is wanted. The code
  compares two counters, of which `command_edges_` is lowered for cleaned edges only, so
  it takes an argument that it cannot reach zero early (`CommandsCounted`).
  `ProgressInv` says that whatever a wanted edge needs has an entry or is ready, and
  that an entry with nothing to do waits for one that has.

  About the loop: `LoopStep`, that each step of it is one of the plan, from which
  `LoopIsPlan` and the plan's results for builds (`BuildInputsFirst`,
  `BuildRunsOnce`, `BuildForgetsNothing`, `BuildKeepsBooks`); `BuildStepsKept`, with
  `BudgetKept`, that nothing starts once `-k` failures were seen; `BuildResultIsTrue` -
  the loop says "ok" only when all is done, never says "stuck", and when it gives up
  each edge that is left has failed or needs one that is left - and `BuildCleansUp`.
  `LoopInv` says that the runner's list, queue and map hold exactly the commands the
  plan has running, that `pending_commands` counts them, and that the loop waits only if
  something runs: with nothing running, an edge at the bottom of what is wanted
  (`DAGAssumption`) would be in the queue.

  About the plan while dyndep files are loaded, for the manifests and files of `InScope`
  and however many of the files there are: `DyndepTypeCorrect`, `DyndepBuiltFirst` and
  `DyndepPlanIsWhole`. The argument for the plan alone does not carry over, since it
  rests on a graph that stays: an edge gets an input whose maker was never visited,
  edges enter the plan while others run, and an entry with nothing to do becomes a
  wanted one.
  `DyndepInv` says what takes its place. The graph is at each moment what the manifest
  and the loaded files say, hence a part of the final one and acyclic (`GraphGrows`,
  `WellFormedAssumption`); whatever needs a file that is pending or not taken up yet
  is neither ready nor scheduled nor passed (`FileFirst`), so nothing that was decided
  already rests on the part of the graph that is going to change; the entries are
  exactly the edges that the scan found not ready (`EntriesVisited`); and what an entry
  waits for was seen by the scan, but for what the file just loaded has added
  (`PlanKnows`), which is what the second scan and the walk then visit. `DirtyReasons`
  shows that a dependent that turns out dirty was not ready, which is the assert of
  `RefreshDyndepDependents`. That an edge which needs nothing more is held or has failed
  is kept in the middle of the call as well (`NoneWaits`): an edge that gets ready then
  was met by the walk, or consumes the file, or consumes an edge that was passed.
  `PlanIsWhole` also says that while nothing has failed the build does not get stuck with
  entries left. For that an entry with nothing to do must not be left behind either:
  `NoneStays` is kept besides `DyndepInv`, because whatever lets such an entry's last
  input become ready - a command, a clean, the second scan, a file taken up - has that
  same call come to it. An entry that needs no other entry exists (the grown graph is
  acyclic), and is then wanted and held.
  `dyndep_pool` refutes `RunsOnce`, so it is a result only with one hypothesis more:
  `DyndepRunsOnce` holds if no pooled edge can be an initial edge (`PooledBelow`).
  `DyndepOnce` is the invariant: what is held has `kWantToFinish`, which
  `EdgeMaybeReady` and the walk of `UnmarkDependents` pass by, and what has run is done
  or still has it. `Plan::ScheduleWork` and `Plan::EdgeFinished` keep it however the
  graph grows; only `ScheduleInitialEdges` breaks it, which leaves a pooled edge at
  `kWantToStart`. The finding of `dyndep_pool` is confined to that place.
  With `DyndepOnce` the other promises of `Plan` hold as well while the graph grows:
  `DyndepKeepsBooks` (`BooksKept`) and `DyndepCleaningIsSafe` (`CleanedNotHeld`, in
  `build` a part of `StepsKept`). The invariant added is `DyndepBooks`, the pools' use,
  the counters and what is known of failed edges. `EdgeFinished` settles in a pool
  that it has just given a place back to, `DyndepsLoaded` in a pool as it is; both
  come to the same lemma (`SettleFills`), which counts who holds a place, since what
  is scheduled was held nowhere. New entries are added to `wanted_edges_` once, as a
  dependent that had nothing to do counts as new.
* `RebuildProofs`, for any graph, number of edits and of stops: `NeverStaleClean` and
  `OneBuildSettles`, with `RaceRestat` and `GoesBack` false - with either of them true
  TLC refutes `NoStaleClean`, see above. `RebuildInv` reads an entry of the build log as
  a promise (`EntriesRight`): unless an input was changed after the time in it, the
  output is what the inputs make. Every step keeps it, because a write makes a time
  later than every time recorded, and because a command runs only where the promise is
  void already: its output was dirty, and stays so until its own entry is written. The
  rest of the invariant says what the scan knew (`Scanned`), what a running command has
  read and written (`Commands`), and what the deps log lacks between the two writes of a
  finished command (`Recorded`). `OneBuildSettles` takes `QuietInv` besides, that with
  nothing edited an edge that is not wanted any more is up to date and what a command
  reads is made when it runs. This asks that an included file that is itself an output is
  declared, at least as an order-only input (`Covered`), which is what the manual has
  order-only inputs for (`doc/manual.asciidoc:1041`); otherwise a command can read a file
  that the same build makes later. `Restat \cap Deps = {}` is
  an assumption of the model: `FinishCommand` writes the build log's entry before the deps
  log's, so a crash in between leaves an edge with both, whose output was not written
  again, clean with the inputs of the time before.
* `RemoteProofs`, for any number of commands, workers, signals and runners:
  `RemoteTypeCorrect`; `NoLostWakeup` (no worker sleeps while a task waits, except in
  the window between `AddTask`'s unlock and its `notify_all`), which is inductive;
  `TaskHasOneWorker` and `OutcomeIsTrue`, from `RemoteInv`; `NothingUsedAfterDelete`,
  from `UseInv` on top of it: until the build gives up a process is deleted only when its
  pipe has been closed, and the runner goes only when every process has been deleted, so
  that a task in a worker's hands or in the queue still has its process; and what was
  reported had its pipe closed, whatever comes later.
* `ClientProofs`, for any commands, limits, failures and edits: `OutputsAreAlwaysRight`,
  from `ClientInv`: what is asked of the store belongs to the action (`Queued`, `Asked`);
  what was received has been compared with its digest, and each output is received or
  still asked for (`Fetched`); a command that ended with 0 has its outputs in place
  (`InPlace`). `OnlyFaultsEverKill`, from `HarmInv`: while nothing goes wrong outside, the
  inputs of a command are what was hashed, a file is sent from where its stream is, and
  the service has what the action refers to, or is about to get it (`Unharmed`). Nothing is
  assumed of the commands: equal output directories and a success without output files are
  deaths that the property names, and the proof shows that there are no others.
* `RunnerProofs`, for any number of commands, clients and workers and any output. The
  local runner: `ReportsAreWhole` and `NoneLeftRunning`, from `ProcInv`: a process is
  waited for while the set knows it, and a command is finished only when its pipe is
  empty and nobody holds it. The share runner: `AnswersAreReported` and
  `NoStoreIntoDeleted`, from `ShareInv`: a thread that is done has the result of its own
  answer (`CallRight`), no two workers have the same call (`WorkerRight`), and until
  the build gives up a thread lives until its call is over (`LiveRight`).
* `LogProofs`, for any number of processes, nodes, edges, records and starts:
  `RecordedIsAlwaysLoaded`, `MemoryIsAlwaysDisk`, and `LogsAreStores`, the refinement of
  `RecordStore`. For the deps log `DepsInv` says that the part of the file which `Load`
  keeps is `Sound` - its path records have the ids 0, 1, 2, ..., each node one, and no deps
  record names an id without path - and that every entry in it was given for its own
  node; that the nodes a process has in memory are the first of those on disk, all of
  them if it is alone; and that a log being recompacted is sound and has no entry that
  the old one lacks. So a crash may shorten what `Load` keeps, but an id never changes
  its meaning. A second process appends ids that the first has given too; `Load` stops
  at such a record, which is where the sound part ends. For the build log `LinesInv`
  says what a file is read as, line by line, since nothing is ever truncated: a line
  that was cut short swallows the next one or gives it a hash that fits nothing, so what
  is appended becomes the newest entry of its output, is lost, or is garbage
  (`AppendEntry`), and of any other output nothing changes.
* `MainProofs`, for any manifests, limit and number of runs: `LeavesNoEnvironment`,
  `SourcesKept`.

`SequenceFacts` has the lemmas these share: induction over the numbers as a fact about
sets (a set with 0 that is closed under successors has them all, because a set of
numbers has a least element), since the theorems of the library with an operator as
parameter cannot be used; and with it what `FlattenSeq`, `SetToSeq`, `Tail` and `\o` do.
The same form of induction shows in `LogProofs` that `Recompacted`, a recursive function,
writes a sound log.

The assumptions are those on the constants, named in the modules that declare them
(`GraphAssumption`, `DAGAssumption`, `DyndepAssumption`, `WellFormedAssumption`,
`LevelAssumption`, `BuilderAssumption`, `RebuildAssumption`,
`RemoteAssumption`, `ClientAssumption`, `RunnersAssumption`, `LogsAssumption`,
`MainAssumption`); TLC evaluates each on the instances. `Covered`, `InScope`
and `PooledBelow` are hypotheses of the theorems that name them, and hold on
the instances as well, but for `PooledBelow` on that of `dyndep_pool`. `InScope` is
stated of what the files will say: the code does not check it, and without it does not
keep the properties (see above).

Only model-checked: liveness (`Terminates`, `BuildGoesOn`, `RunnerEnds`, `RunsEnd`,
`CommandsEnd`), since neither fairness nor ENABLED is in the prover's reach; and `Scan`
and the other algorithms, which are recursive functions and folds over graphs and texts,
compared with definitions on bounded inputs.

## Not modelled, and why

* Status and terminal output, `EXPLAIN`, usage texts, `-t browse`, `-t rules`, the
  configuration files: formatting, or another program.
* `ThreadPoolImpl`: nothing calls `CreateThreadPool`.
* The generated lexer, the dyndep parser, `clparser`, shell quoting, tables of compilers
  but gcc: text processing that keeps no state. `Manifest` is chosen statement by
  statement, and a dyndep file is well formed.
* `DiskInterface` and Windows: I/O, and another platform.
* The service and the proxy: outside the repository. In `RemoteClient` the service keeps
  its store, may fail any call and may answer with damaged data; in `ShareThreads` it
  answers with any exit code. Bytes and batch sizes are not counted; so the `size_t`
  that wraps in `MakeBatches` (`cas_client.cc:585-587`) does not show.
* In `Builder`: the closing of the build log before a generator edge, and an error of
  `Stat` in the middle of `FinishCommand`. `Plan` has no validations but for those of
  `DyndepPlan`; `Scan` has them. The order in which a pool releases the edges it holds
  back (`PrepareQueue`, `RetrieveReadyEdges`) is in `Plan` as it is in the code, and no
  property is about it.
* In `RemoteProcs`: the `sigaction` calls of the workers' `SubprocessSet`s
  (`subprocess-posix.cc:231`) and the unlocked read in `HasWaitingTask`. An abort there
  does not stop what the service already runs.
* In `Rebuild`: edges with several outputs, dyndep, `generator` edges and edges with
  both `restat` and `deps`; two writes with the same time; commands that outlive a
  crash of ninja; files restored with an old time; outputs removed during a build;
  a loss of power. Lines and records torn by a crash are `BuildLog`'s and `DepsLog`'s.
* In the logs: the bytes of a record, oversized records, and the upgrade of old formats
  but for their refusal.
* In `RemoteClient`: symbolic links, captured output, credentials.
* The composition of `RemoteProcs` with `RemoteClient`, and of either with `Builder`, in
  one run: each has what it sees of the other (an exit code; a command that ends), and
  their product is too large to explore.

## Plan

Written in this order, since each rests on the ones before: `Plan`, `Builder` over it,
`DyndepPlan`, `RemoteProcs`, `Rebuild`; then the runners' other halves (`Subprocs`,
`ShareThreads`, `RemoteClient`), the logs under `RecordStore`, the scan and the
other algorithms, and `NinjaMain` around them. The proofs followed the modules.

What would add most from here:

1. Validations in `Plan`, and its progress with them.
2. Dyndep files below dyndep files: the second scan that loads a file itself.
3. `Rebuild` with several outputs per edge and with dyndep, over `Scan` instead of its
   own notion of dirtiness.
4. The acyclic part of `Scan` by the induction of `SequenceFacts`.
