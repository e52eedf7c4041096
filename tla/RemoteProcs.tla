----------------------------- MODULE RemoteProcs -----------------------------
(***************************************************************************)
(* What CloudCommandRunner runs its commands on: RemoteProcessSet          *)
(* (remote_process.cc) in the thread of the build loop, the worker threads *)
(* of RBThreadPoolImpl (thread_pool.cc), and ExecutionContext::Execute     *)
(* (execution_context.cc) in the workers.  A worker tells the build loop   *)
(* that a command is done by closing the writing end of a pipe.            *)
(*                                                                         *)
(* A block of code that holds the mutex of the pool is one step: it waits  *)
(* for nothing but worker_cv_.  The remote services, and what a command    *)
(* prints, are left out: a command has an exit code.  Signals come while   *)
(* the build loop is in WaitForCommand, where SubprocessSet has installed  *)
(* their handler; the handler runs in any thread that does not block them. *)
(***************************************************************************)
EXTENDS Integers, Sequences, FiniteSets, Functions

CONSTANTS
    Proc,       \* the commands of the build, one RemoteProcess each
    Worker,     \* threads of the pool
    Local,      \* commands that may not run remotely (Execute runs them itself)
    MayFail,    \* commands that may end with exit code 1
    MaxSignals, \* bound on the signals the user sends
    Rounds      \* how many runners are made: a rebuild of the manifest has its own

ASSUME RemoteAssumption ==
    /\ IsFiniteSet(Proc) /\ Local \subseteq Proc /\ MayFail \subseteq Proc
    /\ IsFiniteSet(Worker) /\ Worker # {}
    /\ MaxSignals \in Nat /\ Rounds \in Nat \ {0}

VARIABLES
    pc,         \* the build loop: the runner's methods
    round,      \* which runner it is
    aborted,    \* Build has called Cleanup and is going to return false
    pool,       \* what g_remote_thread_pool points to
    waiting,    \* waiting_tasks_
    shutting,   \* shutting_down_
    wpc, task,  \* each worker: where it is, and its task
    proc,       \* each RemoteProcess: not made yet, there, or deleted
    closed,     \* processes whose worker has closed the pipe
    exitCode,   \* exit_code_, -1 until it is written
    running,    \* running_, whose order does not matter here
    finished,   \* finished_
    polled,     \* the processes whose pipe ppoll returned
    interrupted,\* SubprocessSet::interrupted_, one flag for all threads
    signals,    \* signals received so far
    ended,      \* history: how the command itself ended, 0 or 1
    reported    \* history: what the build was told: "none", "success", "failure"

mainVars   == <<pc, round, aborted, running, finished, polled>>
poolVars   == <<pool, waiting, shutting>>
workerVars == <<wpc, task>>
procVars   == <<proc, closed, exitCode, ended, reported>>
sigVars    == <<interrupted, signals>>
vars       == <<mainVars, poolVars, workerVars, procVars, sigVars>>

\* How a command can end.
Codes(p) == IF p \in MayFail THEN {0, 1} ELSE {0}

\* Where a worker is in the middle of a task, and so uses its process.
Executing == {"execute", "spawn", "poll", "eintr", "done"}

NotifyAll == wpc' = [w \in Worker |-> IF wpc[w] = "asleep" THEN "check" ELSE wpc[w]]

Init ==
    /\ pc = "create" /\ round = 1 /\ aborted = FALSE
    /\ pool = "none" /\ waiting = <<>> /\ shutting = FALSE
    /\ wpc = [w \in Worker |-> "none"] /\ task = [w \in Worker |-> "none"]
    /\ proc = [p \in Proc |-> "new"] /\ closed = {}
    /\ exitCode = [p \in Proc |-> -1]
    /\ running = {} /\ finished = <<>> /\ polled = {}
    /\ interrupted = FALSE /\ signals = 0
    /\ ended = [p \in Proc |-> -1] /\ reported = [p \in Proc |-> "none"]

-----------------------------------------------------------------------------
(***************************************************************************)
(* The build loop.                                                         *)
(***************************************************************************)
\* CreateRemoteBuildThreadPool: the pool there is, or a new one.
Create ==
    /\ pc = "create" /\ pc' = "loop"
    /\ IF pool = "none"
       THEN pool' = "live" /\ wpc' = [w \in Worker |-> "check"]
       ELSE UNCHANGED <<pool, wpc>>
    /\ UNCHANGED <<round, aborted, running, finished, polled, waiting, shutting, task, procVars, sigVars>>

\* A mutant: AddTask wakes nobody.
AddSilently(p) ==
    /\ pc = "loop" /\ pool = "live" /\ proc[p] = "new"
    /\ proc' = [proc EXCEPT ![p] = "made"]
    /\ running' = running \cup {p}
    /\ waiting' = Append(waiting, p)
    /\ UNCHANGED <<pc, round, aborted, finished, polled, pool, shutting, workerVars,
                   closed, exitCode, ended, reported, sigVars>>

\* RemoteProcessSet::Add, RemoteProcess::Start and the part of AddTask that
\* holds the mutex; the rest of AddTask wakes the workers.
Add(p) ==
    /\ pc = "loop" /\ pool = "live" /\ proc[p] = "new"
    /\ proc' = [proc EXCEPT ![p] = "made"]
    /\ running' = running \cup {p}
    /\ waiting' = Append(waiting, p)
    /\ pc' = IF waiting = <<>> THEN "notify" ELSE "loop"
    /\ UNCHANGED <<round, aborted, finished, polled, pool, shutting, workerVars,
                   closed, exitCode, ended, reported, sigVars>>

Notify ==
    /\ pc = "notify" /\ pc' = "loop"
    /\ NotifyAll
    /\ UNCHANGED <<round, aborted, running, finished, polled, poolVars, task, procVars, sigVars>>

\* WaitForCommand, called when a command is pending.
WaitForCommand ==
    /\ pc = "loop" /\ \E p \in Proc : proc[p] = "made"
    /\ pc' = "wait"
    /\ UNCHANGED <<round, aborted, running, finished, polled, poolVars, workerVars, procVars, sigVars>>

\* NextFinished, Finish, and the end of WaitForCommand.
NextFinished ==
    /\ pc = "wait" /\ finished # <<>>
    /\ LET p == Head(finished)
       IN  /\ reported' = [reported EXCEPT ![p] =
                             IF exitCode[p] = 0 THEN "success" ELSE "failure"]
           /\ proc' = [proc EXCEPT ![p] = "deleted"]
    /\ finished' = Tail(finished) /\ pc' = "loop"
    /\ UNCHANGED <<round, aborted, running, polled, poolVars, workerVars, closed, exitCode,
                   ended, sigVars>>

\* RemoteProcessSet::DoWork, in four steps: it clears the flag and enters
\* ppoll; ppoll returns; the pipes that are ready are read; the flag is read.
DoWork ==
    /\ pc = "wait" /\ finished = <<>>
    /\ interrupted' = FALSE /\ pc' = "poll"
    /\ UNCHANGED <<round, aborted, running, finished, polled, poolVars, workerVars, procVars, signals>>

\* A mutant: every process is taken to be done when one is.
PollReturnsAll ==
    /\ pc = "poll" /\ closed \cap running # {}
    /\ polled' = running /\ pc' = "ready"
    /\ UNCHANGED <<round, aborted, running, finished, poolVars, workerVars, procVars, sigVars>>

PollReturns ==
    /\ pc = "poll" /\ closed \cap running # {}
    /\ polled' = closed \cap running /\ pc' = "ready"
    /\ UNCHANGED <<round, aborted, running, finished, poolVars, workerVars, procVars, sigVars>>

OnPipesReady ==
    /\ pc = "ready"
    /\ polled' = {}
    /\ IF interrupted
       THEN pc' = "abort" /\ UNCHANGED <<running, finished>>
       ELSE /\ pc' = "moved"
            /\ \E done \in [1 .. Cardinality(polled) -> polled] :
                 Range(done) = polled /\ finished' = finished \o done
            /\ running' = running \ polled
    /\ UNCHANGED <<round, aborted, poolVars, workerVars, procVars, sigVars>>

\* After the pipes, or after ppoll failed with EINTR.
ReadFlag ==
    /\ pc \in {"moved", "eintr"}
    /\ pc' = IF interrupted THEN "abort" ELSE "wait"
    /\ UNCHANGED <<round, aborted, running, finished, polled, poolVars, workerVars, procVars, sigVars>>

\* Builder::Build gives up, whatever is running: StartEdge, the EdgeFinished of a
\* phony edge or FinishCommand has failed.
BuildError ==
    /\ pc = "loop" /\ pc' = "abort"
    /\ UNCHANGED <<round, aborted, running, finished, polled, poolVars, workerVars, procVars, sigVars>>

\* Builder::Cleanup, after an error or an interrupt: RemoteProcessSet::Clear.
\* The tasks stay where they are, in the queue or in a worker's hands.
Abort ==
    /\ pc = "abort" /\ pc' = "shutdown" /\ aborted' = TRUE
    /\ proc' = [p \in Proc |-> IF p \in running THEN "deleted" ELSE proc[p]]
    /\ running' = {}
    /\ UNCHANGED <<round, finished, polled, poolVars, workerVars, closed, exitCode,
                   ended, reported, sigVars>>

\* Nothing is pending and the build is over; the runner goes: ~RemoteProcessSet, ~RBThreadPoolImpl.
Finished ==
    /\ pc = "loop" /\ \A p \in Proc : proc[p] # "made"
    /\ pc' = "shutdown"
    /\ UNCHANGED <<round, aborted, running, finished, polled, poolVars, workerVars, procVars, sigVars>>

Shutdown ==
    /\ pc = "shutdown" /\ pool = "live"
    /\ shutting' = TRUE /\ pc' = "stop"
    /\ UNCHANGED <<round, aborted, running, finished, polled, pool, waiting, workerVars, procVars, sigVars>>

\* A mutant: the destructor wakes nobody.
StopSilently ==
    /\ pc = "stop" /\ pc' = "join"
    /\ UNCHANGED <<round, aborted, running, finished, polled, poolVars, workerVars, procVars, sigVars>>

NotifyStop ==
    /\ pc = "stop" /\ pc' = "join"
    /\ NotifyAll
    /\ UNCHANGED <<round, aborted, running, finished, polled, poolVars, task, procVars, sigVars>>

Join ==
    /\ pc = "join" /\ \A w \in Worker : wpc[w] = "exited"
    /\ pool' = "freed"
    /\ IF round < Rounds /\ ~aborted
                         THEN pc' = "create" /\ round' = round + 1
                         ELSE pc' = "over" /\ UNCHANGED round
    /\ UNCHANGED <<aborted, running, finished, polled, waiting, shutting, workerVars, procVars, sigVars>>

-----------------------------------------------------------------------------
(***************************************************************************)
(* A worker: RBThreadPoolImpl::WorkerThreadLoop.                           *)
(***************************************************************************)
\* The predicate of worker_cv_.wait, under the mutex.
Check(w) ==
    /\ wpc[w] = "check"
    /\ wpc' = [wpc EXCEPT ![w] = IF shutting THEN "exited"
                                 ELSE IF waiting = <<>> THEN "asleep" ELSE "take"]
    /\ UNCHANGED <<mainVars, poolVars, task, procVars, sigVars>>

\* A mutant: the worker leaves the task in the queue.
TakeWithoutPop(w) ==
    /\ wpc[w] = "take"
    /\ IF waiting = <<>>
       THEN wpc' = [wpc EXCEPT ![w] = "check"] /\ UNCHANGED task
       ELSE /\ wpc' = [wpc EXCEPT ![w] = IF Head(waiting) \in Local THEN "spawn" ELSE "execute"]
            /\ task' = [task EXCEPT ![w] = Head(waiting)]
    /\ UNCHANGED <<mainVars, poolVars, procVars, sigVars>>

\* The inner loop takes tasks until there are none; it does not look at
\* shutting_down_.
Take(w) ==
    /\ wpc[w] = "take"
    /\ IF waiting = <<>>
       THEN wpc' = [wpc EXCEPT ![w] = "check"] /\ UNCHANGED <<task, waiting>>
       ELSE /\ wpc' = [wpc EXCEPT ![w] = IF Head(waiting) \in Local THEN "spawn" ELSE "execute"]
            /\ task' = [task EXCEPT ![w] = Head(waiting)]
            /\ waiting' = Tail(waiting)
    /\ UNCHANGED <<mainVars, pool, shutting, procVars, sigVars>>

\* A mutant: success is not written.
ForgetsSuccess(w, code) ==
    /\ wpc[w] = "execute"
    /\ wpc' = [wpc EXCEPT ![w] = "done"]
    /\ ended' = [ended EXCEPT ![task[w]] = code]
    /\ exitCode' = IF code = 0 THEN exitCode ELSE [exitCode EXCEPT ![task[w]] = code]
    /\ UNCHANGED <<mainVars, poolVars, task, proc, closed, reported, sigVars>>

\* Execute by the remote service or from its cache.
ExecuteRemotely(w, code) ==
    /\ wpc[w] = "execute"
    /\ wpc' = [wpc EXCEPT ![w] = "done"]
    /\ ended' = [ended EXCEPT ![task[w]] = code]
    /\ exitCode' = [exitCode EXCEPT ![task[w]] = code]
    /\ UNCHANGED <<mainVars, poolVars, task, proc, closed, reported, sigVars>>

\* Execute in a subprocess of the worker, which has a SubprocessSet of its own:
\* DoWork clears the flag and enters ppoll, ...
Spawn(w) ==
    /\ wpc[w] = "spawn"
    /\ wpc' = [wpc EXCEPT ![w] = "poll"]
    /\ interrupted' = FALSE
    /\ UNCHANGED <<mainVars, poolVars, task, procVars, signals>>

\* ... and when the subprocess has ended, Execute reports 0 whatever it returned;
\* when DoWork finds the flag set, Execute returns at once and leaves the pipe open.
ExecuteLocally(w, code) ==
    /\ wpc[w] = "poll"
    /\ IF interrupted
       THEN wpc' = [wpc EXCEPT ![w] = "take"] /\ UNCHANGED <<ended, exitCode>>
       ELSE /\ wpc' = [wpc EXCEPT ![w] = "done"]
            /\ ended' = [ended EXCEPT ![task[w]] = code]
            /\ exitCode' = [exitCode EXCEPT ![task[w]] = 0]
    /\ UNCHANGED <<mainVars, poolVars, task, proc, closed, reported, sigVars>>

\* ppoll in the worker failed with EINTR.
WorkerReadsFlag(w) ==
    /\ wpc[w] = "eintr"
    /\ wpc' = [wpc EXCEPT ![w] = IF interrupted THEN "take" ELSE "spawn"]
    /\ UNCHANGED <<mainVars, poolVars, task, procVars, sigVars>>

\* What a worker does with a deleted process is undefined: ninja may crash, or it
\* does what it would have done (the other actions).
Crash(w) ==
    /\ wpc[w] \in Executing /\ proc[task[w]] = "deleted"
    /\ pc' = "crashed"
    /\ UNCHANGED <<round, aborted, running, finished, polled, poolVars, workerVars, procVars, sigVars>>

\* The last line of Execute.
Close(w) ==
    /\ wpc[w] = "done"
    /\ wpc' = [wpc EXCEPT ![w] = "take"]
    /\ closed' = closed \cup {task[w]}
    /\ UNCHANGED <<mainVars, poolVars, task, proc, exitCode, ended, reported, sigVars>>

(***************************************************************************)
(* A signal for the process: SetInterruptedFlag runs in a thread that does *)
(* not block it.  The build loop blocks it except in ppoll; a worker only  *)
(* while it starts or reaps a subprocess.                                  *)
(***************************************************************************)
Signal ==
    /\ signals < MaxSignals
    /\ pc \in {"wait", "poll", "ready", "moved", "eintr"}
    /\ signals' = signals + 1 /\ interrupted' = TRUE
    /\ \/ pc = "poll" /\ pc' = "eintr" /\ UNCHANGED wpc
       \/ /\ UNCHANGED pc
          /\ \E w \in Worker :
               \/ wpc[w] \in {"check", "asleep", "take", "execute"} /\ UNCHANGED wpc
               \/ wpc[w] = "poll" /\ wpc' = [wpc EXCEPT ![w] = "eintr"]
    /\ UNCHANGED <<round, aborted, running, finished, polled, poolVars, task, procVars>>

BuildLoop ==
    \/ Create \/ Notify \/ WaitForCommand \/ NextFinished
    \/ DoWork \/ PollReturns \/ OnPipesReady \/ ReadFlag
    \/ BuildError \/ Abort \/ Finished \/ Shutdown \/ NotifyStop \/ Join
    \/ \E p \in Proc : Add(p)

WorkerThread(w) ==
    /\ pc # "crashed"
    /\ \/ Check(w) \/ Take(w) \/ Spawn(w) \/ WorkerReadsFlag(w) \/ Close(w) \/ Crash(w)
       \/ \E code \in Codes(task[w]) : ExecuteRemotely(w, code) \/ ExecuteLocally(w, code)

Next == BuildLoop \/ Signal \/ \E w \in Worker : WorkerThread(w)

\* Every thread is scheduled, and every command ends; the user need do nothing.
Spec ==
    /\ Init /\ [][Next]_vars
    /\ WF_vars(BuildLoop) /\ \A w \in Worker : WF_vars(WorkerThread(w))

-----------------------------------------------------------------------------
(***************************************************************************)
(* Properties.                                                             *)
(***************************************************************************)
TypeOK ==
    /\ pc \in {"create", "loop", "notify", "wait", "poll", "ready", "moved",
               "eintr", "abort", "shutdown", "stop", "join", "over", "crashed"}
    /\ pool \in {"none", "live", "freed"}
    /\ waiting \in Seq(Proc) /\ finished \in Seq(Proc)
    /\ running \subseteq Proc /\ polled \subseteq Proc
    /\ wpc \in [Worker -> {"none", "check", "asleep", "take", "exited"} \cup Executing]
    /\ task \in [Worker -> Proc \cup {"none"}]
    /\ \A w \in Worker : wpc[w] \in Executing => task[w] \in Proc
    /\ proc \in [Proc -> {"new", "made", "deleted"}] /\ closed \subseteq Proc
    /\ exitCode \in [Proc -> {-1, 0, 1}] /\ ended \in [Proc -> {-1, 0, 1}]
    /\ reported \in [Proc -> {"none", "success", "failure"}]
    /\ aborted \in BOOLEAN /\ shutting \in BOOLEAN /\ interrupted \in BOOLEAN
    /\ signals \in Nat /\ signals <= MaxSignals /\ round \in Nat /\ round <= Rounds

\* No worker sleeps while a task waits, although AddTask wakes workers only when
\* the queue was empty: -j commands really run at once (RBThreadPoolImpl::AddTask).
NoSleeperWhenWaiting ==
    waiting # <<>> /\ pc \notin {"notify", "crashed"} => \A w \in Worker : wpc[w] # "asleep"

\* A task is taken by one worker at most, and by none while it waits, and once
\* the pipe of a process is closed nobody works on it any more: only then may the
\* build loop delete it (WorkerThreadLoop, Execute).
OneWorkerPerTask ==
    /\ \A v, w \in Worker :
         wpc[v] \in Executing /\ wpc[w] \in Executing /\ task[v] = task[w] => v = w
    /\ \A i, j \in DOMAIN waiting : waiting[i] = waiting[j] => i = j
    /\ \A w \in Worker : wpc[w] \in Executing => task[w] \notin Range(waiting) \cup closed
    /\ closed \cap Range(waiting) = {}

\* What the build is told of a command that ran remotely is how it ended: the
\* exit code is written before the pipe is closed and read after
\* (ExecutionContext::Execute, RemoteProcess::Finish).
RemoteOutcomeReported ==
    \A p \in Proc \ Local : reported[p] # "none" =>
      reported[p] = IF ended[p] = 0 THEN "success" ELSE "failure"

\* What the build was told of is in nobody's hands, also when signals and errors
\* come: its process is deleted (CloudCommandRunner::WaitForCommand).  A worker
\* uses a deleted process only after Clear, in a build that gives up; and only
\* then has the pool tasks left when it is shut down.
NoUseAfterDelete ==
    /\ \A w \in Worker : wpc[w] \in Executing =>
         /\ reported[task[w]] = "none"
         /\ proc[task[w]] = "deleted" => aborted
    /\ shutting /\ ~aborted =>
         waiting = <<>> /\ \A w \in Worker : wpc[w] \notin Executing

\* thread_pool.h: "it should be freed manually when all tasks finished".
FreedWhenFinished ==
    shutting => waiting = <<>> /\ \A w \in Worker : wpc[w] \notin Executing

\* thread_pool.h: "Create or get a singleton thread pool for remote build": what
\* a runner gets is a pool that can run its commands.
PoolIsLive == pc = "loop" => pool = "live"

\* subprocess.h: Finish returns "ExitSuccess on successful process exit": also a
\* command that runs locally is reported to have succeeded only if it did.
FailureReported ==
    \A p \in Proc : reported[p] = "success" => ended[p] = 0

\* With OneWorkerPerTask, what RemoteOutcomeReported rests on: a process is in
\* nobody's hands before it is made, a pipe is closed by a worker alone, and from
\* the moment a worker is about to close it the exit code stands.
OutcomeInv ==
    /\ \A p \in Proc : proc[p] = "new" =>
         /\ p \notin Range(waiting) \cup closed \cup running
         /\ \A w \in Worker : wpc[w] \in Executing => task[w] # p
    /\ \A w \in Worker : wpc[w] \in {"spawn", "poll", "eintr"} => task[w] \in Local
    /\ polled \subseteq closed /\ Range(finished) \subseteq closed
    /\ \A w \in Worker : wpc[w] = "done" /\ task[w] \notin Local =>
         exitCode[task[w]] = ended[task[w]]
    /\ \A p \in closed \ Local : exitCode[p] = ended[p]
    /\ \A p \in Proc : reported[p] # "none" =>
         /\ p \in closed
         /\ reported[p] = IF exitCode[p] = 0 THEN "success" ELSE "failure"

\* Every command that is started is reported to the build, whichever worker it
\* had to wait for, unless the build gives up or a signal has left its pipe open
\* (CloudCommandRunner::WaitForCommand).
EveryCommandReported ==
    \A p \in Proc : proc[p] = "made" ~> reported[p] # "none" \/ aborted \/ signals > 0

\* The pool is always joined: no worker misses shutting_down_ (~RBThreadPoolImpl);
\* unless ninja has crashed.
PoolJoined == pc = "shutdown" ~> pc \in {"over", "crashed"}

\* The build gets to its end, its workers with it.
BuildGoesOn == EveryCommandReported /\ PoolJoined

\* build.h: "Wait for a command to complete, or return false if interrupted."
InterruptReturns == signals > 0 ~> pc \in {"abort", "shutdown", "stop", "join", "over"}
=============================================================================
