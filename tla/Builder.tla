------------------------------- MODULE Builder -------------------------------
(***************************************************************************)
(* Builder::Build (build.cc), the loop that asks the plan for work, starts *)
(* commands while the command runner has room, and reaps them.  One thread *)
(* runs the loop; beside it run the commands, which change their outputs   *)
(* and exit at any time, and the user, who may interrupt.                  *)
(*                                                                         *)
(* The command runners (RealCommandRunner, CloudCommandRunner and          *)
(* ShareCommandRunner) keep the same bookkeeping: a list of running        *)
(* commands, a queue of finished ones that only WaitForCommand fills, and  *)
(* a map from both to their edges.  They differ in CanRunMore.             *)
(***************************************************************************)
EXTENDS Plan, Sequences, Functions

CONSTANTS
    Runner,         \* "real" (and cloud, which counts alike) or "share"
    Parallelism,    \* config_.parallelism
    LoadLimited,    \* config_.max_load_average is set
    FailuresAllowed \* config_.failures_allowed, the -k option

ASSUME BuilderAssumption ==
    /\ Runner \in {"real", "share"}
    /\ Parallelism \in Nat \ {0} /\ FailuresAllowed \in Nat \ {0}
    /\ LoadLimited \in BOOLEAN

VARIABLES
    pc,       \* where the loop is
    capacity, \* how many more commands this round may start
    pending,  \* pending_commands
    allowed,  \* failures_allowed, counting down
    active,   \* the runner's running_: commands not known to have exited, in order
    exited,   \* the runner's finished_: <<edge, exit status>>
    toEdge,   \* the runner's subproc_to_edge_: edges GetActiveEdges returns
    disk,     \* an edge's outputs: "old", "touched", "built" or "removed"
    result    \* what Build returned, with the error message

loopVars    == <<pc, capacity, pending, allowed, result>>
runnerVars  == <<active, exited, toEdge>>
builderVars == <<planVars, loopVars, runnerVars, disk>>

Status == {"success", "failure", "interrupted"}

-----------------------------------------------------------------------------
(***************************************************************************)
(* CommandRunner::CanRunMore: the values it may return with commands run   *)
(* running, fin finished and rdy edges in the ready queue.  A limit on the *)
(* load may lower the count to anything.                                   *)
(***************************************************************************)
CanRunMore(run, fin, rdy) ==
    LET slots   == IF Runner = "share" THEN rdy ELSE Parallelism - (run + fin)
        counted == IF slots < 0 THEN 0 ELSE slots
        limited == IF LoadLimited /\ Runner = "real" THEN 0 .. counted ELSE {counted}
    IN  {IF c = 0 /\ run = 0 THEN 1 ELSE c : c \in limited}

QueueLength(q) == Cardinality(UNION {{e} \X (1 .. q[e]) : e \in Edge})

\* A mutant: a changed output goes only if the edge has a depfile.
RemovedWithDepfile(m) ==
    [e \in Edge |-> IF e \in m \cap HasDeps THEN "removed" ELSE disk[e]]

\* Builder::Cleanup when the runner's map is m: the commands are aborted and
\* the outputs that have changed go, or all those of an edge with a depfile.
Removed(m) ==
    [e \in Edge |-> IF e \in m /\ (disk[e] = "touched" \/ e \in HasDeps)
                    THEN "removed" ELSE disk[e]]
Abort == active' = <<>>

Return(r) == pc' = "returned" /\ result' = r

-----------------------------------------------------------------------------
BuilderInit ==
    /\ Init
    /\ pc = "prepare" /\ result = "none"
    /\ capacity = 0 /\ pending = 0 /\ allowed = FailuresAllowed
    /\ active = <<>> /\ exited = <<>> /\ toEdge = {}
    /\ disk = [e \in Edge |-> "old"]

Prepare ==
    /\ pc = "prepare" /\ pc' = "loop"
    /\ PrepareQueue
    /\ UNCHANGED <<capacity, pending, allowed, result, runnerVars, disk>>

\* A mutant: the number of failures is not looked at.
LoopIgnoresFailures ==
    /\ pc = "loop"
    /\ \/ ~MoreToDo /\ Return("ok") /\ UNCHANGED capacity
       \/ /\ MoreToDo
          /\ pc' = "start" /\ UNCHANGED result
          /\ capacity' \in CanRunMore(Len(active), Len(exited), QueueLength(ready))
    /\ UNCHANGED <<planVars, pending, allowed, runnerVars, disk>>

\* The head of the main loop, up to the inner one.
Loop ==
    /\ pc = "loop"
    /\ \/ ~MoreToDo /\ Return("ok") /\ UNCHANGED capacity
       \/ /\ MoreToDo /\ allowed > 0
          /\ pc' = "start" /\ UNCHANGED result
          /\ capacity' \in CanRunMore(Len(active), Len(exited), QueueLength(ready))
       \/ MoreToDo /\ allowed = 0 /\ pc' = "reap" /\ UNCHANGED <<capacity, result>>
    /\ UNCHANGED <<planVars, pending, allowed, runnerVars, disk>>

\* The inner loop starts a command; capacity is looked at again after it.
StartCommand(e) ==
    /\ pc = "start" /\ capacity > 0 /\ e \notin Phony
    /\ FindWork(e)
    /\ pending' = pending + 1
    /\ active' = Append(active, e) /\ toEdge' = toEdge \cup {e}
    /\ \E current \in CanRunMore(Len(active'), Len(exited), QueueLength(ready')) :
         capacity' = IF current < capacity - 1 THEN current ELSE capacity - 1
    /\ UNCHANGED <<pc, allowed, result, exited, disk>>

\* A directory, the response file or the process cannot be made.
StartFails(e) ==
    /\ pc = "start" /\ capacity > 0 /\ e \notin Phony
    /\ FindWork(e)
    /\ Abort /\ disk' = Removed(toEdge) /\ Return("error")
    /\ UNCHANGED <<capacity, pending, allowed, exited, toEdge>>

\* A phony edge is finished as soon as it is taken.
StartPhony(e) ==
    /\ pc = "start" /\ capacity > 0 /\ e \in Phony
    /\ FindWork(e)
    /\ pc' = "phony"
    /\ UNCHANGED <<capacity, pending, allowed, result, runnerVars, disk>>

FinishPhony(e) ==
    /\ pc = "phony" /\ e \in Phony
    /\ EdgeSucceeded(e, {}, {})
    /\ pc' = "start"
    /\ UNCHANGED <<capacity, pending, allowed, result, runnerVars, disk>>

\* Mutants: the build is over when nothing runs, and it never reaps.
StartDoneIdle ==
    /\ pc = "start"
    /\ capacity = 0 \/ \A e \in Edge : ready[e] = 0
    /\ IF pending = 0 THEN Return("ok") ELSE pc' = "reap" /\ UNCHANGED result
    /\ UNCHANGED <<planVars, capacity, pending, allowed, runnerVars, disk>>

StartDoneAgain ==
    /\ pc = "start"
    /\ capacity = 0 \/ \A e \in Edge : ready[e] = 0
    /\ pc' = "loop" /\ UNCHANGED result
    /\ UNCHANGED <<planVars, capacity, pending, allowed, runnerVars, disk>>

\* The inner loop ends: no room, or FindWork has nothing.
StartDone ==
    /\ pc = "start"
    /\ capacity = 0 \/ \A e \in Edge : ready[e] = 0
    /\ IF pending = 0 /\ ~MoreToDo THEN Return("ok")
                                   ELSE pc' = "reap" /\ UNCHANGED result
    /\ UNCHANGED <<planVars, capacity, pending, allowed, runnerVars, disk>>

-----------------------------------------------------------------------------
(***************************************************************************)
(* CommandRunner::WaitForCommand.                                          *)
(***************************************************************************)
\* A command writes to its outputs, whenever it likes.
CommandWrites(e) ==
    /\ e \in Range(active) /\ disk[e] = "old"
    /\ disk' = [disk EXCEPT ![e] = "touched"]
    /\ UNCHANGED <<planVars, loopVars, runnerVars>>

\* The commands of S in the order in which active has them.
InOrder(S) ==
    {s \in [1 .. Cardinality(S) -> S] : \A i, j \in DOMAIN s : i < j =>
       \E k, l \in DOMAIN active : k < l /\ active[k] = s[i] /\ active[l] = s[j]}

\* DoWork, when nothing is waiting to be reaped, moves the commands `done` that
\* have exited; it may find that the user has sent a signal.
DoWork(done) ==
    /\ pc = "reap" /\ pending > 0 /\ exited = <<>>
    /\ \E moved \in InOrder(done), status \in [done -> Status] :
         exited' = [i \in DOMAIN moved |-> <<moved[i], status[moved[i]]>>]
    /\ active' \in InOrder(Range(active) \ done)
    /\ pc' \in {"reap", "abort"}
    /\ UNCHANGED <<planVars, capacity, pending, allowed, result, toEdge, disk>>

\* NextFinished; the runner forgets the command before Build sees its status.
Reap(e, status) ==
    /\ pc = "reap" /\ pending > 0
    /\ exited # <<>> /\ Head(exited) = <<e, status>>
    /\ toEdge' = toEdge \ {e}

Popped == exited' = Tail(exited) /\ UNCHANGED active

\* The signal makes WaitForCommand return false.
Interrupt ==
    /\ pc = "abort"
    /\ Abort /\ disk' = Removed(toEdge) /\ Return("interrupted")
    /\ UNCHANGED <<planVars, capacity, pending, allowed, exited, toEdge>>

\* A command was itself ended by a signal.  Build cleans up after the runner
\* has dropped the edge from its map.
CommandInterrupted(e) ==
    /\ Reap(e, "interrupted") /\ exited' = Tail(exited)
    /\ Abort /\ disk' = Removed(toEdge') /\ Return("interrupted")
    /\ UNCHANGED <<planVars, capacity, pending, allowed>>

(***************************************************************************)
(* Builder::FinishCommand.  A command whose dependencies cannot be         *)
(* extracted counts as one that failed.                                    *)
(***************************************************************************)
FinishFailure(e) ==
    /\ Reap(e, "failure") /\ Popped
    /\ EdgeFailed(e)
    /\ pending' = pending - 1
    /\ allowed' = IF allowed > 0 THEN allowed - 1 ELSE 0
    /\ pc' = "loop"
    /\ UNCHANGED <<capacity, result, disk>>

\* A restat rule left all its outputs as they were if it touched none.
Finish(e, unchanged) ==
    /\ Reap(e, "success")
    /\ e \in Restat => (unchanged = outs[e] <=> disk[e] = "old")
    /\ EdgeSucceeded(e, unchanged, {})
    /\ pending' = pending - 1

FinishSuccess(e, unchanged) ==
    /\ Finish(e, unchanged) /\ Popped
    /\ pc' = "loop"
    /\ disk' = [disk EXCEPT ![e] = "built"]
    /\ UNCHANGED <<capacity, allowed, result>>

\* A log cannot be written: the plan has advanced, the build ends.
FinishError(e, unchanged) ==
    /\ Finish(e, unchanged) /\ exited' = Tail(exited) /\ Abort
    /\ disk' = [Removed(toEdge') EXCEPT ![e] = "built"]
    /\ Return("error")
    /\ UNCHANGED <<capacity, allowed>>

\* Nothing runs and nothing can be started.
NoProgress ==
    /\ pc = "reap" /\ pending = 0
    /\ Return(IF allowed = 0 THEN "failed"
              ELSE IF allowed < FailuresAllowed THEN "no progress" ELSE "stuck")
    /\ UNCHANGED <<planVars, capacity, pending, allowed, runnerVars, disk>>

BuilderNext ==
    \/ Prepare \/ Loop \/ StartDone \/ Interrupt \/ NoProgress
    \/ \E done \in SUBSET Range(active) : DoWork(done)
    \/ \E e \in Edge :
         \/ StartCommand(e) \/ StartFails(e) \/ StartPhony(e) \/ FinishPhony(e)
         \/ CommandWrites(e)
         \/ CommandInterrupted(e) \/ FinishFailure(e)
         \/ \E unchanged \in SUBSET outs[e] :
              FinishSuccess(e, unchanged) \/ FinishError(e, unchanged)

\* The loop runs, and every command ends at some time.
BuilderSpec ==
    /\ BuilderInit /\ [][BuilderNext]_builderVars
    /\ WF_builderVars(BuilderNext)

-----------------------------------------------------------------------------
(***************************************************************************)
(* Properties.                                                             *)
(***************************************************************************)
BuilderTypeOK ==
    /\ TypeOK
    /\ pc \in {"prepare", "loop", "start", "phony", "reap", "abort",
              "returned"}
    /\ capacity \in Nat /\ pending \in Nat /\ allowed \in 0 .. FailuresAllowed
    /\ active \in Seq(Edge) /\ toEdge \subseteq Edge
    /\ exited \in Seq(Edge \X Status)
    /\ disk \in [Edge -> {"old", "touched", "built", "removed"}]
    /\ result \in {"none", "ok", "error", "interrupted", "failed",
                   "no progress", "stuck"}

\* Build never reports its own "stuck [this is a bug]": if nothing runs and
\* nothing is ready, a command has failed (Builder::Build).
NeverStuck == result # "stuck"

\* A build that returns success has finished every edge its targets needed,
\* has seen no failure and leaves no command behind (Builder::Build, which
\* stops on counters of the plan alone).
SuccessMeansDone ==
    result = "ok" =>
      /\ \A e \in Edge : want[e] = "Absent"
      /\ failed = {} /\ active = <<>> /\ exited = <<>>

\* No more commands run, or wait to be reaped, than -j allows: capacity counts
\* both, and letting one more run when none does never exceeds it
\* (RealCommandRunner::CanRunMore).
ParallelismKept ==
    Runner = "real" => Len(active) + Len(exited) <= Parallelism

\* Once as many commands have failed as -k allows nothing more is started,
\* whatever becomes ready and however many failed commands were waiting to be
\* reaped (Builder::Build).
FailureBudget ==
    [][Cardinality(failed) >= FailuresAllowed => UNCHANGED starts]_builderVars

\* With budget left the build goes on to finish everything that does not need
\* a failed edge before it gives up (Builder::Build,
\* "cannot make progress due to previous errors").
KeepsGoing ==
    result = "no progress" =>
      \A e \in {f \in Edge : want[f] # "Absent"} :
        \/ e \in failed
        \/ \E f \in Producers(e) : want[f] # "Absent"

\* What Build returns is true of the plan and of the runner, success and the
\* reasons to give up alike.
ResultIsTrue == NeverStuck /\ SuccessMeansDone /\ KeepsGoing

\* When a build is cut short, by the user or by an error, the outputs of every
\* started command that did not finish are gone if it changed them: at most the
\* command that a signal ended itself is missed (Builder::Cleanup,
\* CommandRunner::GetActiveEdges).
CleanupCoversActive ==
    result \in {"interrupted", "error"} =>
      Cardinality({e \in Edge : running[e] > 0 /\ disk[e] = "touched"})
        <= IF result = "interrupted" THEN 1 ELSE 0

\* build_test.cc, InterruptCleanup: "A touched output of an interrupted command
\* should be deleted."  (Builder::Cleanup asks the runner which edges are active.)
InterruptDeletesTouched ==
    result = "interrupted" =>
      \A e \in Edge : running[e] > 0 => disk[e] # "touched"

\* What no step does: withdraw an edge that is held, or start a command when the
\* failures have reached their budget (Plan::CleanNode, Builder::Build).
StepsKept == CleanedNotHeld /\ FailureBudget

\* Every build returns, if its commands end (Builder::Build).
Terminates == <>(pc = "returned")
=============================================================================
