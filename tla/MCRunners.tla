------------------------------ MODULE MCRunners ------------------------------
(***************************************************************************)
(* The command runner Builder::Build makes when it is not given one and    *)
(* the build is not remote (build.cc): RealCommandRunner (Subprocs), or,   *)
(* for a share build, ShareCommandRunner (ShareThreads).  A build has one  *)
(* of them, so that a behaviour is about one of them.                      *)
(***************************************************************************)
EXTENDS Subprocs

CONSTANTS
    ShareCmd,       \* the commands of a share build
    ShareMayFail,   \* those whose call may fail
    Clients         \* and how many clients, queues and workers it has

VARIABLES
    runner,     \* the runner of this build
    hPc, nextClient, thread, exitCode, isDone, hRunning, hFinished, hInterrupted,
    hAborted, tasks, stop, destroyed, call, queueOf, worker, serving, current, answer, hReported

Share == INSTANCE ShareThreads WITH
    Cmd <- ShareCmd, MayFail <- ShareMayFail,
    pc <- hPc, running <- hRunning, finished <- hFinished,
    interrupted <- hInterrupted, aborted <- hAborted, reported <- hReported

ASSUME RunnersAssumption == Share!ShareAssumption

shareVars == <<hPc, nextClient, thread, exitCode, isDone, hRunning, hFinished, hInterrupted,
               hAborted, tasks, stop, destroyed, call, queueOf, worker, serving, current, answer, hReported>>
allVars == <<runner, vars, shareVars>>

\* A step of a runner is one of the build that has it.
ShareBuild == runner = "share" /\ UNCHANGED <<runner, vars>>
LocalBuild == runner = "local" /\ UNCHANGED <<runner, shareVars>>

MCInit == runner \in {"share", "local"} /\ Init /\ Share!Init

MCNext == \/ ShareBuild /\ Share!Next
          \/ LocalBuild /\ Next

\* The fairness of Subprocs and of ShareThreads, in the build that has them.
MCFairness ==
    /\ WF_allVars(LocalBuild /\ Ninja)
    /\ \A p \in Proc : /\ WF_allVars(LocalBuild /\ Exit(p))
                       /\ WF_allVars(LocalBuild /\ LeftBehindEnds(p))
    /\ WF_allVars(ShareBuild /\ Share!Main)
    /\ \A w \in Share!Worker : WF_allVars(ShareBuild /\ Share!Work(w))
    /\ \A c \in ShareCmd : WF_allVars(ShareBuild /\ Share!Answer(c))

MCSpec == MCInit /\ [][MCNext]_allVars /\ MCFairness

\* A share build is told of each command what the service answered
\* (ShareThread::Done).
AnswerReported == Share!AnswerReported

\* A callback of a share build stores into a ShareThread that lives, unless the build
\* has given up; and never into one that was reported (share_thread.cc:181 and 195).
StoresIntoLive == Share!StoresIntoLive

\* A share build's runner always comes to its end (~ShareThreadSet), unless it dies of
\* what it has deleted: no answer is lost between the workers and the polling loop; and an interrupt of a local build
\* is never lost: it ends the wait, or ninja itself (SubprocessSet::DoWork).
RunnerEnds == /\ runner = "share" => Share!RunnerGoes
              /\ runner = "local" => InterruptHeard
=============================================================================
