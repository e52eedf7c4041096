----------------------------- MODULE ShareThreads -----------------------------
(***************************************************************************)
(* What ShareCommandRunner runs its commands on: ShareThreadSet and        *)
(* RemoteCommandDispatcher (share_thread.cc, share_thread.h), the workers  *)
(* of ShareWorkerPool (share_worker.h) and the asynchronous client of the  *)
(* proxy service (proxy_service_client.cc).  The build loop issues a call  *)
(* for each command, and polls is_done_ of each without a lock or an       *)
(* atomic; a worker waits for answers on the completion queue of one       *)
(* client and stores the result in the command.                            *)
(*                                                                         *)
(* Two races are left out, so that the rest can be examined: an answer     *)
(* comes after AsyncExecute has returned (the callback is set only after   *)
(* the call was handed over, proxy_service_client.cc:108), and the three   *)
(* stores of SetResult become visible in the order they are written in.    *)
(* What a command prints is left out.                                      *)
(***************************************************************************)
EXTENDS Integers, Sequences, FiniteSets, SequencesExt

CONSTANTS
    Cmd,        \* the commands of the build, one ShareThread each
    Clients,    \* thread_count: how many clients, queues and workers are made
    MayFail     \* commands whose call may fail, or be refused by the service

\* What the code takes for granted of them.
ShareAssumption ==
    /\ IsFiniteSet(Cmd) /\ MayFail \subseteq Cmd
    /\ Clients \in Nat \ {0}

VARIABLES
    pc,         \* the build loop: the runner's methods, then its destruction
    nextClient, \* next_client_
    thread,     \* each ShareThread: not made yet, there, or deleted
    exitCode,   \* exit_code_
    isDone,     \* is_done_
    running,    \* running_
    finished,   \* finished_
    interrupted,\* interrupted_, never reset
    aborted,    \* Build gives up: it has called, or is about to call, Cleanup
    tasks,      \* tasks_ of the pool: the clients whose queue nobody serves yet
    stop,       \* stop_
    destroyed,  \* which of async_clients_ and cqs_ are destroyed
    call,       \* each call: none, at the service, on its client's queue, taken, gone
    queueOf,    \* the client a call was issued through
    worker,     \* each worker: idle, or where it is in ProcessQueue, or exited
    serving,    \* the client a worker serves
    current,    \* the call a worker has taken
    answer,     \* history: how the service answered
    reported    \* history: what the build was told

mainVars   == <<pc, nextClient, running, finished>>
threadVars == <<thread, exitCode, isDone>>
poolVars   == <<tasks, stop, destroyed>>
callVars   == <<call, queueOf, answer>>
workVars   == <<worker, serving, current>>
sigVars    == <<interrupted, aborted>>
vars == <<mainVars, threadVars, poolVars, callVars, workVars, sigVars, reported>>

NoCmd == "none"

\* Indices of async_clients_ and cqs_, and of the workers of the pool.
Client == 0 .. Clients - 1
Worker == Client

Init ==
    /\ pc = "create" /\ nextClient = 0
    /\ thread = [c \in Cmd |-> "new"]
    /\ exitCode = [c \in Cmd |-> -1] /\ isDone = [c \in Cmd |-> FALSE]
    /\ running = <<>> /\ finished = <<>> /\ interrupted = FALSE /\ aborted = FALSE
    /\ tasks = <<>> /\ stop = FALSE /\ destroyed = {}
    /\ call = [c \in Cmd |-> "none"] /\ queueOf = [c \in Cmd |-> 0]
    /\ worker = [w \in Worker |-> "idle"] /\ serving = [w \in Worker |-> 0]
    /\ current = [w \in Worker |-> NoCmd]
    /\ answer = [c \in Cmd |-> "none"] /\ reported = [c \in Cmd |-> "none"]

-----------------------------------------------------------------------------
(***************************************************************************)
(* The build loop.                                                         *)
(***************************************************************************)
\* RemoteCommandDispatcher(): a client, its queue, and a task that serves it;
\* after the last one ShareThreadSet() installs its signal handlers.
CreateClient ==
    /\ pc = "create"
    /\ tasks' = Append(tasks, nextClient)
    /\ IF nextClient + 1 \in Client
       THEN nextClient' = nextClient + 1 /\ pc' = "create"
       ELSE nextClient' = 0 /\ pc' = "loop"
    /\ UNCHANGED <<running, finished, threadVars, stop, destroyed, callVars, workVars, sigVars, reported>>

\* Add, Start, SendCommand and AsyncExecute: the clients take turns.
Add(c) ==
    /\ pc = "loop" /\ thread[c] = "new"
    /\ thread' = [thread EXCEPT ![c] = "made"]
    /\ running' = Append(running, c)
    /\ call' = [call EXCEPT ![c] = "issued"]
    /\ queueOf' = [queueOf EXCEPT ![c] = nextClient]
    /\ nextClient' = (nextClient + 1) % Clients
    /\ UNCHANGED <<pc, finished, exitCode, isDone, poolVars, answer, workVars, sigVars, reported>>

\* WaitForCommand, called when a command is pending.
WaitForCommand ==
    /\ pc = "loop" /\ \E c \in Cmd : thread[c] = "made"
    /\ pc' = "wait"
    /\ UNCHANGED <<nextClient, running, finished, threadVars, poolVars, callVars, workVars, sigVars, reported>>

\* ShareThread::Finish.
Finish(c) == IF exitCode[c] = 0 THEN "success" ELSE "failure"

\* NextFinished returns a command, and WaitForCommand its result.
Report ==
    /\ pc = "wait" /\ finished # <<>>
    /\ LET c == Head(finished)
       IN  /\ reported' = [reported EXCEPT ![c] = Finish(c)]
           /\ thread' = [thread EXCEPT ![c] = "deleted"]
    /\ finished' = Tail(finished)
    /\ pc' = "loop"
    /\ UNCHANGED <<nextClient, running, exitCode, isDone, poolVars, callVars, workVars, sigVars>>

\* A mutant: a command is done as soon as its exit code is stored.
DoneByCode(c) == isDone[c] \/ exitCode[c] # -1

\* ShareThread::Done.
Done(c) == isDone[c]

\* The elements of s that are in S, in their order.
Selected(s, S) ==
    LET upTo[i \in 0 .. Len(s)] ==
            IF i = 0 THEN <<>>
            ELSE IF s[i] \in S THEN Append(upTo[i - 1], s[i]) ELSE upTo[i - 1]
    IN  upTo[Len(s)]

\* DoWork: the done commands move from running_ to finished_.  A signal that
\* came, in whichever thread, ends the wait, and the build.
DoWork ==
    /\ pc = "wait" /\ finished = <<>>
    /\ finished' = Selected(running, {c \in Cmd : Done(c)})
    /\ running' = Selected(running, {c \in Cmd : ~Done(c)})
    /\ pc' = IF interrupted THEN "clear" ELSE "wait"
    /\ aborted' = (aborted \/ interrupted)
    /\ UNCHANGED <<nextClient, threadVars, poolVars, callVars, workVars, interrupted, reported>>

\* Builder::Build gives up, whatever is running: StartEdge, the EdgeFinished of a
\* phony edge or FinishCommand has failed.
BuildError ==
    /\ pc = "loop" /\ pc' = "clear" /\ aborted' = TRUE
    /\ UNCHANGED <<nextClient, running, finished, threadVars, poolVars, callVars, workVars, interrupted, reported>>

\* The build is done with its commands.
BuildEnds ==
    /\ pc = "loop" /\ \A c \in Cmd : thread[c] # "made"
    /\ pc' = "clear"
    /\ UNCHANGED <<nextClient, running, finished, threadVars, poolVars, callVars, workVars, sigVars, reported>>

\* Clear, from Abort and again from ~ShareThreadSet: the commands in running_
\* are deleted, whoever may still hold a pointer to them.  (pid_ is always -1,
\* so that its kill goes to process 1.)
Clear ==
    /\ pc = "clear"
    /\ thread' = [c \in Cmd |-> IF Contains(running, c) THEN "deleted" ELSE thread[c]]
    /\ running' = <<>>
    /\ pc' = "clients"
    /\ UNCHANGED <<nextClient, finished, exitCode, isDone, poolVars, callVars, workVars, sigVars, reported>>

\* ~RemoteCommandDispatcher destroys its members in the reverse of their order:
\* the clients, while workers may be in ProcessQueue of them, ...
DestroyClients ==
    /\ pc = "clients" /\ pc' = "queues"
    /\ destroyed' = {"clients"}
    /\ UNCHANGED <<nextClient, running, finished, threadVars, tasks, stop, callVars, workVars, sigVars, reported>>

\* ... the completion queues, which shuts them down, ...
DestroyQueues ==
    /\ pc = "queues" /\ pc' = "pool"
    /\ destroyed' = {"clients", "queues"}
    /\ UNCHANGED <<nextClient, running, finished, threadVars, tasks, stop, callVars, workVars, sigVars, reported>>

\* ... and last ShareWorkerPool, which tells the workers to stop and joins them.
StopPool ==
    /\ pc = "pool" /\ pc' = "join"
    /\ stop' = TRUE
    /\ UNCHANGED <<nextClient, running, finished, threadVars, tasks, destroyed, callVars, workVars, sigVars, reported>>

Join ==
    /\ pc = "join" /\ \A w \in Worker : worker[w] = "exited"
    /\ pc' = "gone"
    /\ UNCHANGED <<nextClient, running, finished, threadVars, poolVars, callVars, workVars, sigVars, reported>>

-----------------------------------------------------------------------------
(***************************************************************************)
(* The workers.                                                            *)
(***************************************************************************)
\* A worker of ShareWorkerPool takes a task: ProcessQueue of one client.
TakeTask(w) ==
    /\ worker[w] = "idle" /\ tasks # <<>>
    /\ serving' = [serving EXCEPT ![w] = Head(tasks)]
    /\ tasks' = Tail(tasks)
    /\ worker' = [worker EXCEPT ![w] = "next"]
    /\ UNCHANGED <<mainVars, threadVars, stop, destroyed, callVars, current, sigVars, reported>>

\* A worker leaves when the pool stops and has no task left.
Exit(w) ==
    /\ worker[w] = "idle" /\ stop /\ tasks = <<>>
    /\ worker' = [worker EXCEPT ![w] = "exited"]
    /\ UNCHANGED <<mainVars, threadVars, poolVars, callVars, serving, current, sigVars, reported>>

\* ProcessQueue: Next returns the tag of a call that was answered.
NextCall(w, c) ==
    /\ worker[w] = "next" /\ call[c] = "answered" /\ queueOf[c] = serving[w]
    /\ call' = [call EXCEPT ![c] = "taken"]
    /\ current' = [current EXCEPT ![w] = c]
    /\ worker' = [worker EXCEPT ![w] = "callback"]
    /\ UNCHANGED <<mainVars, threadVars, poolVars, queueOf, answer, serving, sigVars, reported>>

\* Next returns false: the queue is shut down, and has no call left.
NextShutdown(w) ==
    /\ worker[w] = "next" /\ "queues" \in destroyed
    /\ \A c \in Cmd : queueOf[c] = serving[w] => call[c] \notin {"issued", "answered"}
    /\ worker' = [worker EXCEPT ![w] = "idle"]
    /\ UNCHANGED <<mainVars, threadVars, poolVars, callVars, serving, current, sigVars, reported>>

\* A mutant: SetResult says that it is done before it stores the exit code.
DoneFirst(w) ==
    LET c == current[w]
    IN  /\ worker[w] = "callback"
        /\ isDone' = [isDone EXCEPT ![c] = TRUE]
        /\ worker' = [worker EXCEPT ![w] = "stored"]
        /\ UNCHANGED <<mainVars, thread, exitCode, poolVars, callVars, serving, current, sigVars, reported>>

\* The callback of SendCommand: SetResult stores the exit code and the output.
StoreResult(w) ==
    LET c == current[w]
    IN  /\ worker[w] = "callback"
        /\ exitCode' = [exitCode EXCEPT ![c] = IF answer[c] = "ok" THEN 0 ELSE -1]
        /\ worker' = [worker EXCEPT ![w] = "stored"]
        /\ UNCHANGED <<mainVars, thread, isDone, poolVars, callVars, serving, current, sigVars, reported>>

\* SetResult says that it is done.
StoreDone(w) ==
    LET c == current[w]
    IN  /\ worker[w] = "stored"
        /\ isDone' = [isDone EXCEPT ![c] = TRUE]
        /\ worker' = [worker EXCEPT ![w] = "back"]
        /\ UNCHANGED <<mainVars, thread, exitCode, poolVars, callVars, serving, current, sigVars, reported>>

\* ProcessQueue deletes the call, reads cq_ again and is back in Next.
GoBack(w) ==
    LET c == current[w]
    IN  /\ worker[w] = "back"
        /\ call' = [call EXCEPT ![c] = "gone"]
        /\ current' = [current EXCEPT ![w] = NoCmd]
        /\ worker' = [worker EXCEPT ![w] = "next"]
        /\ UNCHANGED <<mainVars, threadVars, poolVars, queueOf, answer, serving, sigVars, reported>>

\* What the next step of w touches has been deleted: the command it stores into, or
\* the client whose ProcessQueue it starts or goes on with.
TouchesFreed(w) ==
    \/ worker[w] \in {"callback", "stored"} /\ thread[current[w]] = "deleted"
    \/ /\ "clients" \in destroyed
       /\ \/ worker[w] = "back"
          \/ worker[w] = "idle" /\ tasks # <<>>

\* Then it is undefined what happens: ninja may crash, or the step is as it would have
\* been (the other actions).
Crash(w) ==
    /\ TouchesFreed(w)
    /\ pc' = "crashed"
    /\ UNCHANGED <<nextClient, running, finished, threadVars, poolVars, callVars, workVars, sigVars, reported>>

-----------------------------------------------------------------------------
(***************************************************************************)
(* The proxy service, and the user.                                        *)
(***************************************************************************)
\* The call is answered: it succeeded, or it failed or was refused.
Answer(c) ==
    /\ pc # "crashed" /\ call[c] = "issued"
    /\ call' = [call EXCEPT ![c] = "answered"]
    /\ \E a \in IF c \in MayFail THEN {"ok", "failed"} ELSE {"ok"} :
          answer' = [answer EXCEPT ![c] = a]
    /\ UNCHANGED <<mainVars, threadVars, poolVars, queueOf, workVars, sigVars, reported>>

\* The handler runs in a worker, since the workers were made before the main
\* thread blocked the signals.
Signal ==
    /\ pc \in {"loop", "wait"} /\ ~interrupted
    /\ interrupted' = TRUE
    /\ UNCHANGED <<mainVars, threadVars, poolVars, callVars, workVars, aborted, reported>>

Terminated == pc \in {"gone", "crashed"} /\ UNCHANGED vars

Main == \/ CreateClient \/ WaitForCommand \/ Report \/ DoWork
        \/ BuildError \/ BuildEnds \/ Clear
        \/ DestroyClients \/ DestroyQueues \/ StopPool \/ Join
        \/ \E c \in Cmd : Add(c)

Work(w) ==
    /\ pc # "crashed"
    /\ \/ TakeTask(w) \/ Exit(w) \/ NextShutdown(w)
       \/ StoreResult(w) \/ StoreDone(w) \/ GoBack(w) \/ Crash(w)
       \/ \E c \in Cmd : NextCall(w, c)

Next == \/ Main \/ Signal \/ Terminated
        \/ \E w \in Worker : Work(w)
        \/ \E c \in Cmd : Answer(c)

\* Each thread runs, and the service answers every call: the call has no
\* deadline, and a connection that is lost fails it.
Fairness == /\ WF_vars(Main)
            /\ \A w \in Worker : WF_vars(Work(w))
            /\ \A c \in Cmd : WF_vars(Answer(c))

Spec == Init /\ [][Next]_vars /\ Fairness

-----------------------------------------------------------------------------
(***************************************************************************)
(* Properties.                                                             *)
(***************************************************************************)
\* What the build is told of a command is what the service answered: polling
\* is_done_ without a lock (ShareThread::Done) sees no result half stored.
AnswerReported ==
    \A c \in Cmd : reported[c] # "none" =>
        reported[c] = (IF answer[c] = "ok" THEN "success" ELSE "failure")

\* A callback stores into a ShareThread that lives, unless the build has given up,
\* after a signal or an error; and in no case into one whose result the build has had
\* (share_thread.cc:181 and 195).
StoresIntoLive ==
    \A w \in Worker : worker[w] \in {"callback", "stored"} =>
        /\ reported[current[w]] = "none"
        /\ thread[current[w]] = "deleted" => aborted

\* The clients outlive the workers that use them (~RemoteCommandDispatcher): they do not.
NoFreedTouched == \A w \in Worker : ~TouchesFreed(w)

\* The runner always comes to its end: no answer is lost between the workers and the
\* polling loop, a signal ends the wait, the queues are drained and every worker is
\* joined; unless a worker has crashed ninja on the way (TouchesFreed).
RunnerGoes == <>(pc \in {"gone", "crashed"})
=============================================================================
