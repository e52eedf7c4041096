------------------------------- MODULE Subprocs -------------------------------
(***************************************************************************)
(* What RealCommandRunner runs its commands on: SubprocessSet and          *)
(* Subprocess (subprocess-posix.cc), in the one thread of ninja; the       *)
(* commands' processes, their pipes and process groups; and the user's     *)
(* interrupt, which ninja keeps blocked except inside ppoll.               *)
(*                                                                         *)
(* A command may close its output before it ends, and may leave a process  *)
(* behind that holds it open.  Output is counted in chunks of one read().  *)
(* The variant with pselect differs only in how the descriptors are passed.*)
(***************************************************************************)
EXTENDS Integers, Sequences, FiniteSets, SequencesExt

CONSTANTS
    Proc,       \* the commands
    Console,    \* those with use_console_: in ninja's process group, output not piped
    MayFail,    \* those that may end with another exit code than 0
    MaxOutput   \* bound on the chunks a command writes

VARIABLES
    pc,         \* ninja: the runner's methods, then ~SubprocessSet
    running,    \* running_, whose order does not matter here
    finished,   \* finished_
    ready,      \* descriptors with revents that DoWork has not handled yet
    interrupted,\* interrupted_
    pending,    \* an interrupt is pending, blocked by the signal mask
    fd,         \* Subprocesses whose fd_ is open
    readBuf,    \* buf_: chunks read
    child,      \* each command's process: new, alive, exited, reaped
    ended,      \* how it ended: success, failure or interrupted
    writers,    \* processes that hold the writing end of a pipe, per command
    written,    \* chunks written
    signalled,  \* commands whose process group was sent a signal
    sent,       \* history: the user has interrupted
    reported    \* history: status and output the build was told of

ninjaVars == <<pc, running, finished, ready, interrupted, fd, readBuf, reported>>
childVars == <<child, ended, writers, written>>
vars == <<ninjaVars, childVars, pending, signalled, sent>>

Unreported == [status |-> "none", output |-> 0]

Init ==
    /\ pc = "create" /\ running = {} /\ finished = <<>> /\ ready = {}
    /\ interrupted = FALSE /\ pending = FALSE
    /\ fd = {} /\ readBuf = [p \in Proc |-> 0]
    /\ child = [p \in Proc |-> "new"] /\ ended = [p \in Proc |-> "none"]
    /\ writers = [p \in Proc |-> {}] /\ written = [p \in Proc |-> 0]
    /\ signalled = {} /\ sent = FALSE
    /\ reported = [p \in Proc |-> Unreported]

-----------------------------------------------------------------------------
(***************************************************************************)
(* ninja.                                                                  *)
(***************************************************************************)
\* SubprocessSet(): the signals are blocked, and have a handler.
Create ==
    /\ pc = "create" /\ pc' = "loop"
    /\ UNCHANGED <<running, finished, ready, interrupted, fd, readBuf, reported,
                   childVars, pending, signalled, sent>>

\* Add and Start: a pipe and a process, in a group of its own if not on the
\* console; ninja closes its copy of the writing end.
Add(p) ==
    /\ pc = "loop" /\ child[p] = "new"
    /\ child' = [child EXCEPT ![p] = "alive"]
    /\ writers' = [writers EXCEPT ![p] = {"command"}]
    /\ fd' = fd \cup {p}
    /\ running' = running \cup {p}
    /\ UNCHANGED <<pc, finished, ready, interrupted, readBuf, reported,
                   ended, written, pending, signalled, sent>>

\* WaitForCommand, called when a command is pending.
WaitForCommand ==
    /\ pc = "loop" /\ running \cup ToSet(finished) # {}
    /\ pc' = "wait"
    /\ UNCHANGED <<running, finished, ready, interrupted, fd, readBuf, reported,
                   childVars, pending, signalled, sent>>

\* What ppoll finds ready: there is something to read, or no writer is left.
Ready == {p \in running : written[p] > readBuf[p] \/ writers[p] = {}}

\* A mutant: interrupted_ is reset after ppoll, when the handler has run.
PollAfterSignal ==
    /\ pc = "wait" /\ finished = <<>> /\ pending
    /\ pending' = FALSE
    /\ interrupted' = FALSE
    /\ UNCHANGED <<pc, running, finished, ready, fd, readBuf, reported, childVars, signalled, sent>>

\* DoWork: ppoll lets the signals in, the handler runs, and ppoll fails with
\* EINTR.  interrupted_ was reset just before, with the signals still blocked.
PollInterrupted ==
    /\ pc = "wait" /\ finished = <<>> /\ pending
    /\ pending' = FALSE
    /\ interrupted' = TRUE
    /\ pc' = "clear"
    /\ UNCHANGED <<running, finished, ready, fd, readBuf, reported, childVars, signalled, sent>>

\* DoWork: ppoll returns with descriptors, and the signals are blocked again.
PollReady ==
    /\ pc = "wait" /\ finished = <<>> /\ Ready # {}
    /\ interrupted' = FALSE
    /\ ready' = Ready
    /\ pc' = "pending"
    /\ UNCHANGED <<running, finished, fd, readBuf, reported, childVars, pending, signalled, sent>>

\* HandlePendingInterruption: a signal since then counts, and stays pending.
HandlePendingInterruption ==
    /\ pc = "pending"
    /\ interrupted' = pending
    /\ pc' = IF pending THEN "clear" ELSE "handle"
    /\ ready' = IF pending THEN {} ELSE ready
    /\ UNCHANGED <<running, finished, fd, readBuf, reported, childVars, pending, signalled, sent>>

\* A mutant: the end of the process is the end of its output.
ReadUntilExit(p) ==
    /\ pc = "handle" /\ p \in ready
    /\ ready' = ready \ {p}
    /\ IF child[p] = "alive" /\ written[p] > readBuf[p]
       THEN readBuf' = [readBuf EXCEPT ![p] = @ + 1] /\ UNCHANGED <<fd, running, finished>>
       ELSE /\ fd' = fd \ {p}
            /\ running' = running \ {p}
            /\ finished' = Append(finished, p)
            /\ UNCHANGED readBuf
    /\ UNCHANGED <<pc, interrupted, reported, childVars, pending, signalled, sent>>

\* The loop over running_: OnPipeReady reads once; at the end of the file the
\* descriptor is closed and the command is done.
OnPipeReady(p) ==
    /\ pc = "handle" /\ p \in ready
    /\ ready' = ready \ {p}
    /\ IF written[p] > readBuf[p]
       THEN readBuf' = [readBuf EXCEPT ![p] = @ + 1] /\ UNCHANGED <<fd, running, finished>>
       ELSE /\ fd' = fd \ {p}
            /\ running' = running \ {p}
            /\ finished' = Append(finished, p)
            /\ UNCHANGED readBuf
    /\ UNCHANGED <<pc, interrupted, reported, childVars, pending, signalled, sent>>

DoWorkReturns ==
    /\ pc = "handle" /\ ready = {}
    /\ pc' = "wait"
    /\ UNCHANGED <<running, finished, ready, interrupted, fd, readBuf, reported,
                   childVars, pending, signalled, sent>>

\* NextFinished and Finish, which waits for the process; the builder takes an
\* interrupted command for an interrupt of its own.
Report ==
    /\ pc = "wait" /\ finished # <<>>
    /\ LET p == Head(finished)
       IN  /\ child[p] = "exited"
           /\ child' = [child EXCEPT ![p] = "reaped"]
           /\ reported' = [reported EXCEPT ![p] = [status |-> ended[p], output |-> readBuf[p]]]
           /\ pc' = IF ended[p] = "interrupted" THEN "clear" ELSE "loop"
    /\ finished' = Tail(finished)
    /\ UNCHANGED <<running, ready, interrupted, fd, readBuf, ended, writers, written,
                   pending, signalled, sent>>

\* The build is done with its commands.
BuildEnds ==
    /\ pc = "loop" /\ running = {} /\ finished = <<>>
    /\ \A p \in Proc : child[p] # "new"
    /\ pc' = "clear"
    /\ UNCHANGED <<running, finished, ready, interrupted, fd, readBuf, reported,
                   childVars, pending, signalled, sent>>

\* Clear: the groups of the running commands get interrupted_ as their signal
\* (none, if a command said that it was interrupted); the console command
\* has had it from the terminal.
Clear ==
    /\ pc = "clear" /\ pc' = "delete"
    /\ signalled' = IF interrupted THEN signalled \cup (running \ Console) ELSE signalled
    /\ UNCHANGED <<running, finished, ready, interrupted, fd, readBuf, reported,
                   childVars, pending, sent>>

\* A mutant: commands are deleted without being waited for.
DeleteAtOnce(p) ==
    /\ pc = "delete" /\ p \in running
    /\ running' = running \ {p} /\ fd' = fd \ {p}
    /\ UNCHANGED <<pc, finished, ready, interrupted, readBuf, reported,
                   childVars, pending, signalled, sent>>

\* Clear deletes the running commands: ~Subprocess closes the pipe and waits.
Delete(p) ==
    /\ pc = "delete" /\ p \in running /\ child[p] = "exited"
    /\ child' = [child EXCEPT ![p] = "reaped"]
    /\ running' = running \ {p} /\ fd' = fd \ {p}
    /\ UNCHANGED <<pc, finished, ready, interrupted, readBuf, reported,
                   ended, writers, written, pending, signalled, sent>>

\* ~SubprocessSet: the handlers and the mask are as before, so that an interrupt
\* that is still pending ends ninja.
Destroy ==
    /\ pc = "delete" /\ running = {}
    /\ pc' = IF pending THEN "killed" ELSE "gone"
    /\ UNCHANGED <<running, finished, ready, interrupted, fd, readBuf, reported,
                   childVars, pending, signalled, sent>>

-----------------------------------------------------------------------------
(***************************************************************************)
(* The commands and the user.                                              *)
(***************************************************************************)
Write(p) ==
    /\ writers[p] # {} /\ p \notin Console /\ written[p] < MaxOutput
    /\ written' = [written EXCEPT ![p] = @ + 1]
    /\ UNCHANGED <<ninjaVars, child, ended, writers, pending, signalled, sent>>

CloseOutput(p) ==
    /\ child[p] = "alive" /\ p \notin Console
    /\ writers' = [writers EXCEPT ![p] = {}]
    /\ UNCHANGED <<ninjaVars, child, ended, written, pending, signalled, sent>>

\* The command ends, and may leave a process behind that holds its output.
Exit(p) ==
    /\ child[p] = "alive"
    /\ child' = [child EXCEPT ![p] = "exited"]
    /\ \E e \in {"success"} \cup (IF p \in MayFail THEN {"failure"} ELSE {})
                \cup (IF p \in signalled THEN {"interrupted"} ELSE {}) :
          ended' = [ended EXCEPT ![p] = e]
    /\ \E left \in {{}, IF p \in Console \/ writers[p] = {} THEN {} ELSE {"left behind"}} :
          writers' = [writers EXCEPT ![p] = left]
    /\ UNCHANGED <<ninjaVars, written, pending, signalled, sent>>

LeftBehindEnds(p) ==
    /\ child[p] \in {"exited", "reaped"} /\ writers[p] # {}
    /\ writers' = [writers EXCEPT ![p] = {}]
    /\ UNCHANGED <<ninjaVars, child, ended, written, pending, signalled, sent>>

\* The user interrupts: the terminal sends the signal to ninja's process group.
Interrupt ==
    /\ pc \notin {"create", "gone", "killed"} /\ ~sent
    /\ sent' = TRUE /\ pending' = TRUE
    /\ signalled' = signalled \cup {p \in Console : child[p] = "alive"}
    /\ UNCHANGED <<ninjaVars, childVars>>

Over == pc \in {"gone", "killed"} /\ UNCHANGED vars

Ninja == \/ Create \/ WaitForCommand \/ PollInterrupted \/ PollReady
         \/ HandlePendingInterruption \/ DoWorkReturns \/ Report
         \/ BuildEnds \/ Clear \/ Destroy
         \/ \E p \in Proc : Add(p) \/ OnPipeReady(p) \/ Delete(p)

Next == \/ Ninja \/ Interrupt \/ Over
        \/ \E p \in Proc : Write(p) \/ CloseOutput(p) \/ Exit(p) \/ LeftBehindEnds(p)

\* ninja runs, and every command and what it leaves behind ends at last.
Fairness == /\ WF_vars(Ninja)
            /\ \A p \in Proc : WF_vars(Exit(p)) /\ WF_vars(LeftBehindEnds(p))

Spec == Init /\ [][Next]_vars /\ Fairness

-----------------------------------------------------------------------------
(***************************************************************************)
(* Properties.                                                             *)
(***************************************************************************)
\* What the build is told of a command is how its process ended, and all of the
\* output, also what it, or what it left behind, wrote as it ended.
WholeResult ==
    \A p \in Proc : reported[p] # Unreported =>
        reported[p] = [status |-> ended[p], output |-> written[p]]

\* When the set is gone, no command it was running is alive or a zombie.  (Those
\* in finished_ are: Clear forgets them after a command that was interrupted.)
NoOrphans ==
    pc \in {"gone", "killed"} =>
        \A p \in Proc : child[p] \in {"new", "reaped"} \/ Contains(finished, p)

\* An interrupt is never lost: it ends the wait, or ninja itself.
InterruptHeard == sent ~> (interrupted \/ pc = "killed")
=============================================================================
