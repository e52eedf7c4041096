---------------------------- MODULE RemoteProofs ----------------------------
(***************************************************************************)
(* Proofs about RemoteProcs for any number of commands, workers, signals   *)
(* and runners: no worker sleeps through a task, a task is worked on once, *)
(* and what the build is told of a remote command is how it ended.         *)
(***************************************************************************)
EXTENDS RemoteProcs, SequenceTheorems, FiniteSetTheorems, TLAPS

LEMMA RangeEmpty == Range(<<>>) = {}
  BY DEF Range

LEMMA RangeAppend ==
    ASSUME NEW S, NEW s \in Seq(S), NEW x \in S
    PROVE  Range(Append(s, x)) = Range(s) \cup {x}
<1>1. \A i \in 1 .. Len(s) : Append(s, x)[i] = s[i]
  OBVIOUS
<1>2. Append(s, x)[Len(s) + 1] = x
  OBVIOUS
<1>3. DOMAIN Append(s, x) = (1 .. Len(s)) \cup {Len(s) + 1} /\ DOMAIN s = 1 .. Len(s)
  OBVIOUS
<1> QED
  BY <1>1, <1>2, <1>3 DEF Range

LEMMA RangeTail ==
    ASSUME NEW S, NEW s \in Seq(S), s # <<>>
    PROVE  /\ Tail(s) \in Seq(S) /\ Head(s) \in S
           /\ DOMAIN Tail(s) = 1 .. Len(s) - 1 /\ DOMAIN s = 1 .. Len(s)
           /\ Head(s) = s[1] /\ 1 \in DOMAIN s
           /\ \A i \in DOMAIN Tail(s) : Tail(s)[i] = s[i + 1] /\ i + 1 \in DOMAIN s
           /\ Range(Tail(s)) \subseteq Range(s) /\ Head(s) \in Range(s)
<1>1. /\ Tail(s) \in Seq(S) /\ Head(s) \in S /\ Head(s) = s[1]
      /\ Len(s) \in Nat \ {0} /\ Len(Tail(s)) = Len(s) - 1
  OBVIOUS
<1>2. DOMAIN Tail(s) = 1 .. Len(s) - 1 /\ DOMAIN s = 1 .. Len(s) /\ 1 \in DOMAIN s
  BY <1>1
<1>3. \A i \in DOMAIN Tail(s) : Tail(s)[i] = s[i + 1] /\ i + 1 \in DOMAIN s
  BY <1>1, <1>2
<1>4. Range(Tail(s)) \subseteq Range(s) /\ Head(s) \in Range(s)
  BY <1>1, <1>2, <1>3 DEF Range
<1> QED
  BY <1>1, <1>2, <1>3, <1>4

LEMMA RangeConcat ==
    ASSUME NEW S, NEW s \in Seq(S), NEW t \in Seq(S)
    PROVE  s \o t \in Seq(S) /\ Range(s \o t) \subseteq Range(s) \cup Range(t)
<1>1. s \o t \in Seq(S)
  OBVIOUS
<1>2. ASSUME NEW i \in DOMAIN (s \o t)
      PROVE  (s \o t)[i] \in Range(s) \cup Range(t)
  <2>1. i \in 1 .. Len(s) + Len(t)
    OBVIOUS
  <2>2. CASE i <= Len(s)
    BY <2>1, <2>2 DEF Range
  <2>3. CASE i > Len(s)
    <3>1. i - Len(s) \in DOMAIN t /\ (s \o t)[i] = t[i - Len(s)]
      BY <2>1, <2>3
    <3> QED
      BY <3>1 DEF Range
  <2> QED
    BY <2>1, <2>2, <2>3
<1> QED
  BY <1>1, <1>2 DEF Range

-----------------------------------------------------------------------------
(***************************************************************************)
(* Type correctness.                                                       *)
(***************************************************************************)
LEMMA TypeInit == Init => TypeOK
<1> SUFFICES ASSUME Init  PROVE TypeOK
  OBVIOUS
<1>1. waiting \in Seq(Proc) /\ finished \in Seq(Proc)
  BY DEF Init
<1>2. wpc \in [Worker -> {"none", "check", "asleep", "take", "exited"} \cup Executing]
  BY DEF Init
<1>3. \A w \in Worker : wpc[w] = "none"
  BY DEF Init
<1>4. exitCode \in [Proc -> {-1, 0, 1}] /\ ended \in [Proc -> {-1, 0, 1}]
  BY DEF Init
<1>5. signals \in Nat /\ signals <= MaxSignals /\ round \in Nat /\ round <= Rounds
  BY RemoteAssumption DEF Init, RemoteAssumption
<1> QED
  BY <1>1, <1>2, <1>3, <1>4, <1>5 DEF Init, TypeOK, Executing

LEMMA MovedType ==
    ASSUME TypeOK, NEW done \in [1 .. Cardinality(polled) -> polled]
    PROVE  done \in Seq(Proc) /\ Range(done) \subseteq polled
<1>1. polled \subseteq Proc /\ IsFiniteSet(Proc)
  BY RemoteAssumption DEF TypeOK, RemoteAssumption
<1>2. Cardinality(polled) \in Nat
  BY <1>1, FS_Subset, FS_CardinalityType
<1>3. done \in [1 .. Cardinality(polled) -> Proc]
  BY <1>1
<1>4. done \in Seq(Proc)
  BY <1>2, <1>3
<1> QED
  BY <1>4 DEF Range

LEMMA TypeStep == TypeOK /\ [Next]_vars => TypeOK'
<1> SUFFICES ASSUME TypeOK, [Next]_vars  PROVE TypeOK'
  OBVIOUS
<1> USE DEF Executing, NotifyAll, mainVars, poolVars, workerVars, procVars, sigVars
<1>1. CASE Create \/ Notify \/ NotifyStop \/ Shutdown
  <2>1. CASE Create
    BY <2>1 DEF Create, TypeOK
  <2>2. CASE Notify
    BY <2>2 DEF Notify, TypeOK
  <2>3. CASE NotifyStop
    BY <2>3 DEF NotifyStop, TypeOK
  <2>4. CASE Shutdown
    BY <2>4 DEF Shutdown, TypeOK
  <2> QED
    BY <1>1, <2>1, <2>2, <2>3, <2>4
<1>2. ASSUME NEW p \in Proc, Add(p)  PROVE TypeOK'
  BY <1>2 DEF Add, TypeOK
<1>3. CASE WaitForCommand \/ DoWork \/ PollReturns \/ ReadFlag \/ Finished \/ BuildError
  <2>1. CASE WaitForCommand
    BY <2>1 DEF WaitForCommand, TypeOK
  <2>2. CASE DoWork
    BY <2>2 DEF DoWork, TypeOK
  <2>3. CASE PollReturns
    BY <2>3 DEF PollReturns, TypeOK
  <2>4. CASE ReadFlag
    BY <2>4 DEF ReadFlag, TypeOK
  <2>5. CASE Finished
    BY <2>5 DEF Finished, TypeOK
  <2>6. CASE BuildError
    BY <2>6 DEF BuildError, TypeOK
  <2> QED
    BY <1>3, <2>1, <2>2, <2>3, <2>4, <2>5, <2>6
<1>4. CASE NextFinished
  <2>1. Head(finished) \in Proc /\ Tail(finished) \in Seq(Proc)
    BY <1>4, RangeTail DEF NextFinished, TypeOK
  <2> QED
    BY <1>4, <2>1 DEF NextFinished, TypeOK
<1>5. CASE OnPipesReady
  <2>1. finished' \in Seq(Proc) /\ running' \subseteq Proc
    <3>1. CASE interrupted
      BY <1>5, <3>1 DEF OnPipesReady, TypeOK
    <3>2. CASE ~interrupted
      <4>1. PICK done \in [1 .. Cardinality(polled) -> polled] : finished' = finished \o done
        BY <1>5, <3>2 DEF OnPipesReady
      <4>2. done \in Seq(Proc)
        BY MovedType
      <4>3. finished \o done \in Seq(Proc)
        BY <4>2, RangeConcat DEF TypeOK
      <4> QED
        BY <1>5, <3>2, <4>1, <4>3 DEF OnPipesReady, TypeOK
    <3> QED
      BY <3>1, <3>2
  <2>2. pc' \in {"abort", "moved"} /\ polled' = {}
    BY <1>5 DEF OnPipesReady
  <2> QED
    BY <1>5, <2>1, <2>2 DEF OnPipesReady, TypeOK
<1>6. CASE Abort
  BY <1>6 DEF Abort, TypeOK
<1>7. CASE Join
  BY <1>7, RemoteAssumption DEF Join, TypeOK, RemoteAssumption
<1>8. ASSUME NEW w \in Worker, Check(w)  PROVE TypeOK'
  BY <1>8 DEF Check, TypeOK
<1>9. ASSUME NEW w \in Worker, Take(w)  PROVE TypeOK'
  <2>1. waiting # <<>> => Head(waiting) \in Proc /\ Tail(waiting) \in Seq(Proc)
    BY RangeTail DEF TypeOK
  <2>2. CASE waiting = <<>>
    BY <1>9, <2>2 DEF Take, TypeOK
  <2>3. CASE waiting # <<>>
    <3>1. /\ Head(waiting) \in Proc /\ waiting' \in Seq(Proc)
          /\ task' = [task EXCEPT ![w] = Head(waiting)]
          /\ \E place \in {"spawn", "execute"} : wpc' = [wpc EXCEPT ![w] = place]
      BY <1>9, <2>1, <2>3 DEF Take
    <3>2. UNCHANGED <<mainVars, pool, shutting, procVars, sigVars>>
      BY <1>9 DEF Take
    <3> HIDE DEF NotifyAll
    <3> QED
      BY <3>1, <3>2 DEF TypeOK
  <2> QED
    BY <2>2, <2>3
<1>10. ASSUME NEW w \in Worker, Spawn(w) \/ WorkerReadsFlag(w) \/ Close(w) \/ Crash(w)
       PROVE  TypeOK'
  <2>1. CASE Spawn(w)
    BY <2>1 DEF Spawn, TypeOK
  <2>2. CASE WorkerReadsFlag(w)
    BY <2>2 DEF WorkerReadsFlag, TypeOK
  <2>3. CASE Close(w)
    <3>1. task[w] \in Proc
      BY <2>3 DEF Close, TypeOK
    <3> QED
      BY <2>3, <3>1 DEF Close, TypeOK
  <2>4. CASE Crash(w)
    BY <2>4 DEF Crash, TypeOK
  <2> QED
    BY <1>10, <2>1, <2>2, <2>3, <2>4
<1>11. ASSUME NEW w \in Worker, NEW code \in {0, 1},
              ExecuteRemotely(w, code) \/ ExecuteLocally(w, code)
       PROVE  TypeOK'
  <2>1. CASE ExecuteRemotely(w, code)
    <3>1. ended' = [ended EXCEPT ![task[w]] = code] /\ exitCode' = [exitCode EXCEPT ![task[w]] = code]
      BY <2>1 DEF ExecuteRemotely
    <3>2. ended' \in [Proc -> {-1, 0, 1}] /\ exitCode' \in [Proc -> {-1, 0, 1}]
      BY <3>1 DEF TypeOK
    <3>3. wpc' \in [Worker -> {"none", "check", "asleep", "take", "exited"} \cup Executing]
      BY <2>1 DEF ExecuteRemotely, TypeOK
    <3>4. \A v \in Worker : wpc'[v] \in Executing => task'[v] \in Proc
      BY <2>1 DEF ExecuteRemotely, TypeOK
    <3> QED
      BY <2>1, <3>2, <3>3, <3>4 DEF ExecuteRemotely, TypeOK
  <2>2. CASE ExecuteLocally(w, code)
    <3>1. ended' \in [Proc -> {-1, 0, 1}] /\ exitCode' \in [Proc -> {-1, 0, 1}]
      <4>1. CASE interrupted
        BY <2>2, <4>1 DEF ExecuteLocally, TypeOK
      <4>2. CASE ~interrupted
        <5>1. ended' = [ended EXCEPT ![task[w]] = code] /\ exitCode' = [exitCode EXCEPT ![task[w]] = 0]
          BY <2>2, <4>2 DEF ExecuteLocally
        <5> QED
          BY <5>1 DEF TypeOK
      <4> QED
        BY <4>1, <4>2
    <3>2. PICK x \in {"take", "done"} : wpc' = [wpc EXCEPT ![w] = x]
      BY <2>2 DEF ExecuteLocally
    <3>3. wpc' \in [Worker -> {"none", "check", "asleep", "take", "exited"} \cup Executing]
      BY <3>2 DEF TypeOK
    <3>4. \A v \in Worker : wpc'[v] \in Executing => task'[v] \in Proc
      BY <2>2, <3>2 DEF ExecuteLocally, TypeOK
    <3> QED
      BY <2>2, <3>1, <3>3, <3>4 DEF ExecuteLocally, TypeOK
  <2> QED
    BY <1>11, <2>1, <2>2
<1>12. CASE Signal
  <2>1. signals' \in Nat /\ signals' <= MaxSignals
    BY <1>12, RemoteAssumption DEF Signal, TypeOK, RemoteAssumption
  <2>2. CASE UNCHANGED wpc
    BY <1>12, <2>1, <2>2 DEF Signal, TypeOK
  <2>3. ASSUME NEW w \in Worker, wpc[w] = "poll", UNCHANGED pc,
               wpc' = [wpc EXCEPT ![w] = "eintr"]
        PROVE  TypeOK'
    <3>1. wpc' \in [Worker -> {"none", "check", "asleep", "take", "exited"} \cup Executing]
      BY <2>3 DEF TypeOK
    <3>2. \A v \in Worker : wpc'[v] \in Executing => task'[v] \in Proc
      BY <1>12, <2>3 DEF Signal, TypeOK
    <3> QED
      BY <1>12, <2>1, <2>3, <3>1, <3>2 DEF Signal, TypeOK
  <2> QED
    BY <1>12, <2>2, <2>3 DEF Signal
<1>13. CASE UNCHANGED vars
  BY <1>13 DEF vars, TypeOK
<1> QED
  BY <1>1, <1>2, <1>3, <1>4, <1>5, <1>6, <1>7, <1>8, <1>9, <1>10, <1>11, <1>12, <1>13
     DEF Next, BuildLoop, WorkerThread, Codes

\* Every variable keeps its type.
THEOREM RemoteTypeCorrect == Spec => []TypeOK
  BY TypeInit, TypeStep, PTL DEF Spec

-----------------------------------------------------------------------------
(***************************************************************************)
(* No worker sleeps through a task.  Together with TypeOK the property is  *)
(* inductive: a worker falls asleep only while nothing waits, and when the *)
(* first task comes the build loop is at "notify" until all are awake.     *)
(***************************************************************************)
LEMMA NoSleeperStep ==
    TypeOK /\ NoSleeperWhenWaiting /\ [Next]_vars => NoSleeperWhenWaiting'
<1> SUFFICES ASSUME TypeOK, NoSleeperWhenWaiting, [Next]_vars
             PROVE  NoSleeperWhenWaiting'
  OBVIOUS
<1> USE DEF Executing, NotifyAll, NoSleeperWhenWaiting,
            mainVars, poolVars, workerVars, procVars, sigVars
<1>1. wpc \in [Worker -> {"none", "check", "asleep", "take", "exited"} \cup Executing]
  BY DEF TypeOK
<1>2. CASE Create
  BY <1>2 DEF Create
<1>3. ASSUME NEW p \in Proc, Add(p)  PROVE NoSleeperWhenWaiting'
  BY <1>3 DEF Add
<1>4. CASE Notify
  BY <1>1, <1>4 DEF Notify
<1>5. CASE WaitForCommand \/ NextFinished \/ DoWork \/ PollReturns
  BY <1>5 DEF WaitForCommand, NextFinished, DoWork, PollReturns
<1>6. CASE OnPipesReady
  BY <1>6 DEF OnPipesReady
<1>7. CASE ReadFlag \/ BuildError \/ Abort \/ Finished \/ Shutdown
  BY <1>7 DEF ReadFlag, BuildError, Abort, Finished, Shutdown
<1>8. CASE NotifyStop
  BY <1>1, <1>8 DEF NotifyStop
<1>9. CASE Join
  BY <1>9 DEF Join
<1>10. ASSUME NEW w \in Worker, Check(w)  PROVE NoSleeperWhenWaiting'
  BY <1>1, <1>10 DEF Check
<1>11. ASSUME NEW w \in Worker, Take(w)  PROVE NoSleeperWhenWaiting'
  BY <1>1, <1>11 DEF Take
<1>12. ASSUME NEW w \in Worker, Spawn(w)  PROVE NoSleeperWhenWaiting'
  BY <1>1, <1>12 DEF Spawn
<1>13. ASSUME NEW w \in Worker, WorkerReadsFlag(w)  PROVE NoSleeperWhenWaiting'
  BY <1>1, <1>13 DEF WorkerReadsFlag
<1>14. ASSUME NEW w \in Worker, Close(w) \/ Crash(w)  PROVE NoSleeperWhenWaiting'
  <2>1. CASE Close(w)
    BY <1>1, <2>1 DEF Close
  <2>2. CASE Crash(w)
    BY <1>1, <2>2 DEF Crash
  <2> QED
    BY <1>14, <2>1, <2>2
<1>15. ASSUME NEW w \in Worker, NEW code \in {0, 1}, ExecuteRemotely(w, code)
       PROVE  NoSleeperWhenWaiting'
  BY <1>1, <1>15 DEF ExecuteRemotely
<1>16. ASSUME NEW w \in Worker, NEW code \in {0, 1}, ExecuteLocally(w, code)
       PROVE  NoSleeperWhenWaiting'
  BY <1>1, <1>16 DEF ExecuteLocally
<1>17. CASE Signal
  BY <1>1, <1>17 DEF Signal
<1>18. CASE UNCHANGED vars
  BY <1>18 DEF vars
<1> QED
  BY <1>2, <1>3, <1>4, <1>5, <1>6, <1>7, <1>8, <1>9, <1>10, <1>11, <1>12, <1>13,
     <1>14, <1>15, <1>16, <1>17, <1>18 DEF Next, BuildLoop, WorkerThread, Codes

\* AddTask wakes the workers only when the queue was empty, and still no worker
\* sleeps while a task waits.
THEOREM NoLostWakeup == Spec => []NoSleeperWhenWaiting
<1>1. Init => NoSleeperWhenWaiting
  BY DEF Init, NoSleeperWhenWaiting
<1> QED
  BY <1>1, RemoteTypeCorrect, NoSleeperStep, PTL DEF Spec

-----------------------------------------------------------------------------
(***************************************************************************)
(* A task has one worker, and the build is told how a remote command       *)
(* ended.  A step that gives no worker a task and touches no process keeps *)
(* both; the others are taken one at a time.                               *)
(***************************************************************************)
RemoteInv == TypeOK /\ OneWorkerPerTask /\ OutcomeInv

LEMMA RemoteInvInit == Init => RemoteInv
<1> SUFFICES ASSUME Init  PROVE RemoteInv
  OBVIOUS
<1>1. Range(waiting) = {} /\ Range(finished) = {} /\ closed = {} /\ running = {} /\ polled = {}
  BY RangeEmpty DEF Init
<1>2. \A w \in Worker : wpc[w] = "none"
  BY DEF Init
<1>3. \A p \in Proc : reported[p] = "none"
  BY DEF Init
<1>4. OneWorkerPerTask
  BY <1>1, <1>2 DEF Init, OneWorkerPerTask, Executing
<1>5. OutcomeInv
  BY <1>1, <1>2, <1>3 DEF OutcomeInv, Executing
<1> QED
  BY <1>4, <1>5, TypeInit DEF RemoteInv

LEMMA FrameStep ==
    ASSUME OneWorkerPerTask, OutcomeInv, TypeOK,
           UNCHANGED <<task, waiting, closed, exitCode, ended, reported>>,
           \A w \in Worker : wpc'[w] \in Executing => wpc[w] \in Executing,
           \A w \in Worker : wpc'[w] \in {"spawn", "poll", "eintr"} =>
                             wpc[w] \in {"spawn", "poll", "eintr"},
           \A w \in Worker : wpc'[w] = "done" => wpc[w] = "done",
           \A p \in Proc : proc'[p] = "new" => proc[p] = "new",
           running' \subseteq running,
           polled' \subseteq closed, Range(finished') \subseteq closed
    PROVE  OneWorkerPerTask' /\ OutcomeInv'
<1>1. OneWorkerPerTask'
  BY DEF OneWorkerPerTask
<1>2. OutcomeInv'
  BY DEF OutcomeInv, Executing
<1> QED
  BY <1>1, <1>2
LEMMA RemoteInvStep == RemoteInv /\ [Next]_vars => OneWorkerPerTask' /\ OutcomeInv'
<1> SUFFICES ASSUME TypeOK, OneWorkerPerTask, OutcomeInv, [Next]_vars
             PROVE  OneWorkerPerTask' /\ OutcomeInv'
  BY DEF RemoteInv
<1> USE DEF Executing, NotifyAll, mainVars, poolVars, workerVars, procVars, sigVars
<1>1. /\ wpc \in [Worker -> {"none", "check", "asleep", "take", "exited"} \cup Executing]
      /\ waiting \in Seq(Proc) /\ finished \in Seq(Proc)
      /\ polled \subseteq closed /\ Range(finished) \subseteq closed
  BY DEF TypeOK, OutcomeInv
<1>2. CASE Create
  BY <1>1, <1>2, FrameStep DEF Create
<1>3. CASE Notify
  BY <1>1, <1>3, FrameStep DEF Notify
<1>4. CASE WaitForCommand
  BY <1>1, <1>4, FrameStep DEF WaitForCommand
<1>5. CASE DoWork
  BY <1>1, <1>5, FrameStep DEF DoWork
<1>6. CASE PollReturns
  BY <1>1, <1>6, FrameStep DEF PollReturns
<1>7. CASE ReadFlag
  BY <1>1, <1>7, FrameStep DEF ReadFlag
<1>8. CASE Abort
  BY <1>1, <1>8, FrameStep DEF Abort, TypeOK
<1>9. CASE Finished \/ BuildError
  BY <1>1, <1>9, FrameStep DEF Finished, BuildError
<1>10. CASE Shutdown
  BY <1>1, <1>10, FrameStep DEF Shutdown
<1>11. CASE NotifyStop
  BY <1>1, <1>11, FrameStep DEF NotifyStop
<1>12. CASE Join
  BY <1>1, <1>12, FrameStep DEF Join
<1>13. ASSUME NEW p \in Proc, Add(p)
       PROVE  OneWorkerPerTask' /\ OutcomeInv'
  <2>1. Range(waiting') = Range(waiting) \cup {p}
    BY <1>1, <1>13, RangeAppend DEF Add
  <2>2. \A i, j \in DOMAIN waiting' : waiting'[i] = waiting'[j] => i = j
    <3>1. /\ DOMAIN waiting = 1 .. Len(waiting) /\ Len(waiting) \in Nat
          /\ DOMAIN waiting' = 1 .. Len(waiting) + 1
          /\ \A i \in DOMAIN waiting : waiting'[i] = waiting[i] /\ waiting[i] # p
          /\ waiting'[Len(waiting) + 1] = p
      BY <1>1, <1>13 DEF Add, OutcomeInv, Range
    <3> QED
      BY <3>1 DEF OneWorkerPerTask
  <2>3. OneWorkerPerTask'
    BY <1>13, <2>1, <2>2 DEF Add, OneWorkerPerTask, OutcomeInv
  <2>4. \A q \in Proc : proc'[q] = "new" => q # p /\ proc[q] = "new"
    BY <1>13 DEF Add, TypeOK
  <2>5. OutcomeInv'
    BY <1>13, <2>1, <2>4 DEF Add, OutcomeInv
  <2> QED
    BY <2>3, <2>5
<1>14. CASE NextFinished
  <2>1. Head(finished) \in closed /\ Head(finished) \in Proc /\ Range(finished') \subseteq closed
    BY <1>1, <1>14, RangeTail DEF NextFinished
  <2>2. OneWorkerPerTask'
    BY <1>14 DEF NextFinished, OneWorkerPerTask
  <2>3. \A q \in Proc : proc'[q] = "new" => proc[q] = "new"
    BY <1>14, <2>1 DEF NextFinished, TypeOK
  <2>4. \A q \in Proc : reported'[q] # "none" =>
          /\ q \in closed
          /\ reported'[q] = IF exitCode[q] = 0 THEN "success" ELSE "failure"
    BY <1>14, <2>1 DEF NextFinished, OutcomeInv, TypeOK
  <2>5. OutcomeInv'
    BY <1>14, <2>1, <2>3, <2>4 DEF NextFinished, OutcomeInv
  <2> QED
    BY <2>2, <2>5
<1>15. CASE OnPipesReady
  <2>1. Range(finished') \subseteq closed
    <3>1. CASE interrupted
      BY <1>1, <1>15, <3>1 DEF OnPipesReady
    <3>2. CASE ~interrupted
      <4>1. PICK done \in [1 .. Cardinality(polled) -> polled] : finished' = finished \o done
        BY <1>15, <3>2 DEF OnPipesReady
      <4>2. done \in Seq(Proc) /\ Range(done) \subseteq polled
        BY MovedType
      <4> QED
        BY <1>1, <4>1, <4>2, RangeConcat
    <3> QED
      BY <3>1, <3>2
  <2> QED
    BY <1>1, <1>15, <2>1, FrameStep DEF OnPipesReady
<1>16. ASSUME NEW w \in Worker, Check(w)
       PROVE  OneWorkerPerTask' /\ OutcomeInv'
  BY <1>1, <1>16, FrameStep DEF Check
<1>17. ASSUME NEW w \in Worker, Take(w)
       PROVE  OneWorkerPerTask' /\ OutcomeInv'
  <2>1. CASE waiting = <<>>
    BY <1>1, <1>17, <2>1, FrameStep DEF Take
  <2>2. CASE waiting # <<>>
    <3> DEFINE p == Head(waiting)
    <3>1. /\ p \in Proc /\ p \in Range(waiting) /\ p = waiting[1] /\ 1 \in DOMAIN waiting
          /\ Range(waiting') \subseteq Range(waiting)
          /\ DOMAIN waiting' = 1 .. Len(waiting) - 1 /\ DOMAIN waiting = 1 .. Len(waiting)
          /\ \A i \in DOMAIN waiting' : waiting'[i] = waiting[i + 1] /\ i + 1 \in DOMAIN waiting
      <4>1. waiting' = Tail(waiting)
        BY <1>17, <2>2 DEF Take
      <4> QED
        BY <1>1, <2>2, <4>1, RangeTail
    <3>2. \A i, j \in DOMAIN waiting' : waiting'[i] = waiting'[j] => i = j
      BY <1>1, <3>1 DEF OneWorkerPerTask
    <3>3. p \notin Range(waiting')
      <4>1. \A i \in DOMAIN waiting' : waiting'[i] # waiting[1]
        BY <1>1, <3>1 DEF OneWorkerPerTask
      <4> QED
        BY <3>1, <4>1 DEF Range
    <3>4. task'[w] = p /\ \A v \in Worker : v # w => task'[v] = task[v] /\ wpc'[v] = wpc[v]
      BY <1>17, <2>2 DEF Take, TypeOK
    <3>5. wpc'[w] = IF p \in Local THEN "spawn" ELSE "execute"
      BY <1>17, <2>2 DEF Take, TypeOK
    <3>6. \A v \in Worker : v # w /\ wpc[v] \in Executing => task[v] # p
      BY <3>1 DEF OneWorkerPerTask
    <3>7. OneWorkerPerTask'
      BY <1>17, <3>1, <3>2, <3>3, <3>4, <3>6 DEF Take, OneWorkerPerTask
    <3>8. OutcomeInv'
      BY <1>17, <3>1, <3>4, <3>5 DEF Take, OutcomeInv
    <3> QED
      BY <3>7, <3>8
  <2> QED
    BY <2>1, <2>2
<1>18. ASSUME NEW w \in Worker, Spawn(w)
       PROVE  OneWorkerPerTask' /\ OutcomeInv'
  BY <1>1, <1>18, FrameStep DEF Spawn
<1>19. ASSUME NEW w \in Worker, WorkerReadsFlag(w) \/ Crash(w)
       PROVE  OneWorkerPerTask' /\ OutcomeInv'
  BY <1>1, <1>19, FrameStep DEF WorkerReadsFlag, Crash
<1>20. ASSUME NEW w \in Worker, NEW code \in {0, 1}, ExecuteRemotely(w, code)
       PROVE  OneWorkerPerTask' /\ OutcomeInv'
  <2>1. /\ task[w] \in Proc /\ task[w] \notin Range(waiting) \cup closed
        /\ \A v \in Worker : v # w /\ wpc[v] \in Executing => task[v] # task[w]
    BY <1>20 DEF ExecuteRemotely, TypeOK, OneWorkerPerTask
  <2>2. wpc'[w] = "done" /\ \A v \in Worker : v # w => wpc'[v] = wpc[v]
    BY <1>20 DEF ExecuteRemotely, TypeOK
  <2>3. \A q \in Proc : q # task[w] => ended'[q] = ended[q] /\ exitCode'[q] = exitCode[q]
    BY <1>20 DEF ExecuteRemotely, TypeOK
  <2>4. ended'[task[w]] = exitCode'[task[w]]
    BY <1>20, <2>1 DEF ExecuteRemotely, TypeOK
  <2>5. OneWorkerPerTask'
    BY <1>20, <2>2 DEF ExecuteRemotely, OneWorkerPerTask
  <2>6. OutcomeInv'
    BY <1>20, <2>1, <2>2, <2>3, <2>4 DEF ExecuteRemotely, OutcomeInv, TypeOK
  <2> QED
    BY <2>5, <2>6
<1>21. ASSUME NEW w \in Worker, NEW code \in {0, 1}, ExecuteLocally(w, code)
       PROVE  OneWorkerPerTask' /\ OutcomeInv'
  <2>1. CASE interrupted
    BY <1>1, <1>21, <2>1, FrameStep DEF ExecuteLocally
  <2>2. CASE ~interrupted
    <3>1. /\ task[w] \in Local /\ task[w] \in Proc /\ task[w] \notin Range(waiting) \cup closed
          /\ \A v \in Worker : v # w /\ wpc[v] \in Executing => task[v] # task[w]
      BY <1>21 DEF ExecuteLocally, TypeOK, OneWorkerPerTask, OutcomeInv
    <3>2. wpc'[w] = "done" /\ \A v \in Worker : v # w => wpc'[v] = wpc[v]
      BY <1>21, <2>2 DEF ExecuteLocally, TypeOK
    <3>3. \A q \in Proc : q # task[w] => ended'[q] = ended[q] /\ exitCode'[q] = exitCode[q]
      BY <1>21, <2>2 DEF ExecuteLocally, TypeOK
    <3>4. OneWorkerPerTask'
      BY <1>21, <3>2 DEF ExecuteLocally, OneWorkerPerTask
    <3>5. OutcomeInv'
      <4>1. \A v \in Worker : wpc'[v] = "done" /\ task[v] \notin Local =>
              exitCode'[task[v]] = ended'[task[v]]
        BY <3>1, <3>2, <3>3 DEF OutcomeInv, TypeOK
      <4>2. \A q \in closed \ Local : exitCode'[q] = ended'[q]
        BY <3>1, <3>3 DEF OutcomeInv, TypeOK
      <4>3. \A q \in Proc : reported[q] # "none" =>
              /\ q \in closed
              /\ reported[q] = IF exitCode'[q] = 0 THEN "success" ELSE "failure"
        BY <3>1, <3>3 DEF OutcomeInv
      <4> QED
        BY <1>21, <3>1, <3>2, <4>1, <4>2, <4>3 DEF ExecuteLocally, OutcomeInv
    <3> QED
      BY <3>4, <3>5
  <2> QED
    BY <2>1, <2>2
<1>22. ASSUME NEW w \in Worker, Close(w)
       PROVE  OneWorkerPerTask' /\ OutcomeInv'
  <2>1. /\ task[w] \in Proc /\ task[w] \notin Range(waiting)
        /\ \A v \in Worker : v # w /\ wpc[v] \in Executing => task[v] # task[w]
    BY <1>22 DEF Close, TypeOK, OneWorkerPerTask
  <2>2. wpc'[w] = "take" /\ \A v \in Worker : v # w => wpc'[v] = wpc[v]
    BY <1>22 DEF Close, TypeOK
  <2>3. OneWorkerPerTask'
    BY <1>22, <2>1, <2>2 DEF Close, OneWorkerPerTask
  <2>4. OutcomeInv'
    BY <1>22, <2>1, <2>2 DEF Close, OutcomeInv
  <2> QED
    BY <2>3, <2>4
<1>23. CASE Signal
  <2>1. \A w \in Worker : wpc'[w] = wpc[w] \/ (wpc[w] = "poll" /\ wpc'[w] = "eintr")
    BY <1>1, <1>23 DEF Signal
  <2> QED
    BY <1>1, <1>23, <2>1, FrameStep DEF Signal
<1>24. CASE UNCHANGED vars
  BY <1>1, <1>24, FrameStep DEF vars
<1> QED
  BY <1>2, <1>3, <1>4, <1>5, <1>6, <1>7, <1>8, <1>9, <1>10, <1>11, <1>12, <1>13, <1>14,
     <1>15, <1>16, <1>17, <1>18, <1>19, <1>20, <1>21, <1>22, <1>23, <1>24
     DEF Next, BuildLoop, WorkerThread, Codes

LEMMA RemoteCorrect == Spec => []RemoteInv
<1>1. RemoteInv /\ [Next]_vars => RemoteInv'
  BY TypeStep, RemoteInvStep DEF RemoteInv
<1> QED
  BY <1>1, RemoteInvInit, PTL DEF Spec

\* No task is worked on twice, and none once its process may be deleted.
THEOREM TaskHasOneWorker == Spec => []OneWorkerPerTask
<1>1. RemoteInv => OneWorkerPerTask
  BY DEF RemoteInv
<1> QED
  BY <1>1, RemoteCorrect, PTL

\* The build is told of a remote command how it ended, also after signals.
THEOREM OutcomeIsTrue == Spec => []RemoteOutcomeReported
<1>1. RemoteInv => RemoteOutcomeReported
  BY DEF RemoteInv, OutcomeInv, RemoteOutcomeReported
<1> QED
  BY <1>1, RemoteCorrect, PTL

-----------------------------------------------------------------------------
(***************************************************************************)
(* A process is deleted when its pipe has been closed, or by Clear in a    *)
(* build that gives up.  A build that does not give up lets the runner go  *)
(* when each process has been deleted, and the pool takes no task after    *)
(* that.                                                                   *)
(***************************************************************************)
UseInv ==
    /\ \A p \in Proc : proc[p] = "deleted" => p \in closed \/ aborted
    /\ pc = "shutdown" \/ shutting => aborted \/ \A p \in Proc : proc[p] # "made"
    /\ shutting => pool = "freed" \/ pc \in {"stop", "join", "crashed"}

LEMMA UseStep == RemoteInv /\ UseInv /\ [Next]_vars => UseInv'
<1> SUFFICES ASSUME TypeOK, OutcomeInv, UseInv, [Next]_vars
             PROVE  UseInv'
  BY DEF RemoteInv
<1> USE DEF UseInv, mainVars, poolVars, workerVars, procVars, sigVars
<1>1. CASE Create \/ Notify \/ WaitForCommand \/ BuildError
  BY <1>1 DEF Create, Notify, WaitForCommand, BuildError
<1>2. CASE NextFinished
  <2>1. Head(finished) \in closed
    BY <1>2, RangeTail DEF NextFinished, TypeOK, OutcomeInv
  <2> QED
    BY <1>2, <2>1 DEF NextFinished, TypeOK
<1>3. CASE DoWork \/ PollReturns \/ OnPipesReady \/ ReadFlag
  BY <1>3 DEF DoWork, PollReturns, OnPipesReady, ReadFlag
<1>4. CASE Abort
  BY <1>4 DEF Abort
<1>5. CASE Finished \/ Shutdown \/ NotifyStop \/ Join
  BY <1>5 DEF Finished, Shutdown, NotifyStop, Join
<1>6. CASE \E p \in Proc : Add(p)
  BY <1>6 DEF Add, TypeOK
<1>7. CASE Signal \/ \E w \in Worker : WorkerThread(w)
  BY <1>7 DEF Signal, WorkerThread, Check, Take, Spawn, WorkerReadsFlag, Close, Crash,
              ExecuteRemotely, ExecuteLocally
<1>8. CASE UNCHANGED vars
  BY <1>8 DEF vars
<1> QED
  BY <1>1, <1>2, <1>3, <1>4, <1>5, <1>6, <1>7, <1>8 DEF Next, BuildLoop

LEMMA UseIsSafe == RemoteInv /\ UseInv => NoUseAfterDelete
<1> SUFFICES ASSUME RemoteInv, UseInv  PROVE NoUseAfterDelete
  OBVIOUS
<1>1. \A w \in Worker : wpc[w] \in Executing =>
        task[w] \in Proc /\ task[w] \notin closed /\ proc[task[w]] # "new"
  BY DEF RemoteInv, TypeOK, OneWorkerPerTask, OutcomeInv
<1>2. \A w \in Worker : wpc[w] \in Executing =>
        /\ reported[task[w]] = "none"
        /\ proc[task[w]] = "deleted" => aborted
  BY <1>1 DEF RemoteInv, OutcomeInv, UseInv
<1>3. ASSUME shutting, ~aborted
      PROVE  waiting = <<>> /\ \A w \in Worker : wpc[w] \notin Executing
  <2>1. \A p \in Proc : proc[p] = "new" \/ p \in closed
    BY <1>3 DEF UseInv, RemoteInv, TypeOK
  <2>2. Range(waiting) \subseteq Proc
    BY DEF RemoteInv, TypeOK, Range
  <2>3. Range(waiting) = {}
    BY <2>1, <2>2 DEF RemoteInv, OneWorkerPerTask, OutcomeInv
  <2>4. waiting # <<>> => Head(waiting) \in Range(waiting)
    BY RangeTail DEF RemoteInv, TypeOK
  <2> QED
    BY <1>1, <2>1, <2>3, <2>4
<1> QED
  BY <1>2, <1>3 DEF NoUseAfterDelete

\* Whatever signals and errors come, no worker holds a command that the build was
\* told of, and a deleted process is used only when the build has given up; if it has
\* not, nothing waits in the pool and no worker is in the middle of a task when the
\* pool is shut down.
THEOREM NothingUsedAfterDelete == Spec => []NoUseAfterDelete
<1>1. Init => UseInv
  BY DEF Init, UseInv
<1> QED
  BY <1>1, RemoteCorrect, UseStep, UseIsSafe, PTL DEF Spec
=============================================================================
