----------------------------- MODULE RunnerProofs -----------------------------
(***************************************************************************)
(* Proofs about the runners of local builds (Subprocs) and of share builds *)
(* (ShareThreads, as MCRunners has them): for every number of commands,    *)
(* any output, and commands that close it early or leave a process behind  *)
(* that holds it; and for any number of clients, workers and calls that    *)
(* fail.                                                                   *)
(***************************************************************************)
EXTENDS MCRunners, SequenceFacts

LEMMA Appended ==
    ASSUME NEW S, NEW s \in Seq(S), NEW x \in S
    PROVE  /\ Append(s, x) \in Seq(S)
           /\ \A y : Contains(Append(s, x), y) <=> Contains(s, y) \/ y = x
<1>1. /\ Append(s, x) \in Seq(S) /\ Len(Append(s, x)) = Len(s) + 1
      /\ \A i \in 1 .. Len(s) : Append(s, x)[i] = s[i]
      /\ Append(s, x)[Len(s) + 1] = x /\ Len(s) \in Nat
  BY AppendProperties
<1>2. ASSUME NEW y  PROVE Contains(Append(s, x), y) <=> Contains(s, y) \/ y = x
  BY <1>1 DEF Contains
<1> QED
  BY <1>1, <1>2

LEMMA Popped ==
    ASSUME NEW S, NEW s \in Seq(S), s # <<>>
    PROVE  /\ Tail(s) \in Seq(S) /\ Head(s) \in S /\ Contains(s, Head(s))
           /\ \A y : Contains(Tail(s), y) => Contains(s, y)
           /\ \A y : Contains(s, y) => y = Head(s) \/ Contains(Tail(s), y)
<1>1. /\ Tail(s) \in Seq(S) /\ Head(s) \in S /\ Len(Tail(s)) = Len(s) - 1
      /\ \A i \in 1 .. Len(Tail(s)) : Tail(s)[i] = s[i + 1]
      /\ Head(s) = s[1] /\ Len(s) \in Nat \ {0}
  BY HeadTailProperties, EmptySeq
<1>2. ASSUME NEW y, Contains(Tail(s), y)  PROVE Contains(s, y)
  <2>1. PICK i \in 1 .. Len(Tail(s)) : Tail(s)[i] = y
    BY <1>2 DEF Contains
  <2>2. i + 1 \in 1 .. Len(s) /\ s[i + 1] = y
    BY <1>1, <2>1
  <2> QED
    BY <2>2 DEF Contains
<1>3. ASSUME NEW y, Contains(s, y), y # Head(s)  PROVE Contains(Tail(s), y)
  <2>1. PICK i \in 1 .. Len(s) : s[i] = y
    BY <1>3 DEF Contains
  <2>2. i - 1 \in 1 .. Len(Tail(s)) /\ s[(i - 1) + 1] = y
    BY <1>1, <1>3, <2>1
  <2>3. Tail(s)[i - 1] = y
    BY <1>1, <2>2
  <2> QED
    BY <2>2, <2>3 DEF Contains
<1>4. Contains(s, Head(s))
  BY <1>1 DEF Contains
<1> QED
  BY <1>1, <1>2, <1>3, <1>4

LEMMA OneMore ==
    ASSUME NEW S, NEW f \in [S -> Nat], NEW p \in S, NEW g, g = [f EXCEPT ![p] = @ + 1]
    PROVE  /\ g \in [S -> Nat] /\ g[p] = f[p] + 1 /\ f[p] \in Nat
           /\ \A q \in S : q # p => g[q] = f[q]
  OBVIOUS

-----------------------------------------------------------------------------
\* The types, of the state the proofs need.
ProcType ==
    /\ running \subseteq Proc /\ ready \subseteq Proc /\ finished \in Seq(Proc)
    /\ readBuf \in [Proc -> Nat] /\ written \in [Proc -> Nat]
    /\ child \in [Proc -> {"new", "alive", "exited", "reaped"}]
    /\ ended \in [Proc -> {"none", "success", "failure", "interrupted"}]
    /\ writers \in [Proc -> SUBSET {"command", "left behind"}]
    /\ DOMAIN reported = Proc

\* The output of p is all read: nobody holds the pipe, and it is empty.
AtEnd(p) == writers[p] = {} /\ readBuf[p] = written[p]

\* A descriptor that is ready stays so until it is handled, in the same DoWork.
ReadyInv ==
    /\ pc \notin {"pending", "handle"} => ready = {}
    /\ \A p \in Proc :
         /\ readBuf[p] <= written[p]
         /\ p \in running => child[p] # "new"
         /\ p \in ready => p \in running /\ (written[p] > readBuf[p] \/ writers[p] = {})

\* A command is finished, and later reported, when nothing more can come of it.
FinishedInv ==
    \A p \in Proc :
      /\ Contains(finished, p) => AtEnd(p) /\ p \notin running /\ child[p] # "new"
      /\ reported[p] # Unreported =>
           /\ reported[p] = [status |-> ended[p], output |-> readBuf[p]]
           /\ AtEnd(p) /\ p \notin running /\ child[p] = "reaped"

\* A process is waited for while somebody knows it.
KnownInv ==
    /\ \A p \in Proc : child[p] \in {"alive", "exited"} => p \in running \/ Contains(finished, p)
    /\ pc \in {"gone", "killed"} => running = {}

ProcInv == ProcType /\ ReadyInv /\ FinishedInv /\ KnownInv

LEMMA ProcInit == Init => ProcInv
<1> SUFFICES ASSUME Init  PROVE ProcInv
  OBVIOUS
<1>1. finished = <<>> /\ \A p : ~Contains(finished, p)
  BY DEF Init, Contains
<1>2. ProcType
  BY <1>1 DEF Init, ProcType
<1> QED
  BY <1>1, <1>2 DEF Init, ProcInv, ReadyInv, FinishedInv, KnownInv

\* Most steps of ninja leave the commands and their sets alone.
LEMMA Untouched ==
    ASSUME ProcInv, UNCHANGED <<running, finished, readBuf, reported, childVars>>,
           ready' \subseteq ready, pc' \notin {"pending", "handle"} => ready' = {},
           pc' \in {"gone", "killed"} => running = {}
    PROVE  ProcInv'
<1>1. ProcType'
  BY DEF ProcInv, ProcType, childVars
<1>2. ReadyInv' /\ FinishedInv' /\ KnownInv'
  BY DEF ProcInv, ReadyInv, FinishedInv, KnownInv, AtEnd, childVars
<1> QED
  BY <1>1, <1>2 DEF ProcInv

LEMMA ProcStep == ProcInv /\ [Next]_vars => ProcInv'
<1> SUFFICES ASSUME ProcInv, [Next]_vars  PROVE ProcInv'
  OBVIOUS
<1>1. ProcType /\ ReadyInv /\ FinishedInv /\ KnownInv
  BY DEF ProcInv
<1>2. CASE Create \/ WaitForCommand \/ PollInterrupted \/ HandlePendingInterruption
  BY <1>1, <1>2, Untouched DEF ReadyInv, Create, WaitForCommand, PollInterrupted,
                               HandlePendingInterruption
<1>3. CASE DoWorkReturns \/ BuildEnds \/ Clear
  BY <1>1, <1>3, Untouched DEF ReadyInv, DoWorkReturns, BuildEnds, Clear
<1>4. CASE Destroy
  BY <1>1, <1>4, Untouched DEF ReadyInv, Destroy
<1>5. CASE Interrupt \/ Over \/ UNCHANGED vars
  BY <1>1, <1>5, Untouched DEF ReadyInv, Interrupt, Over, vars, ninjaVars, KnownInv
<1>6. CASE PollReady
  <2>1. /\ UNCHANGED <<running, finished, readBuf, reported, child, ended, writers, written>>
        /\ ready' = Ready /\ pc' = "pending"
    BY <1>6 DEF PollReady, childVars
  <2>2. ProcType'
    BY <1>1, <2>1 DEF ProcType, Ready
  <2>3. ReadyInv' /\ FinishedInv' /\ KnownInv'
    BY <1>1, <2>1 DEF ProcType, Ready, ReadyInv, FinishedInv, KnownInv, AtEnd
  <2> QED
    BY <2>2, <2>3 DEF ProcInv
<1>7. ASSUME NEW p \in Proc, Add(p)  PROVE ProcInv'
  <2>1. /\ child[p] = "new" /\ child' = [child EXCEPT ![p] = "alive"]
        /\ writers' = [writers EXCEPT ![p] = {"command"}]
        /\ running' = running \cup {p}
        /\ UNCHANGED <<pc, finished, ready, readBuf, reported, ended, written>> /\ pc = "loop"
    BY <1>7 DEF Add
  <2>2. ProcType'
    BY <1>1, <2>1 DEF ProcType
  <2>3. ~Contains(finished, p) /\ reported[p] = Unreported /\ p \notin running /\ p \notin ready
    BY <1>1, <2>1 DEF FinishedInv, ReadyInv
  <2>4. ReadyInv'
    BY <1>1, <2>1, <2>3 DEF ReadyInv, ProcType
  <2>5. FinishedInv'
    BY <1>1, <2>1, <2>3 DEF FinishedInv, ProcType, AtEnd
  <2>6. KnownInv'
    BY <1>1, <2>1 DEF KnownInv, ProcType
  <2> QED
    BY <2>2, <2>4, <2>5, <2>6 DEF ProcInv
<1>8. ASSUME NEW p \in Proc, OnPipeReady(p)  PROVE ProcInv'
  <2>1. /\ p \in ready /\ ready' = ready \ {p}
        /\ UNCHANGED <<pc, reported, child, ended, writers, written>> /\ pc = "handle"
    BY <1>8 DEF OnPipeReady, childVars
  <2>2. p \in running /\ reported[p] = Unreported /\ ~Contains(finished, p)
    BY <1>1, <2>1 DEF ReadyInv, FinishedInv
  <2>3. CASE written[p] > readBuf[p]
    <3>1. readBuf' = [readBuf EXCEPT ![p] = @ + 1] /\ UNCHANGED <<running, finished>>
      BY <1>8, <2>3 DEF OnPipeReady
    <3>0. readBuf' \in [Proc -> Nat] /\ readBuf'[p] = readBuf[p] + 1
           /\ \A q \in Proc : q # p => readBuf'[q] = readBuf[q]
      <4>1. readBuf \in [Proc -> Nat]
        BY <1>1 DEF ProcType
      <4> QED
        BY <3>1, <4>1, OneMore
    <3>7. readBuf'[p] <= written[p]
      <4>1. readBuf[p] \in Nat /\ written[p] \in Nat
        BY <1>1 DEF ProcType
      <4> QED
        BY <2>3, <3>0, <4>1
    <3>2. ProcType'
      BY <1>1, <2>1, <3>1, <3>0 DEF ProcType
    <3>3. ReadyInv'
      BY <1>1, <2>1, <3>1, <3>0, <3>7 DEF ReadyInv
    <3>4. FinishedInv' /\ KnownInv'
      BY <1>1, <2>1, <2>2, <3>1 DEF FinishedInv, KnownInv, ProcType, AtEnd
    <3> QED
      BY <3>2, <3>3, <3>4 DEF ProcInv
  <2>4. CASE ~(written[p] > readBuf[p])
    <3>1. /\ running' = running \ {p} /\ finished' = Append(finished, p)
          /\ UNCHANGED readBuf
      BY <1>8, <2>4 DEF OnPipeReady
    <3>2. finished' \in Seq(Proc) /\ \A q : Contains(finished', q) <=> Contains(finished, q) \/ q = p
      BY <1>1, <3>1, Appended DEF ProcType
    <3>3. ProcType'
      BY <1>1, <2>1, <3>1, <3>2 DEF ProcType
    <3>4. AtEnd(p) /\ child[p] # "new"
      <4>1. readBuf[p] \in Nat /\ written[p] \in Nat
        BY <1>1 DEF ProcType
      <4>2. readBuf[p] <= written[p] /\ writers[p] = {} /\ child[p] # "new"
        BY <1>1, <2>1, <2>2, <2>4 DEF ReadyInv
      <4> QED
        BY <2>4, <4>1, <4>2 DEF AtEnd
    <3>5. ReadyInv'
      BY <1>1, <2>1, <3>1 DEF ReadyInv
    <3>6. FinishedInv'
      BY <1>1, <2>1, <2>2, <3>1, <3>2, <3>4 DEF FinishedInv, AtEnd
    <3>7. KnownInv'
      BY <1>1, <2>1, <3>1, <3>2 DEF KnownInv
    <3> QED
      BY <3>3, <3>5, <3>6, <3>7 DEF ProcInv
  <2> QED
    BY <2>3, <2>4
<1>9. CASE Report
  <2> DEFINE p == Head(finished)
  <2>1. /\ finished # <<>> /\ finished' = Tail(finished)
        /\ child[p] = "exited" /\ child' = [child EXCEPT ![p] = "reaped"]
        /\ reported' = [reported EXCEPT ![p] = [status |-> ended[p], output |-> readBuf[p]]]
        /\ pc = "wait" /\ pc' \in {"clear", "loop"}
        /\ UNCHANGED <<running, ready, readBuf, ended, writers, written>>
    BY <1>9 DEF Report
  <2>2. /\ finished' \in Seq(Proc) /\ p \in Proc /\ Contains(finished, p)
        /\ \A q : Contains(finished', q) => Contains(finished, q)
        /\ \A q : Contains(finished, q) => q = p \/ Contains(finished', q)
    BY <1>1, <2>1, Popped DEF ProcType
  <2> HIDE DEF p
  <2>3. AtEnd(p) /\ p \notin running
    BY <1>1, <2>2 DEF FinishedInv
  <2>4. ProcType'
    BY <1>1, <2>1, <2>2 DEF ProcType
  <2>5. ReadyInv'
    BY <1>1, <2>1, <2>2 DEF ReadyInv, ProcType
  <2>6. FinishedInv'
    BY <1>1, <2>1, <2>2, <2>3 DEF FinishedInv, ProcType, AtEnd
  <2>7. KnownInv'
    BY <1>1, <2>1, <2>2 DEF KnownInv, ProcType
  <2> QED
    BY <2>4, <2>5, <2>6, <2>7 DEF ProcInv
<1>10. ASSUME NEW p \in Proc, Delete(p)  PROVE ProcInv'
  <2>1. /\ p \in running /\ running' = running \ {p} /\ pc = "delete" /\ pc' = pc
        /\ child' = [child EXCEPT ![p] = "reaped"] /\ ready' = ready
        /\ UNCHANGED <<finished, readBuf, reported, ended, writers, written>>
    BY <1>10 DEF Delete
  <2>2. ready = {} /\ child[p] # "new" /\ reported[p] = Unreported /\ ~Contains(finished, p)
    BY <1>1, <2>1 DEF ReadyInv, FinishedInv
  <2>3. ProcType'
    BY <1>1, <2>1 DEF ProcType
  <2>4. child'[p] = "reaped" /\ \A q \in Proc : q # p => child'[q] = child[q]
    BY <1>1, <2>1 DEF ProcType
  <2>5. ReadyInv'
    BY <1>1, <2>1, <2>2, <2>4 DEF ReadyInv
  <2>6. FinishedInv'
    BY <1>1, <2>1, <2>2, <2>4 DEF FinishedInv, AtEnd
  <2>7. KnownInv'
    BY <1>1, <2>1, <2>2, <2>4 DEF KnownInv
  <2> QED
    BY <2>3, <2>5, <2>6, <2>7 DEF ProcInv
<1>11. ASSUME NEW p \in Proc, Write(p)  PROVE ProcInv'
  <2>1. /\ writers[p] # {} /\ written' = [written EXCEPT ![p] = @ + 1]
        /\ UNCHANGED <<pc, running, finished, ready, readBuf, reported, child, ended, writers>>
    BY <1>11 DEF Write, ninjaVars
  <2>2. written' \in [Proc -> Nat] /\ written'[p] = written[p] + 1
        /\ \A q \in Proc : q # p => written'[q] = written[q]
    <3>1. written \in [Proc -> Nat]
      BY <1>1 DEF ProcType
    <3> QED
      BY <2>1, <3>1, OneMore
  <2>3. /\ readBuf[p] <= written'[p] /\ (written[p] > readBuf[p] => written'[p] > readBuf[p])
        /\ ~AtEnd(p)
    <3>1. readBuf[p] \in Nat /\ written[p] \in Nat /\ readBuf[p] <= written[p]
      BY <1>1 DEF ProcType, ReadyInv
    <3> QED
      BY <2>1, <2>2, <3>1 DEF AtEnd
  <2>4. ProcType'
    BY <1>1, <2>1, <2>2 DEF ProcType
  <2>5. ReadyInv'
    BY <1>1, <2>1, <2>2, <2>3 DEF ReadyInv
  <2>6. FinishedInv' /\ KnownInv'
    BY <1>1, <2>1, <2>2, <2>3 DEF FinishedInv, KnownInv, AtEnd
  <2> QED
    BY <2>4, <2>5, <2>6 DEF ProcInv
<1>12. ASSUME NEW p \in Proc, CloseOutput(p) \/ LeftBehindEnds(p)  PROVE ProcInv'
  <2>1. /\ writers' = [writers EXCEPT ![p] = {}]
        /\ UNCHANGED <<pc, running, finished, ready, readBuf, reported, child, ended, written>>
    BY <1>12 DEF CloseOutput, LeftBehindEnds, ninjaVars
  <2>2. writers' \in [Proc -> SUBSET {"command", "left behind"}] /\ writers'[p] = {}
        /\ \A q \in Proc \ {p} : writers'[q] = writers[q]
    BY <1>1, <2>1 DEF ProcType
  <2>3. ProcType'
    BY <1>1, <2>1, <2>2 DEF ProcType
  <2>4. ReadyInv'
    BY <1>1, <2>1, <2>2 DEF ReadyInv
  <2>5. FinishedInv' /\ KnownInv'
    BY <1>1, <2>1, <2>2 DEF FinishedInv, KnownInv, AtEnd
  <2> QED
    BY <2>3, <2>4, <2>5 DEF ProcInv
<1>13. ASSUME NEW p \in Proc, Exit(p)  PROVE ProcInv'
  <2>1. /\ child[p] = "alive" /\ child' = [child EXCEPT ![p] = "exited"]
        /\ UNCHANGED <<pc, running, finished, ready, readBuf, reported, written>>
    BY <1>13 DEF Exit, ninjaVars
  <2>2. PICK end \in {"success", "failure", "interrupted"} : ended' = [ended EXCEPT ![p] = end]
    BY <1>13 DEF Exit
  <2>3. PICK left \in SUBSET {"left behind"} :
          /\ writers' = [writers EXCEPT ![p] = left]
          /\ writers[p] = {} => left = {}
    BY <1>13 DEF Exit
  <2>4. reported[p] = Unreported
    BY <1>1, <2>1 DEF FinishedInv
  <2>5. /\ writers' \in [Proc -> SUBSET {"command", "left behind"}]
        /\ writers[p] = {} => writers'[p] = {}
        /\ \A q \in Proc \ {p} : /\ writers'[q] = writers[q] /\ ended'[q] = ended[q]
                                 /\ child'[q] = child[q]
        /\ child'[p] = "exited"
    BY <1>1, <2>1, <2>2, <2>3 DEF ProcType
  <2>6. ProcType'
    BY <1>1, <2>1, <2>2, <2>5 DEF ProcType
  <2>7. ReadyInv'
    BY <1>1, <2>1, <2>5 DEF ReadyInv
  <2>8. FinishedInv'
    BY <1>1, <2>1, <2>4, <2>5 DEF FinishedInv, AtEnd
  <2>9. KnownInv'
    BY <1>1, <2>1, <2>5 DEF KnownInv
  <2> QED
    BY <2>6, <2>7, <2>8, <2>9 DEF ProcInv
<1> QED
  BY <1>2, <1>3, <1>4, <1>5, <1>6, <1>7, <1>8, <1>9, <1>10, <1>11, <1>12, <1>13
     DEF Next, Ninja

LEMMA ProcInvariant == Spec => []ProcInv
  BY ProcInit, ProcStep, PTL DEF Spec

\* Whatever a command does with its output, and whoever else holds it: what the build
\* is told of it is its status and all of its output (Subprocess::OnPipeReady, Finish).
THEOREM ReportsAreWhole == Spec => []WholeResult
<1>1. ProcInv => WholeResult
  BY DEF ProcInv, FinishedInv, WholeResult, AtEnd
<1> QED
  BY <1>1, ProcInvariant, PTL

\* No command that was running is left when the set is gone (SubprocessSet::Clear and
\* ~Subprocess).
THEOREM NoneLeftRunning == Spec => []NoOrphans
<1>1. ProcInv => NoOrphans
  BY DEF ProcInv, ProcType, KnownInv, NoOrphans
<1> QED
  BY <1>1, ProcInvariant, PTL

-----------------------------------------------------------------------------
(***************************************************************************)
(* Share builds.                                                           *)
(***************************************************************************)
\* What the loop over running_ has found after its first k steps.
Kept(s, S, f, k) == /\ f[0] = <<>>
                    /\ \A i \in 1 .. k : f[i] = IF s[i] \in S THEN Append(f[i - 1], s[i]) ELSE f[i - 1]

LEMMA SelectedIn ==
    ASSUME NEW T, NEW s \in Seq(T), NEW S
    PROVE  Share!Selected(s, S) \in Seq(T \cap S)
<1> DEFINE n == Len(s)
           U == T \cap S
           F(f) == f = [i \in 0 .. n |->
                         IF i = 0 THEN <<>>
                         ELSE IF s[i] \in S THEN Append(f[i - 1], s[i]) ELSE f[i - 1]]
           N == {k \in Nat : k <= n => \E f \in [0 .. k -> Seq(U)] : Kept(s, S, f, k)}
<1>0. n \in Nat /\ \A i \in 1 .. n : s[i] \in T
  BY ElementOfSeq
<1>1. 0 \in N
  <2>1. [i \in 0 .. 0 |-> <<>>] \in [0 .. 0 -> Seq(U)] /\ Kept(s, S, [i \in 0 .. 0 |-> <<>>], 0)
    BY DEF Kept
  <2> QED
    BY <2>1
<1>2. ASSUME NEW k \in Nat, k >= 0 /\ k \in N  PROVE k + 1 \in N
  <2> SUFFICES ASSUME k + 1 <= n
               PROVE  \E f \in [0 .. k + 1 -> Seq(U)] : Kept(s, S, f, k + 1)
    OBVIOUS
  <2>1. PICK f \in [0 .. k -> Seq(U)] : Kept(s, S, f, k)
    BY <1>0, <1>2
  <2> DEFINE v == IF s[k + 1] \in S THEN Append(f[k], s[k + 1]) ELSE f[k]
             g == [i \in 0 .. k + 1 |-> IF i = k + 1 THEN v ELSE f[i]]
  <2>2. v \in Seq(U)
    <3>1. f[k] \in Seq(U) /\ s[k + 1] \in T
      BY <1>0
    <3> QED
      BY <3>1
  <2> HIDE DEF v
  <2>3. g \in [0 .. k + 1 -> Seq(U)]
    BY <2>2
  <2>4. g[0] = f[0] /\ g[k + 1] = v /\ \A i \in 0 .. k : g[i] = f[i]
    OBVIOUS
  <2> HIDE DEF g
  <2>5. ASSUME NEW i \in 1 .. k + 1
        PROVE  g[i] = IF s[i] \in S THEN Append(g[i - 1], s[i]) ELSE g[i - 1]
    <3>1. CASE i = k + 1
      <4>1. g[i - 1] = f[k]
        BY <2>4, <3>1
      <4> QED
        BY <2>4, <3>1, <4>1 DEF v
    <3>2. CASE i \in 1 .. k
      <4>1. g[i - 1] = f[i - 1] /\ g[i] = f[i]
        BY <2>4, <3>2
      <4> QED
        BY <2>1, <3>2, <4>1 DEF Kept
    <3> QED
      BY <3>1, <3>2
  <2>6. Kept(s, S, g, k + 1)
    BY <2>1, <2>4, <2>5 DEF Kept
  <2> QED
    BY <2>3, <2>6
<1>3. n \in N
  <2> HIDE DEF N, n
  <2> QED
    BY <1>0, <1>1, <1>2, Counting
<1>4. PICK f \in [0 .. n -> Seq(U)] : Kept(s, S, f, n)
  BY <1>3, <1>0
<1>5. F(f)
  <2> DEFINE h == [i \in 0 .. n |->
                    IF i = 0 THEN <<>>
                    ELSE IF s[i] \in S THEN Append(f[i - 1], s[i]) ELSE f[i - 1]]
  <2>1. ASSUME NEW i \in 0 .. n  PROVE f[i] = h[i]
    <3>1. CASE i = 0
      BY <1>4, <3>1 DEF Kept
    <3>2. CASE i \in 1 .. n
      BY <1>4, <3>2 DEF Kept
    <3> QED
      BY <1>0, <3>1, <3>2
  <2>2. f = [i \in 0 .. n |-> f[i]]
    BY <1>4
  <2> QED
    BY <2>1, <2>2
<1>6. \E g : F(g)
  BY <1>5
<1> DEFINE c == CHOOSE g : F(g)
<1>7. F(c)
  BY <1>6
<1> HIDE DEF c
<1>8. Share!Selected(s, S) = c[n]
  BY DEF Share!Selected, c
<1>9. \A k \in Nat : k >= 0 => k \in {j \in Nat : j <= n => c[j] \in Seq(U)}
  <2> DEFINE M == {j \in Nat : j <= n => c[j] \in Seq(U)}
  <2>1. 0 \in M
    BY <1>0, <1>7
  <2>2. ASSUME NEW j \in Nat, j >= 0 /\ j \in M  PROVE j + 1 \in M
    <3> SUFFICES ASSUME j + 1 <= n  PROVE c[j + 1] \in Seq(U)
      OBVIOUS
    <3>1. j + 1 \in 0 .. n /\ j + 1 # 0 /\ (j + 1) - 1 = j /\ s[j + 1] \in T /\ c[j] \in Seq(U)
      BY <1>0, <2>2
    <3>2. c[j + 1] = IF s[j + 1] \in S THEN Append(c[j], s[j + 1]) ELSE c[j]
      BY <1>7, <3>1
    <3> QED
      BY <3>1, <3>2
  <2> HIDE DEF M
  <2>3. \A k \in Nat : k >= 0 => k \in M
    BY <2>1, <2>2, Counting
  <2> QED
    BY <2>3 DEF M
<1> QED
  BY <1>0, <1>8, <1>9

\* How ShareThread::Finish sees an answer: the exit code SetResult stores for it.
Code(c) == IF answer[c] = "ok" THEN 0 ELSE -1

ShareTyped ==
    /\ thread \in [ShareCmd -> {"new", "made", "deleted"}]
    /\ exitCode \in [ShareCmd -> {0, -1}]
    /\ isDone \in [ShareCmd -> BOOLEAN]
    /\ call \in [ShareCmd -> {"none", "issued", "answered", "taken", "gone"}]
    /\ answer \in [ShareCmd -> {"none", "ok", "failed"}]
    /\ hReported \in [ShareCmd -> {"none", "success", "failure"}]
    /\ worker \in [Share!Worker -> {"idle", "next", "callback", "stored", "back", "exited"}]
    /\ current \in [Share!Worker -> ShareCmd \cup {Share!NoCmd}]
    /\ hRunning \in Seq(ShareCmd)
    /\ hFinished \in Seq({c \in ShareCmd : isDone[c]})
    /\ hPc \in {"create", "loop", "wait", "clear", "clients", "queues", "pool", "join", "gone", "crashed"}
    /\ hInterrupted \in BOOLEAN /\ hAborted \in BOOLEAN

\* A call is issued once for a ShareThread; one that is done has the result of its
\* answer, and its call is gone or about to go; so has one that was reported.
CallRight(c) ==
    /\ thread[c] = "new" => call[c] = "none"
    /\ isDone[c] => call[c] \in {"taken", "gone"} /\ exitCode[c] = Code(c)
    /\ hReported[c] # "none" =>
         isDone[c] /\ hReported[c] = (IF answer[c] = "ok" THEN "success" ELSE "failure")

\* A worker in a callback has a call that it took, which is not done, and no other
\* worker has it.
Busy(w) == worker[w] \in {"callback", "stored", "back"}

WorkerRight(w) ==
    Busy(w) => /\ current[w] \in ShareCmd /\ call[current[w]] = "taken"
               /\ worker[w] # "back" => ~isDone[current[w]]
               /\ worker[w] = "stored" => exitCode[current[w]] = Code(current[w])
               /\ \A v \in Share!Worker : v # w /\ Busy(v) => current[v] # current[w]

\* Unless the build gives up, a ShareThread lives until it is done, and the runner is
\* not cleared while one lives.
Clearing == {"clear", "clients", "queues", "pool", "join", "gone"}

LiveRight(c) ==
    ~hAborted => /\ call[c] \in {"issued", "answered", "taken"} /\ ~isDone[c] => thread[c] = "made"
                 /\ hPc \in Clearing => thread[c] # "made"

ShareInv == /\ ShareTyped
            /\ \A c \in ShareCmd : CallRight(c)
            /\ \A w \in Share!Worker : WorkerRight(w)
            /\ \A c \in ShareCmd : LiveRight(c)

LEMMA ShareInit == Share!Init => ShareInv
<1> SUFFICES ASSUME Share!Init  PROVE ShareInv
  OBVIOUS
<1> USE DEF Share!Init
<1>1. ShareTyped
  <2>1. <<>> \in Seq(ShareCmd) /\ <<>> \in Seq({c \in ShareCmd : isDone[c]})
    OBVIOUS
  <2>2. current \in [Share!Worker -> ShareCmd \cup {Share!NoCmd}]
    OBVIOUS
  <2> QED
    BY <2>1, <2>2 DEF ShareTyped
<1>2. \A c \in ShareCmd : CallRight(c)
  BY DEF CallRight
<1>3. \A w \in Share!Worker : WorkerRight(w)
  BY DEF WorkerRight, Busy
<1>4. \A c \in ShareCmd : LiveRight(c)
  BY DEF LiveRight
<1> QED
  BY <1>1, <1>2, <1>3, <1>4 DEF ShareInv

LEMMA ShareStep == ShareInv /\ [Share!Next]_shareVars => ShareInv'
<1> SUFFICES ASSUME ShareInv, [Share!Next]_shareVars  PROVE ShareInv'
  OBVIOUS
<1> USE DEF ShareInv
<1>1. ASSUME NEW c \in ShareCmd, Share!Add(c)  PROVE ShareInv'
  <2> USE <1>1 DEF Share!Add, Share!poolVars, Share!workVars, Share!sigVars
  <2>1. ShareTyped'
    BY DEF ShareTyped
  <2>2. \A d \in ShareCmd : CallRight(d)'
    BY DEF ShareTyped, CallRight, Code
  <2>3. \A w \in Share!Worker : WorkerRight(w)'
    BY DEF ShareTyped, WorkerRight, Busy, CallRight, Code
  <2>4. \A d \in ShareCmd : LiveRight(d)'
    BY DEF ShareTyped, LiveRight, Clearing
  <2> QED
    BY <2>1, <2>2, <2>3, <2>4
<1>2. CASE Share!Report
  <2> USE <1>2 DEF Share!Report, Share!poolVars, Share!workVars, Share!sigVars, Share!callVars
  <2> DEFINE c == Head(hFinished)
  <2>0. c \in ShareCmd /\ isDone[c] /\ Tail(hFinished) \in Seq({d \in ShareCmd : isDone[d]})
    BY HeadTailProperties DEF ShareTyped
  <2>1. ShareTyped'
    BY <2>0 DEF ShareTyped, Share!Finish
  <2>2. \A d \in ShareCmd : CallRight(d)'
    BY <2>0 DEF ShareTyped, CallRight, Code, Share!Finish
  <2>3. \A w \in Share!Worker : WorkerRight(w)'
    BY DEF WorkerRight, Busy, Code
  <2>4. \A d \in ShareCmd : LiveRight(d)'
    BY <2>0 DEF ShareTyped, LiveRight, Clearing, CallRight
  <2> QED
    BY <2>1, <2>2, <2>3, <2>4
<1>3. CASE Share!DoWork
  <2> USE <1>3 DEF Share!DoWork, Share!threadVars, Share!poolVars, Share!workVars, Share!sigVars, Share!callVars
  <2> DEFINE D == {d \in ShareCmd : Share!Done(d)}
             K == {d \in ShareCmd : ~Share!Done(d)}
  <2>0. /\ Share!Selected(hRunning, D) \in Seq(ShareCmd \cap D)
        /\ Share!Selected(hRunning, K) \in Seq(ShareCmd \cap K)
    BY SelectedIn DEF ShareTyped
  <2>1. ShareTyped'
    <3>1. hFinished' \in Seq({d \in ShareCmd : isDone[d]})
      <4>1. ShareCmd \cap D = {d \in ShareCmd : isDone[d]}
        BY DEF Share!Done
      <4> QED
        BY <2>0, <4>1
    <3>2. hRunning' \in Seq(ShareCmd)
      BY <2>0
    <3> QED
      BY <3>1, <3>2 DEF ShareTyped
  <2>2. \A d \in ShareCmd : CallRight(d)'
    BY DEF CallRight, Code
  <2>3. \A w \in Share!Worker : WorkerRight(w)'
    BY DEF WorkerRight, Busy, Code
  <2>4. \A d \in ShareCmd : LiveRight(d)'
    <3>1. hAborted \/ hInterrupted => hAborted'
      BY DEF ShareTyped
    <3>2. ~hInterrupted => hPc' = "wait"
      OBVIOUS
    <3> QED
      BY <3>1, <3>2 DEF ShareTyped, LiveRight, Clearing
  <2> QED
    BY <2>1, <2>2, <2>3, <2>4
<1>4. CASE Share!Clear
  <2> USE <1>4 DEF Share!Clear, Share!poolVars, Share!workVars, Share!sigVars, Share!callVars
  <2>1. ShareTyped'
    <3>1. thread' \in [ShareCmd -> {"new", "made", "deleted"}]
      BY DEF ShareTyped
    <3>2. hRunning' \in Seq(ShareCmd)
      OBVIOUS
    <3> QED
      BY <3>1, <3>2 DEF ShareTyped
  <2>2. \A d \in ShareCmd : CallRight(d)'
    BY DEF ShareTyped, CallRight, Code
  <2>3. \A w \in Share!Worker : WorkerRight(w)'
    BY DEF WorkerRight, Busy, Code
  <2>4. \A d \in ShareCmd : LiveRight(d)'
    <3>1. \A d \in ShareCmd : thread'[d] = thread[d] \/ thread'[d] = "deleted"
      OBVIOUS
    <3> QED
      BY <3>1 DEF LiveRight, Clearing
  <2> QED
    BY <2>1, <2>2, <2>3, <2>4
<1>5. CASE \/ Share!CreateClient \/ Share!WaitForCommand \/ Share!BuildEnds \/ Share!BuildError
           \/ Share!DestroyClients \/ Share!DestroyQueues \/ Share!StopPool \/ Share!Join
  <2> USE <1>5 DEF Share!CreateClient, Share!WaitForCommand, Share!BuildEnds, Share!BuildError,
          Share!DestroyClients, Share!DestroyQueues, Share!StopPool, Share!Join,
          Share!threadVars, Share!poolVars, Share!workVars, Share!callVars, Share!sigVars
  <2>1. ShareTyped'
    <3>1. hPc' \in {"create", "loop", "wait", "clear", "clients", "queues", "pool", "join", "gone"}
      OBVIOUS
    <3>2. hAborted' \in BOOLEAN /\ UNCHANGED <<thread, exitCode, isDone, call, answer, hReported,
                                          worker, current, hRunning, hFinished, hInterrupted>>
      BY DEF ShareTyped
    <3> QED
      BY <3>1, <3>2 DEF ShareTyped
  <2>2. \A d \in ShareCmd : CallRight(d)'
    BY DEF CallRight, Code
  <2>3. \A w \in Share!Worker : WorkerRight(w)'
    BY DEF WorkerRight, Busy, Code
  <2>4. \A d \in ShareCmd : LiveRight(d)'
    BY DEF ShareTyped, LiveRight, Clearing
  <2> QED
    BY <2>1, <2>2, <2>3, <2>4
<1>6. ASSUME NEW w \in Share!Worker, Share!TakeTask(w) \/ Share!Exit(w) \/ Share!NextShutdown(w)
      PROVE  ShareInv'
  <2> USE <1>6 DEF Share!TakeTask, Share!Exit, Share!NextShutdown, Share!mainVars,
          Share!threadVars, Share!poolVars, Share!callVars, Share!sigVars
  <2>1. ShareTyped'
    <3>1. PICK x \in {"idle", "next", "exited"} : worker' = [worker EXCEPT ![w] = x]
      OBVIOUS
    <3>2. worker' \in [Share!Worker -> {"idle", "next", "callback", "stored", "back", "exited"}]
      BY <3>1 DEF ShareTyped
    <3> QED
      BY <3>2 DEF ShareTyped
  <2>2. \A d \in ShareCmd : CallRight(d)'
    BY DEF CallRight, Code
  <2>3. \A v \in Share!Worker : WorkerRight(v)'
    <3>1. \A u \in Share!Worker : Busy(u)' => Busy(u) /\ worker'[u] = worker[u]
      BY DEF ShareTyped, Busy
    <3> QED
      BY <3>1 DEF WorkerRight, Code
  <2>4. \A d \in ShareCmd : LiveRight(d)'
    BY DEF LiveRight, Clearing
  <2> QED
    BY <2>1, <2>2, <2>3, <2>4
<1>7. ASSUME NEW w \in Share!Worker, NEW c \in ShareCmd, Share!NextCall(w, c)  PROVE ShareInv'
  <2> USE <1>7 DEF Share!NextCall, Share!sigVars, Share!mainVars, Share!threadVars, Share!poolVars
  <2>1. ShareTyped'
    BY DEF ShareTyped
  <2>2. \A d \in ShareCmd : CallRight(d)'
    BY DEF ShareTyped, CallRight, Code
  <2>3. \A v \in Share!Worker : WorkerRight(v)'
    <3>1. ~isDone[c] /\ call[c] = "answered"
      BY DEF CallRight
    <3>2. \A v \in Share!Worker : Busy(v) => v # w /\ current[v] # c
      BY <3>1 DEF WorkerRight, Busy
    <3>3. /\ current'[w] = c /\ worker'[w] = "callback" /\ call'[c] = "taken"
          /\ \A v \in Share!Worker \ {w} : current'[v] = current[v] /\ worker'[v] = worker[v]
          /\ \A d \in ShareCmd \ {c} : call'[d] = call[d]
      BY DEF ShareTyped
    <3> QED
      BY <3>1, <3>2, <3>3 DEF WorkerRight, Busy, Code
  <2>4. \A d \in ShareCmd : LiveRight(d)'
    BY DEF ShareTyped, LiveRight, Clearing
  <2> QED
    BY <2>1, <2>2, <2>3, <2>4
<1>8. ASSUME NEW w \in Share!Worker, Share!StoreResult(w)  PROVE ShareInv'
  <2> USE <1>8 DEF Share!StoreResult, Share!sigVars, Share!mainVars, Share!poolVars, Share!callVars
  <2>0. current[w] \in ShareCmd /\ call[current[w]] = "taken" /\ worker[w] = "callback"
    BY DEF WorkerRight, Busy
  <2>1. ShareTyped'
    BY <2>0 DEF ShareTyped
  <2>2. \A d \in ShareCmd : CallRight(d)'
    BY <2>0 DEF ShareTyped, CallRight, Code
  <2>3. \A v \in Share!Worker : WorkerRight(v)'
    BY <2>0 DEF ShareTyped, WorkerRight, Busy, Code
  <2>4. \A d \in ShareCmd : LiveRight(d)'
    BY DEF LiveRight, Clearing
  <2> QED
    BY <2>1, <2>2, <2>3, <2>4
<1>9. ASSUME NEW w \in Share!Worker, Share!StoreDone(w)  PROVE ShareInv'
  <2> USE <1>9 DEF Share!StoreDone, Share!sigVars, Share!mainVars, Share!poolVars, Share!callVars
  <2>0. /\ current[w] \in ShareCmd /\ call[current[w]] = "taken" /\ worker[w] = "stored"
        /\ exitCode[current[w]] = Code(current[w])
    BY DEF WorkerRight, Busy
  <2>1. ShareTyped'
    <3>1. hFinished' \in Seq({d \in ShareCmd : isDone'[d]})
      <4>1. {d \in ShareCmd : isDone[d]} \subseteq {d \in ShareCmd : isDone'[d]}
        BY <2>0 DEF ShareTyped
      <4>2. \A A, B : A \subseteq B => Seq(A) \subseteq Seq(B)
        OBVIOUS
      <4> QED
        BY <4>1, <4>2 DEF ShareTyped
    <3> QED
      BY <2>0, <3>1 DEF ShareTyped
  <2>2. \A d \in ShareCmd : CallRight(d)'
    BY <2>0 DEF ShareTyped, CallRight, Code
  <2>3. \A v \in Share!Worker : WorkerRight(v)'
    BY <2>0 DEF ShareTyped, WorkerRight, Busy, Code
  <2>4. \A d \in ShareCmd : LiveRight(d)'
    BY <2>0 DEF ShareTyped, LiveRight, Clearing
  <2> QED
    BY <2>1, <2>2, <2>3, <2>4
<1>14. ASSUME NEW w \in Share!Worker, Share!GoBack(w)  PROVE ShareInv'
  <2> USE <1>14 DEF Share!GoBack, Share!sigVars, Share!mainVars, Share!threadVars, Share!poolVars
  <2>0. current[w] \in ShareCmd /\ call[current[w]] = "taken" /\ worker[w] = "back"
    BY DEF WorkerRight, Busy
  <2>1. ShareTyped'
    BY <2>0 DEF ShareTyped
  <2>2. \A d \in ShareCmd : CallRight(d)'
    BY <2>0 DEF ShareTyped, CallRight, Code
  <2>3. \A v \in Share!Worker : WorkerRight(v)'
    BY <2>0 DEF ShareTyped, WorkerRight, Busy, Code
  <2>4. \A d \in ShareCmd : LiveRight(d)'
    BY <2>0 DEF ShareTyped, LiveRight, Clearing
  <2> QED
    BY <2>1, <2>2, <2>3, <2>4
<1>15. ASSUME NEW w \in Share!Worker, Share!Crash(w)  PROVE ShareInv'
  <2> USE <1>15 DEF Share!Crash, Share!threadVars, Share!poolVars, Share!workVars,
          Share!callVars, Share!sigVars
  <2>1. ShareTyped'
    BY DEF ShareTyped
  <2>2. \A d \in ShareCmd : CallRight(d)'
    BY DEF CallRight, Code
  <2>3. \A v \in Share!Worker : WorkerRight(v)'
    BY DEF WorkerRight, Busy, Code
  <2>4. \A d \in ShareCmd : LiveRight(d)'
    BY DEF LiveRight, Clearing
  <2> QED
    BY <2>1, <2>2, <2>3, <2>4
<1>10. ASSUME NEW c \in ShareCmd, Share!Answer(c)  PROVE ShareInv'
  <2> USE <1>10 DEF Share!Answer, Share!mainVars, Share!threadVars, Share!poolVars, Share!workVars, Share!sigVars
  <2>0. PICK a \in {"ok", "failed"} : answer' = [answer EXCEPT ![c] = a]
    OBVIOUS
  <2>1. ShareTyped'
    BY <2>0 DEF ShareTyped
  <2>2. \A d \in ShareCmd : CallRight(d)'
    BY <2>0 DEF ShareTyped, CallRight, Code
  <2>3. \A w \in Share!Worker : WorkerRight(w)'
    BY <2>0 DEF ShareTyped, WorkerRight, Busy, Code
  <2>4. \A d \in ShareCmd : LiveRight(d)'
    BY <2>0 DEF ShareTyped, LiveRight, Clearing
  <2> QED
    BY <2>1, <2>2, <2>3, <2>4
<1>11. CASE Share!Signal
  <2> USE <1>11 DEF Share!Signal, Share!mainVars, Share!threadVars, Share!poolVars,
          Share!workVars, Share!sigVars, Share!callVars
  <2>1. ShareTyped'
    BY DEF ShareTyped
  <2>2. \A d \in ShareCmd : CallRight(d)'
    BY DEF CallRight, Code
  <2>3. \A w \in Share!Worker : WorkerRight(w)'
    BY DEF WorkerRight, Busy, Code
  <2>4. \A d \in ShareCmd : LiveRight(d)'
    BY DEF LiveRight, Clearing
  <2> QED
    BY <2>1, <2>2, <2>3, <2>4
<1>12. CASE UNCHANGED shareVars
  <2> USE <1>12 DEF shareVars
  <2>1. ShareTyped'
    BY DEF ShareTyped
  <2>2. \A d \in ShareCmd : CallRight(d)'
    BY DEF CallRight, Code
  <2>3. \A w \in Share!Worker : WorkerRight(w)'
    BY DEF WorkerRight, Busy, Code
  <2>4. \A d \in ShareCmd : LiveRight(d)'
    BY DEF LiveRight, Clearing
  <2> QED
    BY <2>1, <2>2, <2>3, <2>4
<1>13. Share!Terminated => UNCHANGED shareVars
  BY DEF Share!Terminated, Share!vars, Share!mainVars, Share!threadVars, Share!poolVars,
         Share!callVars, Share!workVars, Share!sigVars, shareVars
<1> QED
  BY <1>1, <1>2, <1>3, <1>4, <1>5, <1>6, <1>7, <1>8, <1>9, <1>10, <1>11, <1>12, <1>13, <1>14,
     <1>15 DEF Share!Next, Share!Main, Share!Work

LEMMA ShareInvariant == MCSpec => []ShareInv
<1>1. MCInit => ShareInv
  BY ShareInit DEF MCInit
<1>2. ShareInv /\ [MCNext]_allVars => ShareInv'
  <2>1. [MCNext]_allVars => [Share!Next]_shareVars
    BY DEF MCNext, allVars, LocalBuild
  <2> QED
    BY <2>1, ShareStep
<1> QED
  BY <1>1, <1>2, PTL DEF MCSpec

\* For any number of clients, workers and commands, what a share build is told of a
\* command is what the service answered: polling is_done_ sees no result half stored,
\* and no other command's (ShareThread::Done, SetResult).
THEOREM AnswersAreReported == MCSpec => []AnswerReported
<1>1. ShareInv => AnswerReported
  BY DEF ShareInv, CallRight, AnswerReported, Share!AnswerReported
<1> QED
  BY <1>1, ShareInvariant, PTL

\* Whatever the interleaving of signals, errors, answers and workers, a callback stores
\* its result in a ShareThread that was not reported, and that lives unless the build
\* has given up (share_thread.cc, WaitForCommand and Clear).
THEOREM NoStoreIntoDeleted == MCSpec => []StoresIntoLive
<1>1. ShareInv => StoresIntoLive
  <2> SUFFICES ASSUME ShareInv, NEW w \in Share!Worker, worker[w] \in {"callback", "stored"}
               PROVE  /\ hReported[current[w]] = "none"
                      /\ thread[current[w]] = "deleted" => hAborted
    BY DEF StoresIntoLive, Share!StoresIntoLive
  <2>1. /\ current[w] \in ShareCmd /\ call[current[w]] = "taken" /\ ~isDone[current[w]]
    BY DEF ShareInv, WorkerRight, Busy
  <2>2. CallRight(current[w]) /\ LiveRight(current[w])
    BY <2>1 DEF ShareInv
  <2> QED
    BY <2>1, <2>2 DEF CallRight, LiveRight
<1> QED
  BY <1>1, ShareInvariant, PTL
=============================================================================
